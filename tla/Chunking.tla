------------------------------ MODULE Chunking ------------------------------
(***************************************************************************)
(* How a document element is cut into chunks (ingestion/chunking.py).  A    *)
(* paragraph is a sequence of words, a word is its length and its place in  *)
(* the element, and a chunk is its words and its length.                    *)
(***************************************************************************)
EXTENDS Integers, Sequences, SequencesExt

CONSTANTS
    Target,   \* target_characters
    Overlap,  \* overlap_characters
    Elements  \* sequences of paragraphs, given by the lengths of their words

\* No word is empty, and no paragraph is without a word: _split_text drops it.
ASSUME ChunkingAssumption ==
    /\ Target \in Nat /\ Overlap \in Nat /\ Overlap < Target
    /\ Elements \subseteq Seq(Seq(Nat \ {0}) \ {<<>>})

VARIABLE cut  \* an element's paragraphs and the chunks they were cut into

chunkingVars == <<cut>>
NoChunk == [words |-> <<>>, length |-> 0]

\* Words joined by one space, and chunks by an empty line.
Joined(words) == FoldLeft(LAMBDA n, w : n + w.length + 1, -1, words)
Phrase(words) == [words |-> words, length |-> IF words = <<>> THEN 0 ELSE Joined(words)]
Together(a, b) ==
    IF a.words = <<>> THEN b ELSE [words |-> a.words \o b.words, length |-> a.length + 2 + b.length]

(* _split_oversized, of a paragraph.                                        *)
Fill(acc, w) ==
    IF acc.current # <<>> /\ Joined(Append(acc.current, w)) > Target
    THEN [parts |-> Append(acc.parts, Phrase(acc.current)), current |-> <<w>>]
    ELSE [acc EXCEPT !.current = Append(@, w)]
SplitForgetting(p) ==                                 \* mutant: no last part
    FoldLeft(Fill, [parts |-> <<>>, current |-> <<>>], p).parts
SplitOversized(p) ==
    LET filled == FoldLeft(Fill, [parts |-> <<>>, current |-> <<>>], p)
    IN Append(filled.parts, Phrase(filled.current))

(* _tail: the last words of a chunk, as many as the overlap has room for.   *)
Tails(words) == {SubSeq(words, i, Len(words)) : i \in 1..Len(words)}
TailOf(words) ==
    LET fitting == {t \in Tails(words) : Overlap > 0 /\ Joined(t) <= Overlap}
    IN IF fitting = {} THEN <<>> ELSE CHOOSE t \in fitting : \A u \in fitting : Len(u) <= Len(t)

(* _split_text, of paragraphs.                                              *)
AddPart(acc, part) ==
    IF acc.current.words # <<>> /\ Together(acc.current, part).length > Target
    THEN [chunks |-> Append(acc.chunks, acc.current),
          current |-> Together(Phrase(TailOf(acc.current.words)), part)]
    ELSE [acc EXCEPT !.current = Together(@, part)]
SplitText(paragraphs) ==
    LET atomic == FlattenSeq([i \in DOMAIN paragraphs |-> SplitOversized(paragraphs[i])])
        filled == FoldLeft(AddPart, [chunks |-> <<>>, current |-> NoChunk], atomic)
    IN IF filled.current.words = <<>> THEN filled.chunks ELSE Append(filled.chunks, filled.current)

\* The words of an element, numbered.
Before(e, i) == FoldLeft(LAMBDA n, p : n + Len(p), 0, SubSeq(e, 1, i - 1))
Numbered(e) ==
    [i \in DOMAIN e |-> [j \in DOMAIN e[i] |-> [at |-> Before(e, i) + j, length |-> e[i][j]]]]

ChunkingInit == cut = [paragraphs |-> <<>>, chunks |-> <<>>]

(* chunk_document, for one of its elements.                                 *)
CutElement(e) ==
    /\ cut.paragraphs = <<>>
    /\ cut' = [paragraphs |-> Numbered(e), chunks |-> SplitText(Numbered(e))]

ChunkingNext == \E e \in Elements : CutElement(e)
ChunkingSpec == ChunkingInit /\ [][ChunkingNext]_chunkingVars
-----------------------------------------------------------------------------
(* Properties *)

Words == FlattenSeq(cut.paragraphs)

\* No word of an element is lost, doubled or moved, however it is cut: chunks
\* are runs of its words, each begins in or right after the one before it and
\* goes further, and none is longer than the target, an overlap and the empty
\* line between them unless a single word is.
ChunksCoverTheText ==
    /\ \A k \in DOMAIN cut.chunks :
         LET w == cut.chunks[k].words
             next == cut.chunks[k + 1].words
         IN /\ w = SubSeq(Words, w[1].at, w[Len(w)].at)
            /\ k < Len(cut.chunks) => next[1].at <= w[Len(w)].at + 1
                                      /\ next[Len(next)].at > w[Len(w)].at
            /\ (\A x \in DOMAIN Words : Words[x].length <= Target)
                 => cut.chunks[k].length <= Target + Overlap + 2
    /\ Words # <<>> => /\ cut.chunks # <<>>
                       /\ Head(cut.chunks[1].words).at = 1
                       /\ Last(Last(cut.chunks).words).at = Len(Words)
=============================================================================
