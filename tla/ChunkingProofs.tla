--------------------------- MODULE ChunkingProofs ---------------------------
(***************************************************************************)
(* Proofs about Chunking for any element, of any number of paragraphs and   *)
(* words, any target and any overlap.  What the folds of the module compute *)
(* is shown by induction over the numbers, in the form of sets: the         *)
(* naturals have least elements, so a set of them that holds 0 and what     *)
(* comes after its elements holds them all.                                *)
(***************************************************************************)
EXTENDS Chunking, SequenceTheorems, WellFoundedInduction, TLAPS

-----------------------------------------------------------------------------
(* Induction, in the form of sets.                                         *)

LEMMA Least ==
    ASSUME NEW T, T \subseteq Nat, T # {}
    PROVE  \E m \in T : \A k \in T : m <= k
<1> DEFINE R == {p \in Nat \X Nat : p[1] < p[2]}
<1>1. IsWellFoundedOn(R, Nat)
    BY NatLessThanWellFounded DEF OpToRel
<1>2. PICK m \in T : \A k \in T : <<k, m>> \notin R
    <2> HIDE DEF R
    <2> QED BY <1>1, WFMin
<1>3. \A k \in T : ~(k < m)
    BY <1>2
<1> QED BY <1>3

\* Up to n, what holds of 0 and passes from each number to the next holds.
LEMMA UpTo ==
    ASSUME NEW n \in Nat, NEW S, 0 \in S, \A i \in 1..n : i - 1 \in S => i \in S
    PROVE  0..n \subseteq S
<1> DEFINE T == (0..n) \ S
<1>1. ASSUME T # {} PROVE FALSE
    <2>0. T \subseteq Nat
        OBVIOUS
    <2>1. PICK m \in T : \A k \in T : m <= k
        <3> HIDE DEF T
        <3> QED BY <1>1, <2>0, Least
    <2>2. m \in 1..n /\ m \notin S
        OBVIOUS
    <2>3. m - 1 \in 0..n /\ ~(m <= m - 1)
        BY <2>2
    <2>4. m - 1 \in S
        BY <2>1, <2>3
    <2> QED BY <2>2, <2>4
<1> QED BY <1>1

LEMMA Greatest ==
    ASSUME NEW n \in Nat, NEW S, S \subseteq 0..n, S # {}
    PROVE  \E m \in S : \A k \in S : k <= m
<1> DEFINE T == {n - k : k \in S}
<1>1. T \subseteq Nat /\ T # {}
    OBVIOUS
<1>2. PICK d \in T : \A k \in T : d <= k
    <2> HIDE DEF T
    <2> QED BY <1>1, Least
<1>3. PICK m \in S : d = n - m
    BY <1>2
<1>4. ASSUME NEW k \in S PROVE k <= m
    <2>1. k \in Nat /\ m \in Nat /\ n - k \in T
        OBVIOUS
    <2>2. n - m <= n - k
        BY <1>2, <1>3, <2>1
    <2> QED BY <2>1, <2>2
<1> QED BY <1>4

-----------------------------------------------------------------------------
(* The folds.  FoldLeft is a function on sets of indices that takes the      *)
(* greatest index away; on the first i indices it is what the first i       *)
(* elements make of the base.                                              *)

LEMMA MaxIs ==
    ASSUME NEW n \in Nat, NEW s, s \subseteq 1..n, n \in s
    PROVE  Max(s) = n
<1>1. \A y \in s : n >= y
    OBVIOUS
<1>2. \A x \in s : (\A y \in s : x >= y) => x = n
    OBVIOUS
<1> QED BY <1>1, <1>2 DEF Max

LEMMA FirstIndices ==
    ASSUME NEW i \in Nat \ {0}
    PROVE  Max(1..i) = i /\ (1..i) \ {i} = 1..(i - 1) /\ 1..i # {}
<1>1. 1..i \subseteq 1..i /\ i \in 1..i
    OBVIOUS
<1>2. Max(1..i) = i
    BY <1>1, MaxIs
<1>3. (1..i) \ {i} = 1..(i - 1)
    OBVIOUS
<1> QED BY <1>1, <1>2, <1>3

IsFold(n, base, step, iter) ==
    \A s \in SUBSET (1..n) :
        iter[s] = IF s = {} THEN base ELSE step[Max(s)][iter[s \ {Max(s)}]]

LEMMA FoldExists ==
    ASSUME NEW V, NEW base \in V, NEW n \in Nat, NEW step \in [1..n -> [V -> V]]
    PROVE  \E iter \in [SUBSET (1..n) -> V] : IsFold(n, base, step, iter)
<1> USE DEF IsFold
<1> DEFINE Folds(m, iter) == IsFold(m, base, step, iter)
           S == {m \in 0..n : \E iter \in [SUBSET (1..m) -> V] : Folds(m, iter)}
<1>1. 0 \in S
    <2> DEFINE iter == [s \in SUBSET (1..0) |-> base]
    <2>1. \A s \in SUBSET (1..0) : s = {} /\ iter[s] = base
        OBVIOUS
    <2>2. iter \in [SUBSET (1..0) -> V]
        OBVIOUS
    <2>3. Folds(0, iter)
        BY <2>1
    <2>4. 0 \in 0..n
        OBVIOUS
    <2> HIDE DEF iter
    <2> QED BY <2>2, <2>3, <2>4
<1>2. ASSUME NEW m \in 1..n, m - 1 \in S PROVE m \in S
    <2>0. m \in Nat \ {0} /\ m \in 0..n
        OBVIOUS
    <2>1. PICK old \in [SUBSET (1..(m - 1)) -> V] : Folds(m - 1, old)
        BY <1>2
    <2> DEFINE iter == [s \in SUBSET (1..m) |->
                            IF m \in s THEN step[m][old[s \ {m}]] ELSE old[s]]
    <2>2. ASSUME NEW s \in SUBSET (1..m)
          PROVE  /\ s \ {m} \in SUBSET (1..(m - 1))
                 /\ m \notin s => s \in SUBSET (1..(m - 1))
        OBVIOUS
    <2>3. iter \in [SUBSET (1..m) -> V]
        BY <2>1, <2>2
    <2>4. ASSUME NEW s \in SUBSET (1..m)
          PROVE  iter[s] = IF s = {} THEN base ELSE step[Max(s)][iter[s \ {Max(s)}]]
        <3>1. CASE m \in s
            <4>0. s \subseteq 1..m
                OBVIOUS
            <4>1. Max(s) = m
                BY <2>0, <3>1, <4>0, MaxIs
            <4>2. s \ {m} \in SUBSET (1..m) /\ m \notin s \ {m}
                BY <2>2
            <4>3. iter[s \ {m}] = old[s \ {m}]
                BY <4>2
            <4> QED BY <3>1, <4>1, <4>3
        <3>2. CASE m \notin s
            <4>1. s \in SUBSET (1..(m - 1)) /\ iter[s] = old[s]
                BY <2>2, <3>2
            <4>2. s \ {Max(s)} \in SUBSET (1..m) /\ m \notin s \ {Max(s)}
                BY <3>2
            <4>3. iter[s \ {Max(s)}] = old[s \ {Max(s)}]
                BY <4>2
            <4> QED BY <2>1, <4>1, <4>3
        <3> QED BY <3>1, <3>2
    <2>5. Folds(m, iter)
        <3> HIDE DEF iter
        <3> QED BY <2>4
    <2> HIDE DEF iter
    <2> QED BY <2>0, <2>3, <2>5
<1>3. n \in S
    <2> HIDE DEF S
    <2>1. 0..n \subseteq S
        BY <1>1, <1>2, UpTo
    <2> QED BY <2>1
<1> QED BY <1>3

\* A set of indices is empty or has a greatest, which is one of them.
LEMMA MaxIn ==
    ASSUME NEW n \in Nat, NEW t \in SUBSET (1..n), t # {}
    PROVE  Max(t) \in t
<1>1. t \subseteq 0..n
    OBVIOUS
<1>2. PICK m \in t : \A k \in t : k <= m
    BY <1>1, Greatest
<1>3. m \in t /\ \A k \in t : m >= k
    BY <1>2
<1> QED BY <1>3 DEF Max

-----------------------------------------------------------------------------
(* The lengths of words that are joined.                                   *)

Word == [at : Nat \ {0}, length : Nat]

LEMMA JoinedFold ==
    ASSUME NEW s \in Seq(Word)
    PROVE  \E f \in [0..Len(s) -> Int] :
               /\ f[0] = -1 /\ Joined(s) = f[Len(s)]
               /\ \A i \in 1..Len(s) : f[i] = f[i - 1] + s[i].length + 1
<1> DEFINE n == Len(s)
           Fold(g) == [t \in SUBSET DOMAIN s |->
                          IF t = {} THEN -1 ELSE g[t \ {Max(t)}] + s[Max(t)].length + 1]
           step == [i \in 1..n |-> [v \in Int |-> v + s[i].length + 1]]
           iter == CHOOSE g : g = Fold(g)
           f == [i \in 0..n |-> iter[1..i]]
<1>1. /\ n \in Nat /\ DOMAIN s = 1..n
      /\ \A i \in 1..n : s[i] \in Word /\ s[i].length \in Int
    <2>1. n \in Nat /\ DOMAIN s = 1..n /\ \A i \in 1..n : s[i] \in Word
        BY LenProperties
    <2> QED BY <2>1 DEF Word
<1> HIDE DEF n
<1>2. step \in [1..n -> [Int -> Int]] /\ -1 \in Int
    BY <1>1
<1>3. \E g : g = Fold(g)
    <2>1. PICK g \in [SUBSET (1..n) -> Int] : IsFold(n, -1, step, g)
        <3> HIDE DEF step
        <3> QED BY <1>1, <1>2, FoldExists
    <2>2. ASSUME NEW t \in SUBSET (1..n), t # {}
          PROVE  step[Max(t)][g[t \ {Max(t)}]] = g[t \ {Max(t)}] + s[Max(t)].length + 1
        <3>1. Max(t) \in 1..n
            BY <1>1, <2>2, MaxIn
        <3>2. g[t \ {Max(t)}] \in Int
            BY <2>1
        <3> QED BY <3>1, <3>2
    <2>3. \A t \in SUBSET DOMAIN s :
              g[t] = IF t = {} THEN -1 ELSE g[t \ {Max(t)}] + s[Max(t)].length + 1
        BY <1>1, <2>1, <2>2 DEF IsFold
    <2>4. g = Fold(g)
        BY <1>1, <2>1, <2>3
    <2> QED BY <2>4
<1>4. iter = Fold(iter)
    BY <1>3
<1>5. Joined(s) = iter[DOMAIN s]
    BY DEF Joined, FoldLeft, MapThenFoldSet
<1> HIDE DEF iter
<1>6. f[0] = -1 /\ Joined(s) = f[n]
    BY <1>1, <1>4, <1>5
<1>7. ASSUME NEW i \in 1..n
      PROVE  f[i] = f[i - 1] + s[i].length + 1
    <2>1. i \in Nat \ {0} /\ 1..i \in SUBSET DOMAIN s /\ i - 1 \in 0..n
        BY <1>1
    <2>2. Max(1..i) = i /\ (1..i) \ {i} = 1..(i - 1) /\ 1..i # {}
        BY <2>1, FirstIndices
    <2>3. iter[1..i] = iter[1..(i - 1)] + s[i].length + 1
        BY <1>4, <2>1, <2>2
    <2> QED BY <2>1, <2>3
<1>8. f \in [0..n -> Int]
    <2> DEFINE S == {i \in 0..n : f[i] \in Int}
    <2> HIDE DEF f
    <2>1. 0 \in S
        BY <1>1, <1>6
    <2>2. ASSUME NEW i \in 1..n, i - 1 \in S PROVE i \in S
        BY <1>1, <1>7, <2>2
    <2>3. 0..n \subseteq S
        <3> HIDE DEF S
        <3> QED BY <1>1, <2>1, <2>2, UpTo
    <2> QED BY <2>3 DEF f
<1> QED BY <1>6, <1>7, <1>8 DEF n

\* One more word adds itself and a space, and words have a length.
LEMMA JoinedGrows ==
    ASSUME NEW s \in Seq(Word), NEW w \in Word
    PROVE  Joined(Append(s, w)) = Joined(s) + w.length + 1
<1> DEFINE n == Len(s)
           t == Append(s, w)
<1>1. /\ n \in Nat /\ t \in Seq(Word) /\ Len(t) = n + 1 /\ t[n + 1] = w
      /\ \A i \in 1..n : t[i] = s[i] /\ s[i].length \in Int
    <2>1. /\ n \in Nat /\ t \in Seq(Word) /\ Len(t) = n + 1 /\ t[n + 1] = w
          /\ \A i \in 1..n : t[i] = s[i] /\ s[i] \in Word
        BY AppendProperties, LenProperties
    <2> QED BY <2>1 DEF Word
<1> HIDE DEF n, t
<1>2. PICK f \in [0..n -> Int] :
          /\ f[0] = -1 /\ Joined(s) = f[n]
          /\ \A i \in 1..n : f[i] = f[i - 1] + s[i].length + 1
    BY JoinedFold DEF n
<1>3. PICK g \in [0..(n + 1) -> Int] :
          /\ g[0] = -1 /\ Joined(t) = g[n + 1]
          /\ \A i \in 1..(n + 1) : g[i] = g[i - 1] + t[i].length + 1
    BY <1>1, JoinedFold
<1>4. g[n] = f[n]
    <2> DEFINE S == {i \in 0..n : g[i] = f[i]}
    <2>1. 0 \in S
        BY <1>1, <1>2, <1>3
    <2>2. ASSUME NEW i \in 1..n, i - 1 \in S PROVE i \in S
        <3>1. i \in 1..(n + 1) /\ g[i - 1] = f[i - 1] /\ t[i] = s[i]
            BY <1>1, <2>2
        <3>2. f[i] = f[i - 1] + s[i].length + 1 /\ g[i] = g[i - 1] + t[i].length + 1
            BY <1>2, <1>3, <3>1
        <3> QED BY <3>1, <3>2
    <2>3. 0..n \subseteq S
        <3> HIDE DEF S
        <3> QED BY <1>1, <2>1, <2>2, UpTo
    <2> QED BY <1>1, <2>3
<1>5. g[n + 1] = g[n] + w.length + 1
    BY <1>1, <1>3
<1> QED BY <1>2, <1>3, <1>4, <1>5 DEF t

LEMMA JoinedType ==
    ASSUME NEW s \in Seq(Word)
    PROVE  Joined(s) \in Int /\ (s # <<>> => Joined(s) \in Nat)
<1> DEFINE n == Len(s)
<1>1. /\ n \in Nat /\ (s # <<>> => n \in 1..n)
      /\ \A i \in 1..n : s[i].length \in Nat
    <2>1. \A i \in 1..n : s[i] \in Word
        BY LenProperties
    <2> QED BY <2>1, EmptySeq DEF Word
<1>2. PICK f \in [0..n -> Int] :
          /\ f[0] = -1 /\ Joined(s) = f[n]
          /\ \A i \in 1..n : f[i] = f[i - 1] + s[i].length + 1
    BY JoinedFold
<1> DEFINE S == {i \in 0..n : f[i] \in Int /\ f[i] >= -1}
<1> HIDE DEF n
<1>3. 0 \in S
    BY <1>1, <1>2
<1>4. ASSUME NEW i \in 1..n, i - 1 \in S PROVE i \in S
    <2>1. f[i] = f[i - 1] + s[i].length + 1 /\ s[i].length \in Nat /\ i \in 0..n
        BY <1>1, <1>2
    <2>2. f[i - 1] \in Int /\ f[i - 1] >= -1
        BY <1>4
    <2> QED BY <2>1, <2>2
<1>5. 0..n \subseteq S
    <2> HIDE DEF S
    <2> QED BY <1>1, <1>3, <1>4, UpTo
<1>6. ASSUME s # <<>> PROVE f[n] \in Nat
    <2>1. n \in 1..n /\ n - 1 \in 0..n
        BY <1>1, <1>6
    <2>2. f[n - 1] \in Int /\ f[n - 1] >= -1
        BY <1>5, <2>1
    <2>3. f[n] = f[n - 1] + s[n].length + 1 /\ s[n].length \in Nat
        BY <1>1, <1>2, <2>1
    <2> QED BY <2>2, <2>3
<1> QED BY <1>1, <1>2, <1>6

LEMMA JoinedFew ==
    /\ Joined(<<>>) = -1
    /\ \A w \in Word : Joined(<<w>>) = w.length
<1>1. Joined(<<>>) = -1
    <2>1. <<>> \in Seq(Word) /\ Len(<<>>) = 0
        OBVIOUS
    <2> QED BY <2>1, JoinedFold
<1>2. ASSUME NEW w \in Word PROVE Joined(<<w>>) = w.length
    <2>1. <<w>> = Append(<<>>, w) /\ <<>> \in Seq(Word) /\ w.length \in Nat
        BY DEF Word
    <2>2. Joined(Append(<<>>, w)) = Joined(<<>>) + w.length + 1
        BY <2>1, JoinedGrows
    <2> QED BY <1>1, <2>1, <2>2
<1> QED BY <1>1, <1>2

-----------------------------------------------------------------------------
(* The numbers of words before a paragraph.                                *)

Count(s) == FoldLeft(LAMBDA n, p : n + Len(p), 0, s)

LEMMA CountFold ==
    ASSUME NEW T, NEW s \in Seq(Seq(T))
    PROVE  \E f \in [0..Len(s) -> Nat] :
               /\ f[0] = 0 /\ Count(s) = f[Len(s)]
               /\ \A i \in 1..Len(s) : f[i] = f[i - 1] + Len(s[i])
<1> DEFINE n == Len(s)
           Fold(g) == [t \in SUBSET DOMAIN s |->
                          IF t = {} THEN 0 ELSE g[t \ {Max(t)}] + Len(s[Max(t)])]
           step == [i \in 1..n |-> [v \in Nat |-> v + Len(s[i])]]
           iter == CHOOSE g : g = Fold(g)
           f == [i \in 0..n |-> iter[1..i]]
<1>1. n \in Nat /\ DOMAIN s = 1..n /\ \A i \in 1..n : Len(s[i]) \in Nat
    <2>1. n \in Nat /\ DOMAIN s = 1..n /\ \A i \in 1..n : s[i] \in Seq(T)
        BY LenProperties
    <2> QED BY <2>1, LenProperties
<1> HIDE DEF n
<1>2. step \in [1..n -> [Nat -> Nat]]
    BY <1>1
<1>3. \E g : g = Fold(g)
    <2>1. PICK g \in [SUBSET (1..n) -> Nat] : IsFold(n, 0, step, g)
        <3> HIDE DEF step
        <3> QED BY <1>1, <1>2, FoldExists
    <2>2. ASSUME NEW t \in SUBSET (1..n), t # {}
          PROVE  step[Max(t)][g[t \ {Max(t)}]] = g[t \ {Max(t)}] + Len(s[Max(t)])
        <3>1. Max(t) \in 1..n
            BY <1>1, <2>2, MaxIn
        <3>2. g[t \ {Max(t)}] \in Nat
            BY <2>1
        <3> QED BY <3>1, <3>2
    <2>3. \A t \in SUBSET DOMAIN s :
              g[t] = IF t = {} THEN 0 ELSE g[t \ {Max(t)}] + Len(s[Max(t)])
        BY <1>1, <2>1, <2>2 DEF IsFold
    <2>4. g = Fold(g)
        BY <1>1, <2>1, <2>3
    <2> QED BY <2>4
<1>4. iter = Fold(iter)
    BY <1>3
<1>5. Count(s) = iter[DOMAIN s]
    BY DEF Count, FoldLeft, MapThenFoldSet
<1> HIDE DEF iter
<1>6. f[0] = 0 /\ Count(s) = f[n]
    BY <1>1, <1>4, <1>5
<1>7. ASSUME NEW i \in 1..n
      PROVE  f[i] = f[i - 1] + Len(s[i])
    <2>1. i \in Nat \ {0} /\ 1..i \in SUBSET DOMAIN s /\ i - 1 \in 0..n
        BY <1>1
    <2>2. Max(1..i) = i /\ (1..i) \ {i} = 1..(i - 1) /\ 1..i # {}
        BY <2>1, FirstIndices
    <2>3. iter[1..i] = iter[1..(i - 1)] + Len(s[i])
        BY <1>4, <2>1, <2>2
    <2> QED BY <2>1, <2>3
<1>8. f \in [0..n -> Nat]
    <2> DEFINE S == {i \in 0..n : f[i] \in Nat}
    <2> HIDE DEF f
    <2>1. 0 \in S
        BY <1>1, <1>6
    <2>2. ASSUME NEW i \in 1..n, i - 1 \in S PROVE i \in S
        BY <1>1, <1>7, <2>2
    <2>3. 0..n \subseteq S
        <3> HIDE DEF S
        <3> QED BY <1>1, <2>1, <2>2, UpTo
    <2> QED BY <2>3 DEF f
<1> QED BY <1>6, <1>7, <1>8 DEF n

LEMMA BeforeIsCount == \A e, i : Before(e, i) = Count(SubSeq(e, 1, i - 1))
BY DEF Before, Count

LEMMA CountGrows ==
    ASSUME NEW T, NEW e \in Seq(Seq(T)), NEW i \in 1..Len(e)
    PROVE  Before(e, i + 1) = Before(e, i) + Len(e[i])
<1> DEFINE s == SubSeq(e, 1, i - 1)
           t == SubSeq(e, 1, i)
<1>1. /\ i \in Nat \ {0} /\ i <= Len(e) /\ i + 1 - 1 = i
      /\ \A k \in 1..Len(e) : e[k] \in Seq(T)
    BY LenProperties
<1>2. s \in Seq(Seq(T)) /\ Len(s) = i - 1 /\ \A k \in 1..(i - 1) : s[k] = e[k]
    <2>1. \A k \in 1..(i - 1) : e[k] \in Seq(T)
        BY <1>1, LenProperties
    <2> QED BY <1>1, <2>1, SubSeqProperties
<1>3. t \in Seq(Seq(T)) /\ Len(t) = i /\ \A k \in 1..i : t[k] = e[k]
    <2>1. \A k \in 1..i : e[k] \in Seq(T)
        BY <1>1, LenProperties
    <2> QED BY <1>1, <2>1, SubSeqProperties
<1>4. Before(e, i) = Count(s) /\ Before(e, i + 1) = Count(t)
    BY <1>1, BeforeIsCount
<1> HIDE DEF s, t
<1>5. PICK f \in [0..Len(s) -> Nat] :
          /\ f[0] = 0 /\ Count(s) = f[Len(s)]
          /\ \A k \in 1..Len(s) : f[k] = f[k - 1] + Len(s[k])
    BY <1>2, CountFold
<1>6. PICK g \in [0..Len(t) -> Nat] :
          /\ g[0] = 0 /\ Count(t) = g[Len(t)]
          /\ \A k \in 1..Len(t) : g[k] = g[k - 1] + Len(t[k])
    BY <1>3, CountFold
<1>7. g[i - 1] = f[i - 1]
    <2> DEFINE S == {k \in 0..(i - 1) : g[k] = f[k]}
    <2>1. 0 \in S
        BY <1>1, <1>5, <1>6
    <2>2. ASSUME NEW k \in 1..(i - 1), k - 1 \in S PROVE k \in S
        <3>1. k \in 1..i /\ g[k - 1] = f[k - 1] /\ t[k] = s[k]
            <4>1. k \in 1..i
                BY <1>1
            <4> QED BY <1>2, <1>3, <2>2, <4>1
        <3>2. f[k] = f[k - 1] + Len(s[k]) /\ g[k] = g[k - 1] + Len(t[k])
            BY <1>2, <1>3, <1>5, <1>6, <3>1
        <3> QED BY <3>1, <3>2
    <2>3. 0..(i - 1) \subseteq S
        <3>1. i - 1 \in Nat
            BY <1>1
        <3> HIDE DEF S
        <3> QED BY <2>1, <2>2, <3>1, UpTo
    <2> QED BY <1>1, <2>3
<1>8. g[i] = g[i - 1] + Len(e[i])
    BY <1>1, <1>3, <1>6
<1> QED BY <1>2, <1>3, <1>4, <1>5, <1>6, <1>7, <1>8

LEMMA CountFirst ==
    ASSUME NEW T, NEW e \in Seq(Seq(T))
    PROVE  Before(e, 1) = 0 /\ \A i \in 1..(Len(e) + 1) : Before(e, i) \in Nat
<1>1. Before(e, 1) = 0
    <2>1. SubSeq(e, 1, 1 - 1) = <<>> /\ <<>> \in Seq(Seq(T)) /\ Len(<<>>) = 0
        BY SubSeqEmpty
    <2>2. Before(e, 1) = Count(<<>>)
        BY <2>1, BeforeIsCount
    <2> QED BY <2>1, <2>2, CountFold
<1>2. ASSUME NEW i \in 1..(Len(e) + 1) PROVE Before(e, i) \in Nat
    <2>1. i - 1 \in Nat /\ \A k \in 1..(i - 1) : e[k] \in Seq(T)
        BY LenProperties
    <2> DEFINE s == SubSeq(e, 1, i - 1)
    <2>2. s \in Seq(Seq(T)) /\ Before(e, i) = Count(s)
        BY <2>1, SubSeqProperties, BeforeIsCount
    <2> HIDE DEF s
    <2>3. Len(s) \in Nat
        BY <2>2, LenProperties
    <2>4. PICK f \in [0..Len(s) -> Nat] : Count(s) = f[Len(s)]
        BY <2>2, CountFold
    <2> QED BY <2>2, <2>3, <2>4
<1> QED BY <1>1, <1>2

-----------------------------------------------------------------------------
(* Sequences one behind the other.                                         *)

LEMMA FlattenFold ==
    ASSUME NEW T, NEW s \in Seq(Seq(T))
    PROVE  \E f \in [0..Len(s) -> Seq(T)] :
               /\ f[0] = <<>> /\ FlattenSeq(s) = f[Len(s)]
               /\ \A i \in 1..Len(s) : f[i] = f[i - 1] \o s[i]
<1> DEFINE n == Len(s)
           Flat(g) == [i \in 1..n |-> IF i = 1 THEN s[i] ELSE g[i - 1] \o s[i]]
           step == [i \in 1..n |-> [v \in Seq(T) |-> v \o s[i]]]
           g == CHOOSE h : h = Flat(h)
           f == [i \in 0..n |-> IF i = 0 THEN <<>> ELSE g[i]]
<1>1. /\ n \in Nat /\ DOMAIN s = 1..n
      /\ \A i \in 1..n : s[i] \in Seq(T) /\ <<>> \o s[i] = s[i]
      /\ \A i \in 1..n, v \in Seq(T) : v \o s[i] \in Seq(T)
    <2>1. n \in Nat /\ DOMAIN s = 1..n /\ \A i \in 1..n : s[i] \in Seq(T)
        BY LenProperties
    <2> QED BY <2>1, ConcatProperties, ConcatEmptySeq
<1>2. step \in [1..n -> [Seq(T) -> Seq(T)]] /\ <<>> \in Seq(T)
    BY <1>1
<1>3. \E h : h = Flat(h)
    <2>1. PICK k \in [SUBSET (1..n) -> Seq(T)] : IsFold(n, <<>>, step, k)
        <3> HIDE DEF step, n
        <3> QED BY <1>1, <1>2, FoldExists
    <2> DEFINE h == [i \in 1..n |-> k[1..i]]
    <2>2. ASSUME NEW i \in 1..n
          PROVE  k[1..i] = IF i = 1 THEN s[i] ELSE k[1..(i - 1)] \o s[i]
        <3>1. i \in Nat \ {0} /\ 1..i \in SUBSET (1..n) /\ 1..(i - 1) \in SUBSET (1..n)
            BY <1>1
        <3>2. Max(1..i) = i /\ (1..i) \ {i} = 1..(i - 1) /\ 1..i # {}
            BY <3>1, FirstIndices
        <3>3. k[1..i] = step[i][k[1..(i - 1)]]
            <4> HIDE DEF step, n
            <4> QED BY <2>1, <3>1, <3>2 DEF IsFold
        <3>4. k[1..(i - 1)] \in Seq(T)
            BY <2>1, <3>1
        <3>5. k[1..i] = k[1..(i - 1)] \o s[i]
            BY <3>3, <3>4
        <3>6. ASSUME i = 1 PROVE k[1..(i - 1)] = <<>>
            <4>1. 1..(i - 1) = {}
                BY <3>6
            <4> QED BY <2>1, <3>1, <4>1 DEF IsFold
        <3> QED BY <1>1, <3>5, <3>6
    <2>3. \A i \in 1..n : i # 1 => i - 1 \in 1..n
        BY <1>1
    <2>4. h = Flat(h)
        <3> HIDE DEF n
        <3> QED BY <2>2, <2>3
    <2> QED BY <2>4
<1>4. g = Flat(g)
    BY <1>3
<1>5. ASSUME n # 0 PROVE FlattenSeq(s) = g[n]
    BY <1>5 DEF FlattenSeq
<1>6. ASSUME n = 0 PROVE FlattenSeq(s) = <<>>
    BY <1>6, EmptySeq DEF FlattenSeq
<1> HIDE DEF g, n
<1>7. f[0] = <<>> /\ FlattenSeq(s) = f[n]
    BY <1>1, <1>5, <1>6
<1>8. ASSUME NEW i \in 1..n
      PROVE  f[i] = f[i - 1] \o s[i]
    <2>1. i \in 0..n /\ i - 1 \in 0..n /\ i # 0 /\ (i = 1 <=> i - 1 = 0)
        BY <1>1
    <2>2. g[i] = IF i = 1 THEN s[i] ELSE g[i - 1] \o s[i]
        BY <1>4
    <2> QED BY <1>1, <2>1, <2>2
<1>9. f \in [0..n -> Seq(T)]
    <2> DEFINE S == {i \in 0..n : f[i] \in Seq(T)}
    <2> HIDE DEF f
    <2>1. 0 \in S
        <3>1. 0 \in 0..n /\ f[0] \in Seq(T)
            BY <1>1, <1>7, EmptySeq
        <3> QED BY <3>1
    <2>2. ASSUME NEW i \in 1..n, i - 1 \in S PROVE i \in S
        <3>1. f[i] = f[i - 1] \o s[i] /\ f[i - 1] \in Seq(T) /\ i \in 0..n
            BY <1>1, <1>8, <2>2
        <3> QED BY <1>1, <3>1
    <2>3. 0..n \subseteq S
        <3> HIDE DEF S
        <3> QED BY <1>1, <2>1, <2>2, UpTo
    <2> QED BY <2>3 DEF f
<1> QED BY <1>7, <1>8, <1>9 DEF n

-----------------------------------------------------------------------------
(* What the loops of the module have in hand.                              *)

Chunk == [words : Seq(Word), length : Int]
Filling == [parts : Seq(Chunk), current : Seq(Word)]
Adding == [chunks : Seq(Chunk), current : Chunk]
NoParts == [parts |-> <<>>, current |-> <<>>]
NoChunks == [chunks |-> <<>>, current |-> NoChunk]

LEMMA PhraseType == ASSUME NEW s \in Seq(Word) PROVE Phrase(s) \in Chunk
BY JoinedType DEF Phrase, Chunk

LEMMA FillType ==
    /\ NoParts \in Filling
    /\ \A acc \in Filling, w \in Word : Fill(acc, w) \in Filling
<1>1. NoParts \in Filling
    BY DEF NoParts, Filling
<1>2. ASSUME NEW acc \in Filling, NEW w \in Word PROVE Fill(acc, w) \in Filling
    <2>1. acc.parts \in Seq(Chunk) /\ acc.current \in Seq(Word)
        BY DEF Filling
    <2>2. Append(acc.parts, Phrase(acc.current)) \in Seq(Chunk)
        BY <2>1, PhraseType, AppendProperties
    <2>3. Append(acc.current, w) \in Seq(Word) /\ <<w>> \in Seq(Word)
        BY <2>1, AppendProperties
    <2> QED BY <2>1, <2>2, <2>3 DEF Fill, Filling
<1> QED BY <1>1, <1>2

\* The tail is the longest end of a chunk's words that fits the overlap.
LEMMA TailIs ==
    ASSUME NEW s \in Seq(Word)
    PROVE  \/ TailOf(s) = <<>>
           \/ \E i \in 1..Len(s) : /\ TailOf(s) = SubSeq(s, i, Len(s))
                                   /\ Joined(TailOf(s)) <= Overlap
<1> DEFINE fitting == {t \in Tails(s) : Overlap > 0 /\ Joined(t) <= Overlap}
           lengths == {Len(t) : t \in fitting}
<1>1. ASSUME fitting # {} PROVE TailOf(s) \in fitting
    <2>1. Len(s) \in Nat /\ \A i \in 1..Len(s) : s[i] \in Word
        BY LenProperties
    <2>2. ASSUME NEW t \in fitting PROVE Len(t) \in 0..Len(s)
        <3>1. PICK i \in 1..Len(s) : t = SubSeq(s, i, Len(s))
            BY DEF Tails
        <3>2. Len(t) = Len(s) - i + 1
            BY <2>1, <3>1, SubSeqProperties
        <3> QED BY <2>1, <3>2
    <2>3. lengths \subseteq 0..Len(s) /\ lengths # {}
        BY <1>1, <2>2
    <2>4. PICK m \in lengths : \A k \in lengths : k <= m
        <3> HIDE DEF lengths
        <3> QED BY <2>1, <2>3, Greatest
    <2>5. \E t \in fitting : \A u \in fitting : Len(u) <= Len(t)
        BY <2>4
    <2> QED BY <1>1, <2>5 DEF TailOf
<1>2. ASSUME fitting = {} PROVE TailOf(s) = <<>>
    BY <1>2 DEF TailOf
<1> QED BY <1>1, <1>2 DEF Tails

LEMMA TailType == ASSUME NEW s \in Seq(Word) PROVE TailOf(s) \in Seq(Word)
<1>1. ASSUME NEW i \in 1..Len(s) PROVE SubSeq(s, i, Len(s)) \in Seq(Word)
    <2>1. Len(s) \in Nat /\ \A k \in i..Len(s) : s[k] \in Word
        BY LenProperties
    <2> QED BY <2>1, SubSeqProperties
<1> QED BY <1>1, TailIs, EmptySeq

LEMMA TogetherType ==
    ASSUME NEW a \in Chunk, NEW b \in Chunk
    PROVE  Together(a, b) \in Chunk
<1>1. a.words \o b.words \in Seq(Word) /\ a.length + 2 + b.length \in Int
    BY ConcatProperties DEF Chunk
<1> QED BY <1>1 DEF Together, Chunk

LEMMA AddPartType ==
    /\ NoChunks \in Adding
    /\ \A acc \in Adding, part \in Chunk : AddPart(acc, part) \in Adding
<1>1. NoChunks \in Adding
    BY DEF NoChunks, NoChunk, Adding, Chunk
<1>2. ASSUME NEW acc \in Adding, NEW part \in Chunk PROVE AddPart(acc, part) \in Adding
    <2>1. acc.chunks \in Seq(Chunk) /\ acc.current \in Chunk /\ acc.current.words \in Seq(Word)
        BY DEF Adding, Chunk
    <2>2. Append(acc.chunks, acc.current) \in Seq(Chunk)
        BY <2>1, AppendProperties
    <2>3. /\ Together(acc.current, part) \in Chunk
          /\ Together(Phrase(TailOf(acc.current.words)), part) \in Chunk
        BY <2>1, TogetherType, PhraseType, TailType
    <2> QED BY <2>1, <2>2, <2>3 DEF AddPart, Adding
<1> QED BY <1>1, <1>2

LEMMA FillFold ==
    ASSUME NEW s \in Seq(Word)
    PROVE  \E f \in [0..Len(s) -> Filling] :
               /\ f[0] = NoParts /\ FoldLeft(Fill, NoParts, s) = f[Len(s)]
               /\ \A i \in 1..Len(s) : f[i] = Fill(f[i - 1], s[i])
<1> DEFINE n == Len(s)
           Fold(g) == [t \in SUBSET DOMAIN s |->
                          IF t = {} THEN NoParts ELSE Fill(g[t \ {Max(t)}], s[Max(t)])]
           step == [i \in 1..n |-> [v \in Filling |-> Fill(v, s[i])]]
           iter == CHOOSE g : g = Fold(g)
           f == [i \in 0..n |-> iter[1..i]]
<1>1. n \in Nat /\ DOMAIN s = 1..n /\ \A i \in 1..n : s[i] \in Word
    BY LenProperties
<1>2. step \in [1..n -> [Filling -> Filling]] /\ NoParts \in Filling
    BY <1>1, FillType
<1> HIDE DEF n
<1>3. \E g : g = Fold(g)
    <2>1. PICK g \in [SUBSET (1..n) -> Filling] : IsFold(n, NoParts, step, g)
        <3> HIDE DEF step
        <3> QED BY <1>1, <1>2, FoldExists
    <2>2. ASSUME NEW t \in SUBSET (1..n), t # {}
          PROVE  step[Max(t)][g[t \ {Max(t)}]] = Fill(g[t \ {Max(t)}], s[Max(t)])
        <3>1. Max(t) \in 1..n
            BY <1>1, <2>2, MaxIn
        <3>2. g[t \ {Max(t)}] \in Filling
            BY <2>1
        <3> QED BY <3>1, <3>2
    <2>3. \A t \in SUBSET DOMAIN s :
              g[t] = IF t = {} THEN NoParts ELSE Fill(g[t \ {Max(t)}], s[Max(t)])
        BY <1>1, <2>1, <2>2 DEF IsFold
    <2>4. g = Fold(g)
        BY <1>1, <2>1, <2>3
    <2> QED BY <2>4
<1>4. iter = Fold(iter)
    BY <1>3
<1>5. FoldLeft(Fill, NoParts, s) = iter[DOMAIN s]
    BY DEF FoldLeft, MapThenFoldSet
<1> HIDE DEF iter
<1>6. f[0] = NoParts /\ FoldLeft(Fill, NoParts, s) = f[n]
    BY <1>1, <1>4, <1>5
<1>7. ASSUME NEW i \in 1..n
      PROVE  f[i] = Fill(f[i - 1], s[i])
    <2>1. i \in Nat \ {0} /\ 1..i \in SUBSET DOMAIN s /\ i - 1 \in 0..n
        BY <1>1
    <2>2. Max(1..i) = i /\ (1..i) \ {i} = 1..(i - 1) /\ 1..i # {}
        BY <2>1, FirstIndices
    <2>3. iter[1..i] = Fill(iter[1..(i - 1)], s[i])
        BY <1>4, <2>1, <2>2
    <2> QED BY <2>1, <2>3
<1>8. f \in [0..n -> Filling]
    <2> DEFINE S == {i \in 0..n : f[i] \in Filling}
    <2> HIDE DEF f
    <2>1. 0 \in S
        BY <1>1, <1>2, <1>6
    <2>2. ASSUME NEW i \in 1..n, i - 1 \in S PROVE i \in S
        BY <1>1, <1>7, <2>2, FillType
    <2>3. 0..n \subseteq S
        <3> HIDE DEF S
        <3> QED BY <1>1, <2>1, <2>2, UpTo
    <2> QED BY <2>3 DEF f
<1> QED BY <1>6, <1>7, <1>8 DEF n

LEMMA AddPartFold ==
    ASSUME NEW s \in Seq(Chunk)
    PROVE  \E f \in [0..Len(s) -> Adding] :
               /\ f[0] = NoChunks /\ FoldLeft(AddPart, NoChunks, s) = f[Len(s)]
               /\ \A i \in 1..Len(s) : f[i] = AddPart(f[i - 1], s[i])
<1> DEFINE n == Len(s)
           Fold(g) == [t \in SUBSET DOMAIN s |->
                          IF t = {} THEN NoChunks ELSE AddPart(g[t \ {Max(t)}], s[Max(t)])]
           step == [i \in 1..n |-> [v \in Adding |-> AddPart(v, s[i])]]
           iter == CHOOSE g : g = Fold(g)
           f == [i \in 0..n |-> iter[1..i]]
<1>1. n \in Nat /\ DOMAIN s = 1..n /\ \A i \in 1..n : s[i] \in Chunk
    BY LenProperties
<1>2. step \in [1..n -> [Adding -> Adding]] /\ NoChunks \in Adding
    BY <1>1, AddPartType
<1> HIDE DEF n
<1>3. \E g : g = Fold(g)
    <2>1. PICK g \in [SUBSET (1..n) -> Adding] : IsFold(n, NoChunks, step, g)
        <3> HIDE DEF step
        <3> QED BY <1>1, <1>2, FoldExists
    <2>2. ASSUME NEW t \in SUBSET (1..n), t # {}
          PROVE  step[Max(t)][g[t \ {Max(t)}]] = AddPart(g[t \ {Max(t)}], s[Max(t)])
        <3>1. Max(t) \in 1..n
            BY <1>1, <2>2, MaxIn
        <3>2. g[t \ {Max(t)}] \in Adding
            BY <2>1
        <3> QED BY <3>1, <3>2
    <2>3. \A t \in SUBSET DOMAIN s :
              g[t] = IF t = {} THEN NoChunks ELSE AddPart(g[t \ {Max(t)}], s[Max(t)])
        BY <1>1, <2>1, <2>2 DEF IsFold
    <2>4. g = Fold(g)
        BY <1>1, <2>1, <2>3
    <2> QED BY <2>4
<1>4. iter = Fold(iter)
    BY <1>3
<1>5. FoldLeft(AddPart, NoChunks, s) = iter[DOMAIN s]
    BY DEF FoldLeft, MapThenFoldSet
<1> HIDE DEF iter
<1>6. f[0] = NoChunks /\ FoldLeft(AddPart, NoChunks, s) = f[n]
    BY <1>1, <1>4, <1>5
<1>7. ASSUME NEW i \in 1..n
      PROVE  f[i] = AddPart(f[i - 1], s[i])
    <2>1. i \in Nat \ {0} /\ 1..i \in SUBSET DOMAIN s /\ i - 1 \in 0..n
        BY <1>1
    <2>2. Max(1..i) = i /\ (1..i) \ {i} = 1..(i - 1) /\ 1..i # {}
        BY <2>1, FirstIndices
    <2>3. iter[1..i] = AddPart(iter[1..(i - 1)], s[i])
        BY <1>4, <2>1, <2>2
    <2> QED BY <2>1, <2>3
<1>8. f \in [0..n -> Adding]
    <2> DEFINE S == {i \in 0..n : f[i] \in Adding}
    <2> HIDE DEF f
    <2>1. 0 \in S
        BY <1>1, <1>2, <1>6
    <2>2. ASSUME NEW i \in 1..n, i - 1 \in S PROVE i \in S
        BY <1>1, <1>7, <2>2, AddPartType
    <2>3. 0..n \subseteq S
        <3> HIDE DEF S
        <3> QED BY <1>1, <2>1, <2>2, UpTo
    <2> QED BY <2>3 DEF f
<1> QED BY <1>6, <1>7, <1>8 DEF n

-----------------------------------------------------------------------------
(* Runs of words.  W is an element's words, each numbered by its place.      *)

InOrder(W) == W \in Seq(Word) /\ \A x \in 1..Len(W) : W[x].at = x
Short(W) == \A x \in 1..Len(W) : W[x].length <= Target

From(c) == c.words[1].at
To(c) == c.words[Len(c.words)].at
IsRun(W, c) ==
    \E i, j \in 1..Len(W) : i <= j /\ c.words = SubSeq(W, i, j)

\* A sequence of runs, one right behind the other, from word a to word b.
IsPart(W, c) == IsRun(W, c) /\ (Short(W) => c.length <= Target)
Covers(W, parts, a, b) ==
    /\ parts \in Seq(Chunk) /\ \A m \in 1..Len(parts) : IsPart(W, parts[m])
    /\ IF parts = <<>> THEN b = a - 1
                       ELSE From(parts[1]) = a /\ To(parts[Len(parts)]) = b
    /\ \A m \in 1..(Len(parts) - 1) : From(parts[m + 1]) = To(parts[m]) + 1

LEMMA SubSeqIs ==
    ASSUME NEW W, InOrder(W), NEW i \in 1..Len(W), NEW j \in 1..Len(W), i <= j
    PROVE  /\ SubSeq(W, i, j) \in Seq(Word) /\ SubSeq(W, i, j) # <<>>
           /\ Len(SubSeq(W, i, j)) = j - i + 1
           /\ \A k \in 1..(j - i + 1) : SubSeq(W, i, j)[k] = W[i + k - 1]
           /\ SubSeq(W, i, j)[1].at = i
           /\ SubSeq(W, i, j)[Len(SubSeq(W, i, j))].at = j
<1> DEFINE s == SubSeq(W, i, j)
<1>1. Len(W) \in Nat /\ \A x \in 1..Len(W) : W[x] \in Word /\ W[x].at = x
    BY LenProperties DEF InOrder
<1>2. i \in Int /\ j \in Int /\ \A x \in i..j : W[x] \in Word
    BY <1>1
<1>3. /\ s \in Seq(Word) /\ Len(s) = j - i + 1
      /\ \A k \in 1..(j - i + 1) : s[k] = W[i + k - 1]
    BY <1>2, SubSeqProperties
<1> HIDE DEF s
<1>4. 1 \in 1..(j - i + 1) /\ j - i + 1 \in 1..(j - i + 1)
    BY <1>1
<1>5. s[1] = W[i] /\ s[Len(s)] = W[j]
    BY <1>1, <1>3, <1>4
<1>6. s # <<>>
    BY <1>3, <1>4
<1> QED BY <1>1, <1>3, <1>5, <1>6 DEF s

LEMMA RunIs ==
    ASSUME NEW W, InOrder(W), NEW c \in Chunk, IsRun(W, c)
    PROVE  /\ From(c) \in 1..Len(W) /\ To(c) \in 1..Len(W) /\ From(c) <= To(c)
           /\ c.words = SubSeq(W, From(c), To(c)) /\ c.words # <<>>
<1>1. PICK i \in 1..Len(W), j \in 1..Len(W) : i <= j /\ c.words = SubSeq(W, i, j)
    BY DEF IsRun
<1>2. From(c) = i /\ To(c) = j /\ c.words # <<>>
    <2> DEFINE s == SubSeq(W, i, j)
    <2>1. s # <<>> /\ s[1].at = i /\ s[Len(s)].at = j
        <3>1. i <= j
            BY <1>1
        <3> QED BY <3>1, SubSeqIs
    <2>2. c.words = s
        BY <1>1
    <2> HIDE DEF s
    <2> QED BY <2>1, <2>2 DEF From, To
<1> QED BY <1>1, <1>2

\* A run with the next word behind it.
LEMMA SubSeqGrows ==
    ASSUME NEW W, InOrder(W), NEW d \in 1..Len(W), NEW c \in 1..d
    PROVE  Append(SubSeq(W, c, d - 1), W[d]) = SubSeq(W, c, d)
<1>1. W \in Seq(Word) /\ Len(W) \in Nat /\ W[d] \in Word
    BY LenProperties DEF InOrder
<1>2. c \in 1..Len(W) /\ d \in c..Len(W)
    BY <1>1
<1>3. SubSeq(W, c, d) = SubSeq(W, c, d - 1) \o <<W[d]>>
    BY <1>1, <1>2, SubSeqRecursiveSecond
<1>4. SubSeq(W, c, d - 1) \in Seq(Word)
    <2>1. \A x \in c..(d - 1) : W[x] \in Word
        BY <1>1, <1>2, LenProperties
    <2> QED BY <1>1, <1>2, <2>1, SubSeqProperties
<1> QED BY <1>1, <1>3, <1>4, AppendIsConcat

LEMMA PhraseIsPart ==
    ASSUME NEW W, InOrder(W), NEW i \in 1..Len(W), NEW j \in 1..Len(W), i <= j,
           Short(W) => Joined(SubSeq(W, i, j)) <= Target
    PROVE  /\ Phrase(SubSeq(W, i, j)) \in Chunk /\ IsPart(W, Phrase(SubSeq(W, i, j)))
           /\ From(Phrase(SubSeq(W, i, j))) = i /\ To(Phrase(SubSeq(W, i, j))) = j
<1> DEFINE s == SubSeq(W, i, j)
<1>1. s \in Seq(Word) /\ s # <<>> /\ s[1].at = i /\ s[Len(s)].at = j
    BY SubSeqIs
<1>2. Phrase(s).words = s /\ Phrase(s).length = Joined(s)
    BY <1>1 DEF Phrase
<1>3. Phrase(s) \in Chunk
    BY <1>1, PhraseType
<1>4. IsRun(W, Phrase(s))
    BY <1>2 DEF IsRun
<1> HIDE DEF s
<1>5. From(Phrase(s)) = i /\ To(Phrase(s)) = j
    BY <1>1, <1>2 DEF From, To
<1> QED BY <1>2, <1>3, <1>4, <1>5 DEF IsPart, s

LEMMA CoversAppend ==
    ASSUME NEW W, NEW parts, NEW a \in Int, NEW b \in Int, Covers(W, parts, a, b),
           NEW c \in Chunk, IsPart(W, c), From(c) = b + 1
    PROVE  Covers(W, Append(parts, c), a, To(c))
<1> DEFINE new == Append(parts, c)
           n == Len(parts)
<1>1. /\ parts \in Seq(Chunk) /\ n \in Nat /\ \A m \in 1..n : IsPart(W, parts[m])
      /\ IF parts = <<>> THEN b = a - 1 ELSE From(parts[1]) = a /\ To(parts[n]) = b
      /\ \A m \in 1..(n - 1) : From(parts[m + 1]) = To(parts[m]) + 1
    BY LenProperties DEF Covers
<1>2. /\ new \in Seq(Chunk) /\ Len(new) = n + 1 /\ new[n + 1] = c
      /\ \A m \in 1..n : new[m] = parts[m]
    BY <1>1, AppendProperties
<1>3. parts = <<>> <=> n = 0
    BY <1>1, EmptySeq
<1> HIDE DEF new, n
<1>4. new # <<>> /\ \A m \in 1..(n + 1) : IsPart(W, new[m])
    <2>1. \A m \in 1..(n + 1) : m \in 1..n \/ m = n + 1
        BY <1>1
    <2> QED BY <1>1, <1>2, <2>1
<1>5. From(new[1]) = a
    BY <1>1, <1>2, <1>3
<1>6. ASSUME NEW m \in 1..n PROVE From(new[m + 1]) = To(new[m]) + 1
    <2>1. CASE m = n
        BY <1>1, <1>2, <1>3, <2>1
    <2>2. CASE m # n
        <3>1. m \in 1..(n - 1) /\ m + 1 \in 1..n
            BY <1>1, <2>2
        <3> QED BY <1>1, <1>2, <3>1
    <2> QED BY <2>1, <2>2
<1>7. Len(new) - 1 = n /\ new[Len(new)] = c
    BY <1>1, <1>2
<1>8. Covers(W, new, a, To(c))
    BY <1>2, <1>4, <1>5, <1>6, <1>7 DEF Covers
<1> QED BY <1>8 DEF new

LEMMA CoversConcat ==
    ASSUME NEW W, NEW ps, NEW qs, NEW a \in Int, NEW b \in Int, NEW d \in Int,
           Covers(W, ps, a, b), Covers(W, qs, b + 1, d)
    PROVE  Covers(W, ps \o qs, a, d)
<1> DEFINE new == ps \o qs
           m == Len(ps)
           n == Len(qs)
<1>1. /\ ps \in Seq(Chunk) /\ m \in Nat /\ \A k \in 1..m : IsPart(W, ps[k])
      /\ IF m = 0 THEN b = a - 1 ELSE From(ps[1]) = a /\ To(ps[m]) = b
      /\ \A k \in 1..(m - 1) : From(ps[k + 1]) = To(ps[k]) + 1
    BY LenProperties, EmptySeq DEF Covers
<1>2. /\ qs \in Seq(Chunk) /\ n \in Nat /\ \A k \in 1..n : IsPart(W, qs[k])
      /\ IF n = 0 THEN d = b + 1 - 1 ELSE From(qs[1]) = b + 1 /\ To(qs[n]) = d
      /\ \A k \in 1..(n - 1) : From(qs[k + 1]) = To(qs[k]) + 1
    BY LenProperties, EmptySeq DEF Covers
<1>3. /\ new \in Seq(Chunk) /\ Len(new) = m + n
      /\ \A k \in 1..(m + n) : new[k] = IF k <= m THEN ps[k] ELSE qs[k - m]
    BY <1>1, <1>2, ConcatProperties
<1>4. new = <<>> <=> m + n = 0
    BY <1>1, <1>2, <1>3, EmptySeq
<1> HIDE DEF new, m, n
<1>5. ASSUME NEW k \in 1..(m + n) PROVE IsPart(W, new[k])
    <2>1. CASE k <= m
        <3>1. k \in 1..m /\ new[k] = ps[k]
            BY <1>1, <1>3, <2>1
        <3> QED BY <1>1, <3>1
    <2>2. CASE ~(k <= m)
        <3>1. k - m \in 1..n
            BY <1>1, <1>2, <2>2
        <3>2. new[k] = qs[k - m]
            BY <1>3, <2>2
        <3> QED BY <1>2, <3>1, <3>2
    <2> QED BY <2>1, <2>2
<1>6. IF m + n = 0 THEN d = a - 1 ELSE From(new[1]) = a /\ To(new[m + n]) = d
    <2>1. CASE m = 0 /\ n = 0
        BY <1>1, <1>2, <2>1
    <2>2. CASE m = 0 /\ n # 0
        <3>1. new[1] = qs[1] /\ new[m + n] = qs[n]
            BY <1>2, <1>3, <2>2
        <3> QED BY <1>1, <1>2, <2>2, <3>1
    <2>3. CASE m # 0 /\ n = 0
        <3>1. new[1] = ps[1] /\ new[m + n] = ps[m]
            BY <1>1, <1>3, <2>3
        <3> QED BY <1>1, <1>2, <2>3, <3>1
    <2>4. CASE m # 0 /\ n # 0
        <3>1. new[1] = ps[1] /\ new[m + n] = qs[n]
            BY <1>1, <1>2, <1>3, <2>4
        <3> QED BY <1>1, <1>2, <2>4, <3>1
    <2> QED BY <2>1, <2>2, <2>3, <2>4
<1>7. ASSUME NEW k \in 1..(m + n - 1) PROVE From(new[k + 1]) = To(new[k]) + 1
    <2>1. CASE k < m
        <3>1. k \in 1..(m - 1) /\ new[k + 1] = ps[k + 1] /\ new[k] = ps[k]
            BY <1>1, <1>2, <1>3, <2>1
        <3> QED BY <1>1, <3>1
    <2>2. CASE k = m
        <3>1. m # 0 /\ n # 0 /\ new[k + 1] = qs[1] /\ new[k] = ps[m]
            BY <1>1, <1>2, <1>3, <2>2
        <3> QED BY <1>1, <1>2, <3>1
    <2>3. CASE k > m
        <3>1. /\ k - m \in 1..(n - 1) /\ k - m + 1 = k + 1 - m
              /\ k + 1 \in 1..(m + n) /\ k \in 1..(m + n) /\ ~(k + 1 <= m) /\ ~(k <= m)
            BY <1>1, <1>2, <2>3
        <3>2. new[k] = qs[k - m]
            BY <1>3, <3>1
        <3>3. new[k + 1] = qs[k + 1 - m]
            <4>1. ASSUME NEW x, x = k + 1 PROVE new[x] = qs[x - m]
                <5>1. x \in 1..(m + n) /\ ~(x <= m)
                    BY <3>1, <4>1
                <5> QED BY <1>3, <5>1
            <4>2. k \in Int /\ m \in Int /\ n \in Int
                BY <1>1, <1>2
            <4> QED BY <4>1, <4>2
        <3>4. From(qs[k - m + 1]) = To(qs[k - m]) + 1
            BY <1>2, <3>1
        <3>5. qs[k + 1 - m] = qs[k - m + 1]
            BY <3>1
        <3> QED BY <3>2, <3>3, <3>4, <3>5
    <2>4. k < m \/ k = m \/ k > m
        BY <1>1, <1>2
    <2> QED BY <2>1, <2>2, <2>3, <2>4
<1>8. /\ new \in Seq(Chunk) /\ \A k \in 1..Len(new) : IsPart(W, new[k])
      /\ \A k \in 1..(Len(new) - 1) : From(new[k + 1]) = To(new[k]) + 1
    <2>1. 1..Len(new) = 1..(m + n) /\ 1..(Len(new) - 1) = 1..(m + n - 1)
        BY <1>1, <1>2, <1>3
    <2> QED BY <1>3, <1>5, <1>7, <2>1
<1>9. IF new = <<>> THEN d = a - 1 ELSE From(new[1]) = a /\ To(new[Len(new)]) = d
    BY <1>3, <1>4, <1>6
<1>10. Covers(W, new, a, d)
    BY <1>8, <1>9 DEF Covers
<1> QED BY <1>10 DEF new

-----------------------------------------------------------------------------
(* How a paragraph is split: parts cover the words before the current ones,  *)
(* which are those up to the last word taken.                              *)

FillsTo(W, a, i, acc) ==
    \E c \in a..(a + i) :
        /\ i > 0 => c < a + i
        /\ Covers(W, acc.parts, a, c - 1)
        /\ acc.current = SubSeq(W, c, a + i - 1)
        /\ Short(W) => Joined(acc.current) <= Target

LEMMA FillStep ==
    ASSUME NEW W, InOrder(W), NEW a \in 1..Len(W), NEW i \in Nat, a + i \in 1..Len(W),
           NEW acc \in Filling, FillsTo(W, a, i, acc)
    PROVE  FillsTo(W, a, i + 1, Fill(acc, W[a + i]))
<1> DEFINE d == a + i
           w == W[d]
           new == Fill(acc, w)
<1>1. PICK c \in a..(a + i) :
          /\ i > 0 => c < d
          /\ Covers(W, acc.parts, a, c - 1)
          /\ acc.current = SubSeq(W, c, d - 1)
          /\ Short(W) => Joined(acc.current) <= Target
    BY DEF FillsTo
<1>2. /\ a \in Nat \ {0} /\ d \in Nat \ {0} /\ Len(W) \in Nat /\ c \in 1..d
      /\ w \in Word /\ (Short(W) => w.length <= Target)
      /\ a + (i + 1) - 1 = d /\ a + (i + 1) = d + 1
    BY LenProperties DEF InOrder, Short
<1>3. acc.parts \in Seq(Chunk) /\ acc.current \in Seq(Word)
    BY DEF Filling
<1> HIDE DEF d, w, new
<1>4. CASE acc.current # <<>> /\ Joined(Append(acc.current, w)) > Target
    <2>1. c < d
        <3>1. CASE c = d
            BY <1>1, <1>2, <1>4, <3>1, SubSeqEmpty
        <3> QED BY <1>2, <3>1
    <2>2. /\ d - 1 \in 1..Len(W) /\ c \in 1..Len(W) /\ c <= d - 1 /\ d \in 1..Len(W)
        BY <1>2, <2>1 DEF d
    <2>3. /\ Phrase(acc.current) \in Chunk /\ IsPart(W, Phrase(acc.current))
          /\ From(Phrase(acc.current)) = c /\ To(Phrase(acc.current)) = d - 1
        BY <1>1, <2>2, PhraseIsPart
    <2>4. Covers(W, Append(acc.parts, Phrase(acc.current)), a, d - 1)
        <3>1. c - 1 + 1 = c /\ c - 1 \in Int
            BY <1>2
        <3> QED BY <1>1, <1>2, <2>3, <3>1, CoversAppend
    <2>5. new = [parts |-> Append(acc.parts, Phrase(acc.current)), current |-> <<w>>]
        BY <1>4 DEF new, Fill
    <2>6. <<w>> = SubSeq(W, d, d)
        <3>1. SubSeq(W, d, d - 1) = <<>>
            BY <1>2, SubSeqEmpty
        <3>2. Append(SubSeq(W, d, d - 1), w) = SubSeq(W, d, d)
            <4>1. d \in 1..d /\ d \in 1..Len(W)
                BY <1>2, <2>2
            <4>2. Append(SubSeq(W, d, d - 1), W[d]) = SubSeq(W, d, d)
                BY <4>1, SubSeqGrows
            <4> QED BY <4>2 DEF w, d
        <3>3. Append(<<>>, w) = <<w>>
            OBVIOUS
        <3> QED BY <3>1, <3>2, <3>3
    <2>7. Short(W) => Joined(<<w>>) <= Target
        BY <1>2, JoinedFew
    <2>8. d \in a..(d + 1) /\ d < d + 1
        BY <1>2 DEF d
    <2> QED BY <1>2, <2>4, <2>5, <2>6, <2>7, <2>8 DEF FillsTo, new, w, d
<1>5. CASE ~(acc.current # <<>> /\ Joined(Append(acc.current, w)) > Target)
    <2>1. new.parts = acc.parts /\ new.current = Append(acc.current, w)
        BY <1>3, <1>5 DEF new, Fill, Filling
    <2>2. new.current = SubSeq(W, c, d)
        <3>1. d \in 1..Len(W)
            BY DEF d
        <3> QED BY <1>1, <1>2, <2>1, <3>1, SubSeqGrows DEF w
    <2>3. Short(W) => Joined(new.current) <= Target
        <3>1. CASE acc.current = <<>>
            <4>1. Append(acc.current, w) = <<w>>
                BY <3>1
            <4> QED BY <1>2, <2>1, <4>1, JoinedFew
        <3>2. CASE acc.current # <<>>
            <4>1. Append(acc.current, w) \in Seq(Word)
                BY <1>2, <1>3, AppendProperties
            <4>2. Joined(Append(acc.current, w)) \in Int
                BY <4>1, JoinedType
            <4>3. Target \in Int
                BY ChunkingAssumption DEF ChunkingAssumption
            <4> QED BY <1>5, <2>1, <3>2, <4>2, <4>3
        <3> QED BY <3>1, <3>2
    <2>4. c \in a..(d + 1) /\ c < d + 1
        BY <1>2 DEF d
    <2> QED BY <1>1, <1>2, <2>1, <2>2, <2>3, <2>4 DEF FillsTo, new, w, d
<1> QED BY <1>4, <1>5

\* A paragraph's parts cover it.
LEMMA SplitCovers ==
    ASSUME NEW W, InOrder(W), NEW a \in 1..Len(W), NEW b \in 1..Len(W), a <= b
    PROVE  Covers(W, SplitOversized(SubSeq(W, a, b)), a, b)
<1> DEFINE p == SubSeq(W, a, b)
           n == Len(p)
<1>1. /\ p \in Seq(Word) /\ n = b - a + 1 /\ \A k \in 1..n : p[k] = W[a + k - 1]
      /\ Len(W) \in Nat /\ a \in Nat \ {0} /\ b \in Nat /\ n \in Nat \ {0}
    BY SubSeqIs, LenProperties DEF InOrder
<1> HIDE DEF p, n
<1>2. PICK f \in [0..n -> Filling] :
          /\ f[0] = NoParts /\ FoldLeft(Fill, NoParts, p) = f[n]
          /\ \A k \in 1..n : f[k] = Fill(f[k - 1], p[k])
    BY <1>1, FillFold DEF n
<1> DEFINE S == {i \in 0..n : FillsTo(W, a, i, f[i])}
<1>3. 0 \in S
    <2>1. SubSeq(W, a, a - 1) = <<>> /\ a + 0 - 1 = a - 1 /\ a \in a..(a + 0)
        BY <1>1, SubSeqEmpty
    <2>2. Covers(W, <<>>, a, a - 1)
        BY <1>1, EmptySeq DEF Covers
    <2>3. Joined(<<>>) <= Target
        BY JoinedFew, ChunkingAssumption DEF ChunkingAssumption
    <2>4. FillsTo(W, a, 0, NoParts)
        BY <2>1, <2>2, <2>3 DEF FillsTo, NoParts
    <2> QED BY <1>1, <1>2, <2>4
<1>4. ASSUME NEW i \in 1..n, i - 1 \in S PROVE i \in S
    <2>1. /\ i - 1 \in Nat /\ a + (i - 1) \in 1..Len(W) /\ i - 1 + 1 = i
          /\ i - 1 \in 0..n /\ a + i - 1 = a + (i - 1)
        BY <1>1
    <2>2. f[i - 1] \in Filling /\ f[i] = Fill(f[i - 1], W[a + (i - 1)])
        BY <1>1, <1>2, <2>1
    <2>3. FillsTo(W, a, i - 1 + 1, Fill(f[i - 1], W[a + (i - 1)]))
        BY <1>4, <2>1, <2>2, FillStep
    <2> QED BY <2>1, <2>2, <2>3
<1>5. FillsTo(W, a, n, f[n])
    <2>1. 0..n \subseteq S
        <3> HIDE DEF S
        <3> QED BY <1>1, <1>3, <1>4, UpTo
    <2> QED BY <1>1, <2>1
<1> DEFINE acc == f[n]
<1>6. PICK c \in a..(a + n) :
          /\ n > 0 => c < a + n
          /\ Covers(W, acc.parts, a, c - 1)
          /\ acc.current = SubSeq(W, c, a + n - 1)
          /\ Short(W) => Joined(acc.current) <= Target
    BY <1>5 DEF FillsTo
<1>7. a + n - 1 = b /\ c \in 1..Len(W) /\ c <= b /\ c - 1 \in Int /\ c - 1 + 1 = c
    BY <1>1, <1>6
<1>8. SplitOversized(p) = Append(acc.parts, Phrase(acc.current))
    BY <1>2 DEF SplitOversized, NoParts
<1>9. /\ Phrase(acc.current) \in Chunk /\ IsPart(W, Phrase(acc.current))
      /\ From(Phrase(acc.current)) = c /\ To(Phrase(acc.current)) = b
    BY <1>6, <1>7, PhraseIsPart
<1> HIDE DEF acc
<1>10. Covers(W, SplitOversized(p), a, b)
    BY <1>1, <1>6, <1>7, <1>8, <1>9, CoversAppend
<1> QED BY <1>10 DEF p

-----------------------------------------------------------------------------
(* The words of an element are numbered in order, and a paragraph is a run   *)
(* of them.                                                                *)

Lines == Seq(Seq(Nat))

LEMMA NumberedIs ==
    ASSUME NEW e \in Lines
    PROVE  /\ Numbered(e) \in Seq(Seq(Word)) /\ Len(Numbered(e)) = Len(e)
           /\ \A i \in 1..Len(e) :
                /\ Len(Numbered(e)[i]) = Len(e[i])
                /\ \A j \in 1..Len(e[i]) : Numbered(e)[i][j].at = Before(e, i) + j
<1>1. /\ Len(e) \in Nat /\ DOMAIN e = 1..Len(e)
      /\ \A i \in 1..Len(e) : e[i] \in Seq(Nat) /\ Before(e, i) \in Nat
    <2>1. Len(e) \in Nat /\ DOMAIN e = 1..Len(e) /\ \A i \in 1..Len(e) : e[i] \in Seq(Nat)
        BY LenProperties DEF Lines
    <2>2. \A i \in 1..(Len(e) + 1) : Before(e, i) \in Nat
        BY CountFirst DEF Lines
    <2>3. \A i \in 1..Len(e) : i \in 1..(Len(e) + 1)
        BY <2>1
    <2> QED BY <2>1, <2>2, <2>3
<1>2. ASSUME NEW i \in 1..Len(e)
      PROVE  LET p == Numbered(e)[i]
             IN p \in Seq(Word) /\ Len(p) = Len(e[i])
                /\ \A j \in 1..Len(e[i]) : p[j].at = Before(e, i) + j
    <2> DEFINE p == [j \in 1..Len(e[i]) |-> [at |-> Before(e, i) + j, length |-> e[i][j]]]
    <2>1. /\ DOMAIN e[i] = 1..Len(e[i]) /\ Len(e[i]) \in Nat
          /\ \A j \in 1..Len(e[i]) : e[i][j] \in Nat
        BY <1>1, LenProperties
    <2>2. Numbered(e)[i] = p
        BY <1>1, <2>1 DEF Numbered
    <2>3. \A j \in 1..Len(e[i]) : p[j] \in Word /\ p[j].at = Before(e, i) + j
        BY <1>1, <2>1 DEF Word
    <2> HIDE DEF p
    <2>4. p \in Seq(Word) /\ Len(p) = Len(e[i])
        <3>1. p = [j \in 1..Len(e[i]) |-> p[j]] /\ DOMAIN p = 1..Len(e[i])
            BY DEF p
        <3>2. p \in Seq(Word)
            BY <2>1, <2>3, <3>1, SeqDef
        <3> QED BY <2>1, <3>1, <3>2, LenProperties
    <2> QED BY <2>2, <2>3, <2>4
<1>3. DOMAIN Numbered(e) = 1..Len(e) /\ Numbered(e) = [i \in 1..Len(e) |-> Numbered(e)[i]]
    BY <1>1 DEF Numbered
<1>4. Numbered(e) \in Seq(Seq(Word)) /\ Len(Numbered(e)) = Len(e)
    <2> DEFINE P(i) == Numbered(e)[i]
    <2> HIDE DEF P
    <2>1. \A i \in 1..Len(e) : P(i) \in Seq(Word)
        BY <1>2 DEF P
    <2>2. [i \in 1..Len(e) |-> P(i)] \in Seq(Seq(Word))
        BY <1>1, <2>1, IsASeq
    <2>3. Len([i \in 1..Len(e) |-> P(i)]) = Len(e)
        BY <1>1, <2>2, LenProperties
    <2> QED BY <1>3, <2>2, <2>3 DEF P
<1> QED BY <1>2, <1>4

\* What was written first stays where it is.
Starts(s, t) == Len(s) <= Len(t) /\ \A x \in 1..Len(s) : t[x] = s[x]

LEMMA StartsConcat ==
    ASSUME NEW T, NEW s \in Seq(T), NEW t \in Seq(T)
    PROVE  Starts(s, s \o t)
<1>1. Len(s) \in Nat /\ Len(t) \in Nat
    BY LenProperties
<1>2. /\ Len(s \o t) = Len(s) + Len(t)
      /\ \A x \in 1..(Len(s) + Len(t)) :
            (s \o t)[x] = IF x <= Len(s) THEN s[x] ELSE t[x - Len(s)]
    BY ConcatProperties
<1>3. \A x \in 1..Len(s) : x \in 1..(Len(s) + Len(t)) /\ x <= Len(s)
    BY <1>1
<1>4. \A x \in 1..Len(s) : (s \o t)[x] = s[x]
    BY <1>2, <1>3
<1> QED BY <1>1, <1>2, <1>4 DEF Starts

LEMMA StartsAgain ==
    ASSUME NEW T, NEW s \in Seq(T), NEW t \in Seq(T), NEW u \in Seq(T),
           Starts(s, t), Starts(t, u)
    PROVE  Starts(s, u)
<1>1. Len(s) \in Nat /\ Len(t) \in Nat /\ Len(u) \in Nat
    BY LenProperties
<1>2. \A x \in 1..Len(s) : x \in 1..Len(t)
    BY <1>1 DEF Starts
<1> QED BY <1>1, <1>2 DEF Starts

LEMMA FlatStarts ==
    ASSUME NEW T, NEW n \in Nat, NEW s, \A k \in 1..n : s[k] \in Seq(T),
           NEW f \in [0..n -> Seq(T)], \A k \in 1..n : f[k] = f[k - 1] \o s[k],
           NEW i \in 0..n
    PROVE  Starts(f[i], f[n])
<1> DEFINE S == {k \in 0..n : k >= i => Starts(f[i], f[k])}
<1>1. \A k \in 0..n : f[k] \in Seq(T) /\ Len(f[k]) \in Nat
    BY LenProperties
<1>2. ASSUME NEW k \in 0..n, k = i PROVE Starts(f[i], f[k])
    BY <1>1, <1>2 DEF Starts
<1>3. 0 \in S
    <2>1. 0 \in 0..n /\ (0 >= i => 0 = i)
        OBVIOUS
    <2> QED BY <1>2, <2>1
<1>4. ASSUME NEW k \in 1..n, k - 1 \in S PROVE k \in S
    <2>1. k \in 0..n /\ k - 1 \in 0..n
        OBVIOUS
    <2>2. CASE k = i
        BY <1>2, <2>1, <2>2
    <2>3. CASE k < i
        BY <2>1, <2>3
    <2>4. CASE k > i
        <3>1. Starts(f[i], f[k - 1])
            BY <1>4, <2>4
        <3>2. f[k] = f[k - 1] \o s[k] /\ s[k] \in Seq(T)
            OBVIOUS
        <3>3. f[i] \in Seq(T) /\ f[k - 1] \in Seq(T) /\ f[k] \in Seq(T)
            BY <1>1, <2>1
        <3>4. Starts(f[k - 1], f[k])
            BY <3>2, <3>3, StartsConcat
        <3>5. Starts(f[i], f[k])
            BY <3>1, <3>3, <3>4, StartsAgain
        <3> QED BY <2>1, <3>5
    <2> QED BY <2>2, <2>3, <2>4
<1>5. 0..n \subseteq S
    <2> HIDE DEF S
    <2> QED BY <1>3, <1>4, UpTo
<1> QED BY <1>5

\* The words of an element are in order, and each paragraph's follow those
\* before it.
LEMMA WordsInOrder ==
    ASSUME NEW e \in Lines
    PROVE  LET W == FlattenSeq(Numbered(e))
           IN /\ InOrder(W) /\ Len(W) = Before(e, Len(e) + 1)
              /\ \A i \in 1..Len(e) :
                   /\ Before(e, i + 1) <= Len(W)
                   /\ Numbered(e)[i] = SubSeq(W, Before(e, i) + 1, Before(e, i + 1))
<1> DEFINE P == Numbered(e)
           W == FlattenSeq(P)
           n == Len(e)
<1>1. /\ P \in Seq(Seq(Word)) /\ Len(P) = n /\ n \in Nat
      /\ \A i \in 1..n : /\ P[i] \in Seq(Word) /\ Len(P[i]) = Len(e[i])
                         /\ \A j \in 1..Len(e[i]) : P[i][j].at = Before(e, i) + j
    <2>1. P \in Seq(Seq(Word)) /\ Len(P) = n /\ n \in Nat
        BY NumberedIs, LenProperties DEF Lines
    <2>2. \A i \in 1..n : P[i] \in Seq(Word)
        <3> HIDE DEF P
        <3> QED BY <2>1, LenProperties
    <2> QED BY <2>1, <2>2, NumberedIs
<1>2. /\ Before(e, 1) = 0 /\ \A i \in 1..(n + 1) : Before(e, i) \in Nat
      /\ \A i \in 1..n : Before(e, i + 1) = Before(e, i) + Len(e[i]) /\ Len(e[i]) \in Nat
    <2>1. \A i \in 1..n : e[i] \in Seq(Nat)
        BY LenProperties DEF Lines
    <2> QED BY <2>1, CountFirst, CountGrows, LenProperties DEF Lines
<1> HIDE DEF P, n
<1>3. PICK f \in [0..n -> Seq(Word)] :
          /\ f[0] = <<>> /\ W = f[n]
          /\ \A i \in 1..n : f[i] = f[i - 1] \o P[i]
    <2>1. \E f \in [0..Len(P) -> Seq(Word)] :
              /\ f[0] = <<>> /\ FlattenSeq(P) = f[Len(P)]
              /\ \A i \in 1..Len(P) : f[i] = f[i - 1] \o P[i]
        <3>1. P \in Seq(Seq(Word))
            BY <1>1
        <3> HIDE DEF W
        <3> QED BY <3>1, FlattenFold
    <2> QED BY <1>1, <2>1
<1> HIDE DEF W
<1>4. \A i \in 0..n : f[i] \in Seq(Word) /\ Len(f[i]) \in Nat
    BY LenProperties
<1> DEFINE Grown(i) == /\ Len(f[i]) = Before(e, i + 1)
                       /\ \A x \in 1..Len(f[i]) : f[i][x].at = x
           S == {i \in 0..n : Grown(i)}
<1>5. 0 \in S
    <2>1. Len(f[0]) = 0 /\ 1..Len(f[0]) = {} /\ 0 + 1 = 1
        BY <1>3, EmptySeq
    <2> QED BY <1>1, <1>2, <2>1
<1>6. ASSUME NEW i \in 1..n
      PROVE  /\ i - 1 \in 0..n /\ i \in 0..n /\ Len(f[i]) = Len(f[i - 1]) + Len(P[i])
             /\ Len(P[i]) \in Nat
             /\ \A x \in 1..Len(f[i - 1]) : f[i][x] = f[i - 1][x]
             /\ \A j \in 1..Len(P[i]) : f[i][Len(f[i - 1]) + j] = P[i][j]
    <2> DEFINE old == f[i - 1]
               p == P[i]
    <2>1. i - 1 \in 0..n /\ i \in 0..n /\ f[i] = old \o p
        <3>1. i - 1 \in 0..n /\ i \in 0..n
            BY <1>1
        <3> QED BY <1>3, <3>1
    <2>2. old \in Seq(Word) /\ p \in Seq(Word) /\ Len(old) \in Nat /\ Len(p) \in Nat
        BY <1>1, <1>2, <1>4, <2>1
    <2> HIDE DEF old, p
    <2>3. /\ Len(old \o p) = Len(old) + Len(p)
          /\ \A x \in 1..(Len(old) + Len(p)) :
                (old \o p)[x] = IF x <= Len(old) THEN old[x] ELSE p[x - Len(old)]
        BY <2>2, ConcatProperties
    <2>4. \A x \in 1..Len(old) : x \in 1..(Len(old) + Len(p)) /\ x <= Len(old)
        BY <2>2
    <2>5. \A j \in 1..Len(p) :
              /\ Len(old) + j \in 1..(Len(old) + Len(p)) /\ ~(Len(old) + j <= Len(old))
              /\ Len(old) + j - Len(old) = j
        BY <2>2
    <2>6. \A x \in 1..Len(old) : (old \o p)[x] = old[x]
        BY <2>3, <2>4
    <2>7. ASSUME NEW j \in 1..Len(p) PROVE (old \o p)[Len(old) + j] = p[j]
        <3>1. ASSUME NEW x, x = Len(old) + j PROVE (old \o p)[x] = p[x - Len(old)]
            BY <2>3, <2>5, <3>1
        <3>2. (old \o p)[Len(old) + j] = p[Len(old) + j - Len(old)]
            BY <2>2, <3>1
        <3> QED BY <2>5, <3>2
    <2> QED BY <2>1, <2>2, <2>3, <2>6, <2>7 DEF old, p
<1>7. ASSUME NEW i \in 1..n, i - 1 \in S PROVE i \in S
    <2>1. Len(f[i - 1]) = Before(e, i) /\ \A x \in 1..Len(f[i - 1]) : f[i - 1][x].at = x
        <3>1. i - 1 + 1 = i
            BY <1>1
        <3> QED BY <1>7, <3>1
    <2>2. /\ Before(e, i + 1) = Before(e, i) + Len(P[i]) /\ Before(e, i) \in Nat
          /\ Len(P[i]) \in Nat /\ Len(P[i]) = Len(e[i])
        <3>1. i \in 1..(n + 1)
            BY <1>1
        <3> QED BY <1>1, <1>2, <3>1
    <2>3. Len(f[i]) = Before(e, i + 1)
        BY <1>6, <2>1, <2>2
    <2>4. ASSUME NEW x \in 1..Len(f[i]) PROVE f[i][x].at = x
        <3> DEFINE b == Before(e, i)
        <3>0. b \in Nat /\ x \in 1..(b + Len(P[i])) /\ Len(f[i - 1]) = b
            BY <2>1, <2>2, <2>3
        <3>1. CASE x <= b
            <4>1. x \in 1..Len(f[i - 1])
                BY <3>0, <3>1
            <4> QED BY <1>6, <2>1, <4>1
        <3>2. CASE ~(x <= b)
            <4> DEFINE j == x - b
            <4>1. j \in 1..Len(P[i]) /\ b + j = x
                BY <2>2, <3>0, <3>2
            <4> HIDE DEF j, b
            <4>2. f[i][b + j] = P[i][j]
                BY <1>6, <3>0, <4>1
            <4>3. P[i][j].at = b + j
                BY <1>1, <2>2, <4>1 DEF b
            <4> QED BY <4>1, <4>2, <4>3
        <3> QED BY <3>1, <3>2
    <2>5. i \in 0..n
        BY <1>6
    <2> QED BY <2>3, <2>4, <2>5
<1>8. \A i \in 0..n : Grown(i)
    <2>1. 0..n \subseteq S
        <3> HIDE DEF S
        <3> QED BY <1>1, <1>5, <1>7, UpTo
    <2> QED BY <2>1
<1> HIDE DEF S
<1>9. n \in 0..n
    BY <1>1
<1>10. InOrder(W) /\ Len(W) = Before(e, n + 1)
    BY <1>3, <1>4, <1>8, <1>9 DEF InOrder
<1>11. ASSUME NEW i \in 1..n
       PROVE  /\ Before(e, i + 1) <= Len(W)
              /\ P[i] = SubSeq(W, Before(e, i) + 1, Before(e, i + 1))
    <2> DEFINE b == Before(e, i)
               d == Before(e, i + 1)
    <2>1. /\ b \in Nat /\ d = b + Len(P[i]) /\ Len(P[i]) \in Nat /\ d \in Nat
          /\ Len(f[i]) = d /\ Len(f[i - 1]) = b
        <3>1. i \in 1..(n + 1) /\ i - 1 + 1 = i
            BY <1>1
        <3>2. b \in Nat /\ d = b + Len(P[i]) /\ Len(P[i]) \in Nat
            BY <1>1, <1>2, <3>1
        <3>3. Len(f[i]) = d /\ Len(f[i - 1]) = Before(e, i - 1 + 1)
            BY <1>6, <1>8
        <3> HIDE DEF b, d
        <3> QED BY <3>1, <3>2, <3>3 DEF b
    <2> HIDE DEF b, d
    <2>2. Starts(f[i], W)
        <3>1. i \in 0..n /\ \A k \in 1..n : P[k] \in Seq(Word)
            BY <1>1, <1>6
        <3> QED BY <1>1, <1>3, <3>1, FlatStarts
    <2>3. d <= Len(W) /\ Len(W) \in Nat /\ W \in Seq(Word)
        BY <1>3, <1>4, <1>9, <2>1, <2>2 DEF Starts
    <2>4. ASSUME NEW j \in 1..Len(P[i]) PROVE b + j \in 1..d /\ W[b + j] = P[i][j]
        <3>1. b + j \in 1..d
            BY <2>1
        <3>2. f[i][b + j] = P[i][j]
            BY <1>6, <2>1
        <3>3. \A x \in 1..d : W[x] = f[i][x]
            BY <2>1, <2>2 DEF Starts
        <3>4. W[b + j] = f[i][b + j]
            <4>1. ASSUME NEW x, x = b + j PROVE W[x] = f[i][x]
                BY <3>1, <3>3, <4>1
            <4> QED BY <2>1, <4>1
        <3> QED BY <3>1, <3>2, <3>4
    <2> DEFINE s == SubSeq(W, b + 1, d)
    <2>5. /\ s \in Seq(Word) /\ Len(s) = Len(P[i])
          /\ \A j \in 1..Len(P[i]) : s[j] = W[b + j]
        <3>1. b + 1 \in Int /\ d \in Int /\ d - (b + 1) + 1 = Len(P[i])
            BY <2>1
        <3>2. \A x \in (b + 1)..d : W[x] \in Word
            <4>1. \A x \in (b + 1)..d : x \in 1..Len(W)
                BY <2>1, <2>3
            <4> QED BY <2>3, <4>1, LenProperties
        <3>3. /\ s \in Seq(Word) /\ Len(s) = IF b + 1 <= d THEN d - (b + 1) + 1 ELSE 0
              /\ \A j \in 1..(d - (b + 1) + 1) : s[j] = W[b + 1 + j - 1]
            BY <3>1, <3>2, SubSeqProperties
        <3>4. Len(s) = Len(P[i])
            BY <2>1, <3>1, <3>3
        <3>5. \A j \in 1..Len(P[i]) : b + 1 + j - 1 = b + j
            BY <2>1
        <3> HIDE DEF s
        <3> QED BY <3>1, <3>3, <3>4, <3>5
    <2> HIDE DEF s
    <2>6. P[i] = s
        BY <1>1, <2>4, <2>5, SeqEqual
    <2> QED BY <2>3, <2>6 DEF s, b, d
<1> QED BY <1>10, <1>11 DEF P, W, n

-----------------------------------------------------------------------------
(* The parts of an element cover its words.                                *)

Texts == Seq(Seq(Nat \ {0}) \ {<<>>})
Parts(e) == FlattenSeq([i \in DOMAIN Numbered(e) |-> SplitOversized(Numbered(e)[i])])

LEMMA TextsAreLines == Texts \subseteq Lines
<1>1. Seq(Nat \ {0}) \ {<<>>} \subseteq Seq(Nat)
    <2>1. Nat \ {0} \subseteq Nat
        OBVIOUS
    <2>2. Seq(Nat \ {0}) \subseteq Seq(Nat)
        BY <2>1, SeqMonotonic
    <2> QED BY <2>2
<1> QED BY <1>1, SeqMonotonic DEF Texts, Lines

LEMMA PartsCover ==
    ASSUME NEW e \in Texts
    PROVE  LET W == FlattenSeq(Numbered(e)) IN Covers(W, Parts(e), 1, Len(W))
<1> DEFINE P == Numbered(e)
           W == FlattenSeq(P)
           n == Len(e)
           Q == [i \in DOMAIN P |-> SplitOversized(P[i])]
<1>0. e \in Lines
    BY TextsAreLines
<1>1. n \in Nat /\ DOMAIN P = 1..n
    <2>1. P \in Seq(Seq(Word)) /\ Len(P) = n
        BY <1>0, NumberedIs
    <2> HIDE DEF P
    <2> QED BY <2>1, LenProperties
<1>2. /\ InOrder(W) /\ Len(W) \in Nat /\ Len(W) = Before(e, n + 1)
      /\ \A i \in 1..n : /\ Before(e, i + 1) <= Len(W)
                         /\ P[i] = SubSeq(W, Before(e, i) + 1, Before(e, i + 1))
    <2>1. InOrder(W)
        BY <1>0, WordsInOrder
    <2>2. Len(W) \in Nat
        <3> HIDE DEF W
        <3> QED BY <2>1, LenProperties DEF InOrder
    <2> QED BY <1>0, <2>1, <2>2, WordsInOrder
<1>3. /\ Before(e, 1) = 0 /\ \A i \in 1..(n + 1) : Before(e, i) \in Nat
      /\ \A i \in 1..n : Before(e, i) < Before(e, i + 1)
    <2>1. \A i \in 1..n : e[i] \in Seq(Nat \ {0}) \ {<<>>}
        BY LenProperties DEF Texts
    <2>2. \A i \in 1..n : Len(e[i]) \in Nat \ {0}
        BY <2>1, LenProperties, EmptySeq
    <2>3. Before(e, 1) = 0 /\ \A i \in 1..(n + 1) : Before(e, i) \in Nat
        BY <1>0, CountFirst DEF Lines
    <2>4. \A i \in 1..n : Before(e, i + 1) = Before(e, i) + Len(e[i])
        BY <1>0, CountGrows DEF Lines
    <2>5. \A i \in 1..n : i \in 1..(n + 1)
        BY <1>1
    <2> QED BY <2>2, <2>3, <2>4, <2>5
<1> HIDE DEF P, W, n
<1>4. ASSUME NEW i \in 1..n
      PROVE  Covers(W, Q[i], Before(e, i) + 1, Before(e, i + 1))
    <2> DEFINE a == Before(e, i) + 1
               b == Before(e, i + 1)
    <2>1. a \in 1..Len(W) /\ b \in 1..Len(W) /\ a <= b
        <3>1. i \in 1..(n + 1) /\ i + 1 \in 1..(n + 1)
            BY <1>1
        <3>2. Before(e, i) \in Nat /\ b \in Nat
            BY <1>3, <3>1
        <3>3. Before(e, i) < b /\ b <= Len(W)
            BY <1>2, <1>3
        <3> HIDE DEF b
        <3> QED BY <1>2, <3>2, <3>3
    <2>2. Q[i] = SplitOversized(SubSeq(W, a, b))
        BY <1>1, <1>2
    <2> HIDE DEF a, b, Q
    <2>3. Covers(W, Q[i], a, b)
        BY <1>2, <2>1, <2>2, SplitCovers
    <2> QED BY <2>3 DEF a, b
<1>5. Q \in Seq(Seq(Chunk)) /\ Len(Q) = n
    <2>1. \A i \in 1..n : Q[i] \in Seq(Chunk)
        BY <1>4 DEF Covers
    <2>2. DOMAIN Q = 1..n /\ Q = [i \in 1..n |-> Q[i]]
        BY <1>1
    <2> HIDE DEF Q
    <2>3. Q \in Seq(Seq(Chunk))
        BY <1>1, <2>1, <2>2, SeqDef
    <2> QED BY <1>1, <2>2, <2>3, LenProperties
<1> HIDE DEF Q
<1>6. PICK f \in [0..n -> Seq(Chunk)] :
          /\ f[0] = <<>> /\ FlattenSeq(Q) = f[n]
          /\ \A i \in 1..n : f[i] = f[i - 1] \o Q[i]
    <2>1. \E f \in [0..Len(Q) -> Seq(Chunk)] :
              /\ f[0] = <<>> /\ FlattenSeq(Q) = f[Len(Q)]
              /\ \A i \in 1..Len(Q) : f[i] = f[i - 1] \o Q[i]
        <3>1. Q \in Seq(Seq(Chunk))
            BY <1>5
        <3> QED BY <3>1, FlattenFold
    <2> QED BY <1>5, <2>1
<1> DEFINE S == {i \in 0..n : Covers(W, f[i], 1, Before(e, i + 1))}
<1>7. 0 \in S
    <2>1. Covers(W, <<>>, 1, 0)
        BY EmptySeq DEF Covers
    <2>2. 0 \in 0..n /\ Before(e, 0 + 1) = 0
        BY <1>1, <1>3
    <2> QED BY <1>6, <2>1, <2>2
<1>8. ASSUME NEW i \in 1..n, i - 1 \in S PROVE i \in S
    <2>1. i \in 0..n /\ i - 1 + 1 = i /\ i \in 1..(n + 1) /\ i + 1 \in 1..(n + 1)
        BY <1>1
    <2> DEFINE b == Before(e, i)
               d == Before(e, i + 1)
    <2>2. b \in Int /\ d \in Int
        BY <1>3, <2>1
    <2>3. Covers(W, f[i - 1], 1, b) /\ f[i] = f[i - 1] \o Q[i]
        BY <1>6, <1>8, <2>1
    <2>4. Covers(W, Q[i], b + 1, d)
        BY <1>4
    <2> HIDE DEF b, d
    <2>5. Covers(W, f[i], 1, d)
        BY <2>2, <2>3, <2>4, CoversConcat
    <2> QED BY <2>1, <2>5 DEF d
<1>9. n \in S
    <2>1. 0..n \subseteq S
        <3> HIDE DEF S
        <3> QED BY <1>1, <1>7, <1>8, UpTo
    <2> QED BY <1>1, <2>1
<1>10. Covers(W, FlattenSeq(Q), 1, Len(W))
    BY <1>2, <1>6, <1>9
<1> QED BY <1>10 DEF Parts, Q, P, W

-----------------------------------------------------------------------------
(* Chunks that are runs, each of which begins in or right after the one       *)
(* before it and goes further.                                             *)

Piece(W, c) == IsRun(W, c) /\ (Short(W) => c.length <= Target + Overlap + 2)
Linked(c, next) == From(next) <= To(c) + 1 /\ To(next) > To(c)
Chain(W, chunks) ==
    /\ chunks \in Seq(Chunk) /\ \A m \in 1..Len(chunks) : Piece(W, chunks[m])
    /\ \A m \in 1..(Len(chunks) - 1) : Linked(chunks[m], chunks[m + 1])
    /\ chunks # <<>> => From(chunks[1]) = 1

LEMMA ChainFirst ==
    ASSUME NEW W, NEW c \in Chunk, Piece(W, c), From(c) = 1
    PROVE  Chain(W, Append(<<>>, c))
<1>1. Append(<<>>, c) = <<c>> /\ <<c>> \in Seq(Chunk) /\ Len(<<c>>) = 1 /\ <<c>>[1] = c
    OBVIOUS
<1>2. 1..(1 - 1) = {} /\ \A m \in 1..1 : m = 1
    OBVIOUS
<1>3. \A m \in 1..Len(<<c>>) : Piece(W, <<c>>[m])
    BY <1>1, <1>2
<1> QED BY <1>1, <1>2, <1>3 DEF Chain

LEMMA ChainGrows ==
    ASSUME NEW W, NEW chunks \in Seq(Chunk), NEW c \in Chunk, Chain(W, Append(chunks, c)),
           NEW next \in Chunk, Piece(W, next), Linked(c, next)
    PROVE  Chain(W, Append(Append(chunks, c), next))
<1> DEFINE old == Append(chunks, c)
           new == Append(old, next)
           n == Len(old)
<1>1. old \in Seq(Chunk) /\ n \in Nat \ {0} /\ old[n] = c /\ old # <<>>
    BY AppendProperties, LenProperties
<1> HIDE DEF old
<1>2. /\ new \in Seq(Chunk) /\ Len(new) = n + 1 /\ new[n + 1] = next /\ new # <<>>
      /\ \A m \in 1..n : new[m] = old[m]
    BY <1>1, AppendProperties
<1>3. /\ \A m \in 1..n : Piece(W, old[m])
      /\ \A m \in 1..(n - 1) : Linked(old[m], old[m + 1])
      /\ From(old[1]) = 1
    BY <1>1 DEF Chain, old
<1> HIDE DEF new, n
<1>4. ASSUME NEW m \in 1..(n + 1) PROVE Piece(W, new[m])
    <2>1. m \in 1..n \/ m = n + 1
        BY <1>1
    <2> QED BY <1>2, <1>3, <2>1
<1>5. ASSUME NEW m \in 1..n PROVE Linked(new[m], new[m + 1])
    <2>1. CASE m = n
        BY <1>1, <1>2, <2>1
    <2>2. CASE m # n
        <3>1. m \in 1..(n - 1) /\ m + 1 \in 1..n
            BY <1>1, <2>2
        <3> QED BY <1>2, <1>3, <3>1
    <2> QED BY <2>1, <2>2
<1>6. From(new[1]) = 1
    BY <1>1, <1>2, <1>3
<1>7. Len(new) - 1 = n
    BY <1>1, <1>2
<1>8. Chain(W, new)
    BY <1>2, <1>4, <1>5, <1>6, <1>7 DEF Chain
<1> QED BY <1>8 DEF new, old

\* The last chunk may go further.
LEMMA ChainExtends ==
    ASSUME NEW W, NEW chunks \in Seq(Chunk), NEW c \in Chunk, Chain(W, Append(chunks, c)),
           NEW longer \in Chunk, Piece(W, longer), InOrder(W),
           From(longer) = From(c), To(longer) > To(c)
    PROVE  Chain(W, Append(chunks, longer))
<1> DEFINE old == Append(chunks, c)
           new == Append(chunks, longer)
           n == Len(chunks)
<1>1. /\ n \in Nat
      /\ old \in Seq(Chunk) /\ Len(old) = n + 1 /\ old[n + 1] = c
      /\ new \in Seq(Chunk) /\ Len(new) = n + 1 /\ new[n + 1] = longer
      /\ \A m \in 1..n : old[m] = chunks[m] /\ new[m] = chunks[m]
      /\ old # <<>> /\ new # <<>>
    BY AppendProperties, LenProperties
<1>2. /\ \A m \in 1..(n + 1) : Piece(W, old[m])
      /\ \A m \in 1..n : Linked(old[m], old[m + 1])
      /\ From(old[1]) = 1
    <2>1. Len(old) - 1 = n
        BY <1>1
    <2> HIDE DEF old
    <2> QED BY <1>1, <2>1 DEF Chain, old
<1> HIDE DEF old, new, n
<1>3. ASSUME NEW m \in 1..(n + 1) PROVE Piece(W, new[m])
    <2>1. m \in 1..n \/ m = n + 1
        BY <1>1
    <2> QED BY <1>1, <1>2, <2>1
<1>4. ASSUME NEW m \in 1..n PROVE Linked(new[m], new[m + 1])
    <2>0. m \in 1..(n + 1) /\ Linked(old[m], old[m + 1])
        BY <1>1, <1>2
    <2>1. CASE m = n
        <3>1. new[m] = old[m] /\ old[m] = chunks[m] /\ Piece(W, old[m])
            BY <1>1, <1>2, <2>0
        <3>2. old[m + 1] = c /\ new[m + 1] = longer
            BY <1>1, <2>1
        <3>3. chunks[m] \in Chunk
            BY LenProperties DEF n
        <3>4. To(old[m]) \in Int /\ To(c) \in Int /\ To(longer) \in Int
            <4>1. Piece(W, c)
                <5>1. n + 1 \in 1..(n + 1)
                    BY <1>1
                <5> QED BY <1>1, <1>2, <5>1
            <4> QED BY <3>1, <3>3, <4>1, RunIs DEF Piece
        <3> QED BY <2>0, <3>1, <3>2, <3>4 DEF Linked
    <2>2. CASE m # n
        <3>1. m + 1 \in 1..n
            BY <1>1, <2>2
        <3> QED BY <1>1, <2>0, <3>1
    <2> QED BY <2>1, <2>2
<1>5. From(new[1]) = 1
    <2>1. CASE n = 0
        BY <1>1, <1>2, <2>1
    <2>2. CASE n # 0
        <3>1. 1 \in 1..n
            BY <1>1, <2>2
        <3> QED BY <1>1, <1>2, <3>1
    <2> QED BY <2>1, <2>2
<1>6. Len(new) - 1 = n
    BY <1>1
<1>7. Chain(W, new)
    BY <1>1, <1>3, <1>4, <1>5, <1>6 DEF Chain
<1> QED BY <1>7 DEF new

-----------------------------------------------------------------------------
(* How parts are added: the chunks and the current one are a chain that ends *)
(* with the last word added.                                               *)

AddsTo(W, b, acc) ==
    IF b = 0 THEN acc = NoChunks
             ELSE Chain(W, Append(acc.chunks, acc.current)) /\ To(acc.current) = b

LEMMA PartIsPiece ==
    ASSUME NEW W, NEW c \in Chunk, IsPart(W, c)
    PROVE  Piece(W, c)
<1>1. c.length \in Int
    BY DEF Chunk
<1>2. c.length <= Target => c.length <= Target + Overlap + 2
    BY <1>1, ChunkingAssumption DEF ChunkingAssumption
<1> QED BY <1>2 DEF IsPart, Piece

\* A run and the run behind it are one run.
LEMMA TogetherRuns ==
    ASSUME NEW W, InOrder(W), NEW c \in Chunk, NEW d \in Chunk, IsRun(W, c), IsRun(W, d),
           From(d) = To(c) + 1
    PROVE  LET both == Together(c, d)
           IN both \in Chunk /\ IsRun(W, both) /\ From(both) = From(c) /\ To(both) = To(d)
<1> DEFINE both == Together(c, d)
           i == From(c)
           k == To(c)
           j == To(d)
<1>1. /\ i \in 1..Len(W) /\ k \in 1..Len(W) /\ i <= k /\ c.words = SubSeq(W, i, k)
      /\ c.words # <<>>
    BY RunIs
<1>2. /\ k + 1 \in 1..Len(W) /\ j \in 1..Len(W) /\ k + 1 <= j /\ d.words = SubSeq(W, k + 1, j)
    BY RunIs
<1>3. both.words = c.words \o d.words
    BY <1>1 DEF Together
<1> HIDE DEF i, k, j
<1>4. SubSeq(W, i, k) \o SubSeq(W, k + 1, j) = SubSeq(W, i, j)
    <2>1. /\ W \in Seq(Word) /\ i \in 1..(Len(W) + 1) /\ k \in (i - 1)..Len(W)
          /\ j \in k..Len(W)
        BY <1>1, <1>2, LenProperties DEF InOrder
    <2> QED BY <2>1, ConcatAdjacentSubSeq
<1>5. both.words = SubSeq(W, i, j) /\ i <= j
    BY <1>1, <1>2, <1>3, <1>4
<1> DEFINE s == SubSeq(W, i, j)
<1>6. s[1].at = i /\ s[Len(s)].at = j
    <2>1. i \in 1..Len(W) /\ j \in 1..Len(W) /\ i <= j
        BY <1>1, <1>2, <1>5
    <2> QED BY <2>1, SubSeqIs
<1>7. IsRun(W, both)
    BY <1>1, <1>2, <1>5 DEF IsRun
<1> HIDE DEF both, s
<1>8. From(both) = i /\ To(both) = j
    BY <1>5, <1>6 DEF From, To, s
<1>9. both \in Chunk
    BY TogetherType DEF both
<1> QED BY <1>7, <1>8, <1>9 DEF both, i, j

\* The tail of a chunk is empty, or a run that ends where the chunk ends and
\* fits the overlap.
LEMMA TailRuns ==
    ASSUME NEW W, InOrder(W), NEW c \in Chunk, IsRun(W, c)
    PROVE  LET tail == Phrase(TailOf(c.words))
           IN tail \in Chunk
              /\ \/ tail.words = <<>>
                 \/ /\ IsRun(W, tail) /\ From(c) <= From(tail) /\ To(tail) = To(c)
                    /\ tail.length <= Overlap /\ tail.words # <<>>
<1> DEFINE t == TailOf(c.words)
           i == From(c)
           j == To(c)
<1>1. /\ i \in 1..Len(W) /\ j \in 1..Len(W) /\ i <= j /\ c.words = SubSeq(W, i, j)
      /\ c.words # <<>> /\ c.words \in Seq(Word)
    BY RunIs DEF Chunk
<1>2. Phrase(t) \in Chunk /\ Phrase(t).words = t
    <2>1. t \in Seq(Word)
        BY <1>1, TailType
    <2> HIDE DEF t
    <2> QED BY <2>1, PhraseType DEF Phrase
<1>3. t = <<>> \/ \E x \in 1..Len(c.words) : t = SubSeq(c.words, x, Len(c.words))
                                              /\ Joined(t) <= Overlap
    BY <1>1, TailIs
<1> HIDE DEF t, i, j
<1>4. ASSUME t # <<>>
      PROVE  /\ IsRun(W, Phrase(t)) /\ i <= From(Phrase(t)) /\ To(Phrase(t)) = j
             /\ Phrase(t).length <= Overlap
    <2>1. PICK x \in 1..Len(c.words) : t = SubSeq(c.words, x, Len(c.words))
                                       /\ Joined(t) <= Overlap
        BY <1>3, <1>4
    <2>2. Len(c.words) = j - i + 1 /\ Len(W) \in Nat
        BY <1>1, SubSeqIs, LenProperties DEF InOrder
    <2> DEFINE y == i + x - 1
               n == j - i + 1
    <2>3. /\ x \in 1..n /\ n \in 1..n /\ i + n - 1 = j
          /\ y \in 1..Len(W) /\ i <= y /\ y <= j
        <3>1. x \in 1..n
            BY <2>2
        <3>2. i \in Nat \ {0} /\ j \in Nat /\ i <= j /\ j <= Len(W)
            BY <1>1, <2>2
        <3> QED BY <2>2, <3>1, <3>2
    <2>4. t = SubSeq(W, y, j)
        <3>1. W \in Seq(Word) /\ x \in 1..(j - i + 1) /\ n \in 1..(j - i + 1)
            BY <2>3 DEF InOrder
        <3>2. SubSeq(SubSeq(W, i, j), x, n) = SubSeq(W, y, i + n - 1)
            <4> HIDE DEF n
            <4> QED BY <1>1, <3>1, SubSeqOfSubSeq
        <3> HIDE DEF y
        <3> QED BY <1>1, <2>1, <2>2, <2>3, <3>2
    <2> HIDE DEF y
    <2>5. t[1].at = y /\ t[Len(t)].at = j
        <3> DEFINE s == SubSeq(W, y, j)
        <3>1. s[1].at = y /\ s[Len(s)].at = j
            BY <1>1, <2>3, SubSeqIs
        <3> HIDE DEF s
        <3> QED BY <2>4, <3>1 DEF s
    <2>6. Phrase(t).length = Joined(t)
        BY <1>4 DEF Phrase
    <2>7. From(Phrase(t)) = y /\ To(Phrase(t)) = j
        BY <1>2, <2>5 DEF From, To
    <2>8. IsRun(W, Phrase(t))
        BY <1>1, <1>2, <2>3, <2>4 DEF IsRun
    <2> QED BY <2>1, <2>3, <2>6, <2>7, <2>8
<1> QED BY <1>2, <1>4 DEF t, i, j

LEMMA AddStep ==
    ASSUME NEW W, InOrder(W), NEW b \in Nat, NEW acc \in Adding, AddsTo(W, b, acc),
           NEW part \in Chunk, IsPart(W, part), From(part) = b + 1
    PROVE  AddsTo(W, To(part), AddPart(acc, part))
<1> DEFINE d == To(part)
           current == acc.current
           new == AddPart(acc, part)
<1>1. /\ acc.chunks \in Seq(Chunk) /\ current \in Chunk /\ Piece(W, part) /\ IsRun(W, part)
      /\ d \in Nat \ {0} /\ d > b /\ Len(W) \in Nat
    <2>1. acc.chunks \in Seq(Chunk) /\ current \in Chunk
        BY DEF Adding
    <2>2. Piece(W, part) /\ IsRun(W, part)
        BY PartIsPiece DEF IsPart
    <2>3. Len(W) \in Nat
        BY LenProperties DEF InOrder
    <2>4. d \in 1..Len(W) /\ From(part) <= d
        BY <2>2, RunIs
    <2> HIDE DEF d
    <2> QED BY <2>1, <2>2, <2>3, <2>4
<1> HIDE DEF d
<1>2. CASE b = 0
    <2>1. acc = NoChunks
        BY <1>2 DEF AddsTo
    <2>2. acc.chunks = <<>> /\ current.words = <<>>
        BY <2>1 DEF NoChunks, NoChunk
    <2>3. new.chunks = <<>> /\ new.current = part
        BY <2>2 DEF AddPart, Together, Adding
    <2>4. Chain(W, Append(<<>>, part))
        BY <1>1, <1>2, ChainFirst
    <2> HIDE DEF new
    <2> QED BY <1>1, <2>3, <2>4 DEF AddsTo, new, d
<1>3. CASE b # 0
    <2>1. Chain(W, Append(acc.chunks, current)) /\ To(current) = b
        BY <1>3 DEF AddsTo
    <2>2. Piece(W, current) /\ IsRun(W, current)
        <3> DEFINE cs == Append(acc.chunks, current)
                   m == Len(cs)
        <3>1. m \in 1..m /\ cs[m] = current
            BY <1>1, AppendProperties, LenProperties
        <3>2. Chain(W, cs)
            BY <2>1
        <3> HIDE DEF cs
        <3> QED BY <3>1, <3>2 DEF Chain, Piece
    <2>3. current.words # <<>> /\ From(current) \in 1..Len(W) /\ From(current) <= To(current)
        BY <1>1, <2>2, RunIs
    <2> DEFINE both == Together(current, part)
    <2>4. /\ both \in Chunk /\ IsRun(W, both) /\ From(both) = From(current) /\ To(both) = d
        BY <1>1, <2>1, <2>2, TogetherRuns DEF d
    <2> HIDE DEF both, current
    <2>5. CASE both.length > Target
        <3> DEFINE tail == Phrase(TailOf(current.words))
                   next == Together(tail, part)
        <3>1. new = [chunks |-> Append(acc.chunks, current), current |-> next]
            BY <2>3, <2>5 DEF AddPart, both, current
        <3>2. /\ tail \in Chunk
              /\ \/ tail.words = <<>>
                 \/ /\ IsRun(W, tail) /\ From(current) <= From(tail) /\ To(tail) = To(current)
                    /\ tail.length <= Overlap /\ tail.words # <<>>
            BY <1>1, <2>2, TailRuns
        <3> HIDE DEF tail, next, new
        <3>3. /\ next \in Chunk /\ Piece(W, next) /\ Linked(current, next) /\ To(next) = d
            <4>1. CASE tail.words = <<>>
                <5>1. next = part
                    BY <4>1 DEF next, Together
                <5>2. From(part) <= To(current) + 1 /\ To(part) > To(current)
                    BY <1>1, <2>1 DEF d
                <5> QED BY <1>1, <5>1, <5>2 DEF Linked, d
            <4>2. CASE tail.words # <<>>
                <5>1. /\ IsRun(W, tail) /\ From(current) <= From(tail) /\ To(tail) = To(current)
                      /\ tail.length <= Overlap
                    BY <3>2, <4>2
                <5>2. /\ next \in Chunk /\ IsRun(W, next) /\ From(next) = From(tail)
                      /\ To(next) = d
                    BY <1>1, <2>1, <3>2, <5>1, TogetherRuns DEF next, d
                <5>3. From(tail) \in Nat /\ From(tail) <= To(tail) /\ To(tail) \in Nat
                    BY <1>1, <3>2, <5>1, RunIs
                <5>4. Linked(current, next)
                    BY <1>1, <2>1, <5>1, <5>2, <5>3 DEF Linked
                <5>5. Short(W) => next.length <= Target + Overlap + 2
                    <6>1. next.length = tail.length + 2 + part.length
                        BY <4>2 DEF next, Together
                    <6>2. tail.length \in Int /\ part.length \in Int
                        BY <3>2 DEF Chunk
                    <6>3. Short(W) => part.length <= Target
                        BY DEF IsPart
                    <6> QED BY <5>1, <6>1, <6>2, <6>3, ChunkingAssumption DEF ChunkingAssumption
                <5> QED BY <5>2, <5>4, <5>5 DEF Piece
            <4> QED BY <4>1, <4>2
        <3>4. Chain(W, Append(Append(acc.chunks, current), next))
            BY <1>1, <2>1, <3>3, ChainGrows
        <3> QED BY <1>1, <3>1, <3>3, <3>4 DEF AddsTo, new, d
    <2>6. CASE ~(both.length > Target)
        <3>1. new.chunks = acc.chunks /\ new.current = both
            BY <2>3, <2>6 DEF AddPart, Adding, both, current
        <3> HIDE DEF new
        <3>2. Piece(W, both)
            <4>1. both.length \in Int
                BY <2>4 DEF Chunk
            <4>2. both.length <= Target + Overlap + 2
                BY <2>6, <4>1, ChunkingAssumption DEF ChunkingAssumption
            <4> QED BY <2>4, <4>2 DEF Piece
        <3>3. To(both) > To(current)
            BY <1>1, <2>1, <2>4
        <3>4. Chain(W, Append(acc.chunks, both))
            BY <1>1, <2>1, <2>4, <3>2, <3>3, ChainExtends
        <3> QED BY <1>1, <2>4, <3>1, <3>4 DEF AddsTo, new, d
    <2> QED BY <2>5, <2>6
<1> QED BY <1>2, <1>3

LEMMA SplitIsChain ==
    ASSUME NEW e \in Texts
    PROVE  LET W == FlattenSeq(Numbered(e))
               chunks == SplitText(Numbered(e))
           IN /\ InOrder(W) /\ Chain(W, chunks)
              /\ W # <<>> => chunks # <<>> /\ To(chunks[Len(chunks)]) = Len(W)
<1> DEFINE W == FlattenSeq(Numbered(e))
           parts == Parts(e)
           n == Len(parts)
           chunks == SplitText(Numbered(e))
<1>1. InOrder(W) /\ Len(W) \in Nat /\ (W = <<>> <=> Len(W) = 0)
    <2>1. InOrder(W)
        BY TextsAreLines, WordsInOrder
    <2> HIDE DEF W
    <2> QED BY <2>1, LenProperties, EmptySeq DEF InOrder
<1>2. Covers(W, parts, 1, Len(W))
    BY PartsCover
<1> HIDE DEF W, parts
<1>3. /\ parts \in Seq(Chunk) /\ n \in Nat
      /\ \A k \in 1..n : parts[k] \in Chunk /\ IsPart(W, parts[k]) /\ To(parts[k]) \in 1..Len(W)
      /\ IF n = 0 THEN Len(W) = 0 ELSE From(parts[1]) = 1 /\ To(parts[n]) = Len(W)
      /\ \A k \in 1..(n - 1) : From(parts[k + 1]) = To(parts[k]) + 1
    <2>1. /\ parts \in Seq(Chunk) /\ n \in Nat /\ (parts = <<>> <=> n = 0)
          /\ \A k \in 1..n : parts[k] \in Chunk /\ IsPart(W, parts[k])
        BY <1>2, LenProperties, EmptySeq DEF Covers
    <2>2. \A k \in 1..n : To(parts[k]) \in 1..Len(W)
        BY <1>1, <2>1, RunIs DEF IsPart
    <2>3. IF n = 0 THEN Len(W) = 1 - 1 ELSE From(parts[1]) = 1 /\ To(parts[n]) = Len(W)
        BY <1>2, <2>1 DEF Covers
    <2>4. \A k \in 1..(n - 1) : From(parts[k + 1]) = To(parts[k]) + 1
        BY <1>2 DEF Covers
    <2> QED BY <2>1, <2>2, <2>3, <2>4
<1> HIDE DEF n
<1>4. PICK f \in [0..n -> Adding] :
          /\ f[0] = NoChunks /\ FoldLeft(AddPart, NoChunks, parts) = f[n]
          /\ \A k \in 1..n : f[k] = AddPart(f[k - 1], parts[k])
    BY <1>3, AddPartFold DEF n
<1> DEFINE End(k) == IF k = 0 THEN 0 ELSE To(parts[k])
           S == {k \in 0..n : AddsTo(W, End(k), f[k])}
<1>5. 0 \in S
    BY <1>3, <1>4 DEF AddsTo
<1>6. ASSUME NEW k \in 1..n, k - 1 \in S PROVE k \in S
    <2>1. k - 1 \in 0..n /\ k \in 0..n /\ k # 0
        BY <1>3
    <2>2. End(k - 1) \in Nat /\ From(parts[k]) = End(k - 1) + 1
        <3>1. CASE k = 1
            BY <1>3, <3>1
        <3>2. CASE k # 1
            <4> DEFINE m == k - 1
            <4>1. m \in 1..(n - 1) /\ m \in 1..n /\ m + 1 = k /\ m # 0
                BY <1>3, <3>2
            <4> HIDE DEF m
            <4>2. From(parts[m + 1]) = To(parts[m]) + 1 /\ To(parts[m]) \in 1..Len(W)
                BY <1>3, <4>1
            <4>3. End(m) = To(parts[m])
                BY <4>1
            <4> QED BY <4>1, <4>2, <4>3 DEF m
        <3> QED BY <3>1, <3>2
    <2>3. f[k - 1] \in Adding /\ f[k] = AddPart(f[k - 1], parts[k])
        BY <1>4, <2>1
    <2>4. AddsTo(W, End(k - 1), f[k - 1])
        BY <1>6
    <2> DEFINE b == End(k - 1)
               acc == f[k - 1]
    <2> HIDE DEF b, acc
    <2>5. AddsTo(W, To(parts[k]), AddPart(acc, parts[k]))
        <3>1. /\ b \in Nat /\ From(parts[k]) = b + 1 /\ acc \in Adding /\ AddsTo(W, b, acc)
              /\ parts[k] \in Chunk /\ IsPart(W, parts[k])
            BY <1>3, <2>2, <2>3, <2>4 DEF b, acc
        <3> QED BY <1>1, <3>1, AddStep
    <2>6. End(k) = To(parts[k])
        BY <2>1
    <2> HIDE DEF End
    <2> QED BY <2>1, <2>3, <2>5, <2>6 DEF acc
<1>7. AddsTo(W, End(n), f[n]) /\ f[n] \in Adding
    <2>1. 0..n \subseteq S
        <3> HIDE DEF S
        <3> QED BY <1>3, <1>5, <1>6, UpTo
    <2> QED BY <1>3, <1>4, <2>1
<1> DEFINE last == f[n]
<1>8. chunks = IF last.current.words = <<>> THEN last.chunks ELSE Append(last.chunks, last.current)
    BY <1>4 DEF SplitText, parts, Parts, NoChunks
<1> HIDE DEF chunks, last
<1>9. CASE n = 0
    <2>1. last = NoChunks
        BY <1>7, <1>9 DEF AddsTo, last
    <2>2. chunks = <<>>
        BY <1>8, <2>1 DEF NoChunks, NoChunk
    <2>3. Chain(W, <<>>)
        BY EmptySeq DEF Chain
    <2> QED BY <1>1, <1>3, <1>9, <2>2, <2>3 DEF W, chunks
<1>10. CASE n # 0
    <2>1. End(n) = Len(W) /\ Len(W) # 0
        <3>1. n \in 1..n
            BY <1>3, <1>10
        <3> QED BY <1>3, <1>10, <3>1
    <2> DEFINE all == Append(last.chunks, last.current)
               m == Len(all)
    <2>2. Chain(W, all) /\ To(last.current) = Len(W)
        BY <1>7, <2>1 DEF AddsTo, last
    <2>3. last.chunks \in Seq(Chunk) /\ last.current \in Chunk
        BY <1>7 DEF Adding, last
    <2>4. m \in 1..m /\ all[m] = last.current /\ all # <<>>
        BY <2>3, AppendProperties, LenProperties
    <2> HIDE DEF all
    <2>5. IsRun(W, last.current)
        BY <2>2, <2>4 DEF Chain, Piece
    <2>6. last.current.words # <<>>
        BY <1>1, <2>3, <2>5, RunIs
    <2>7. chunks = all
        BY <1>8, <2>6 DEF all
    <2> QED BY <1>1, <2>2, <2>4, <2>7 DEF W, chunks
<1> QED BY <1>9, <1>10

-----------------------------------------------------------------------------
(* The property.                                                           *)

\* What was cut is what SplitText makes of one of the elements.
CutWell ==
    \/ cut = [paragraphs |-> <<>>, chunks |-> <<>>]
    \/ \E e \in Texts : cut = [paragraphs |-> Numbered(e), chunks |-> SplitText(Numbered(e))]

LEMMA NothingCovered == cut = [paragraphs |-> <<>>, chunks |-> <<>>] => ChunksCoverTheText
<1> SUFFICES ASSUME cut = [paragraphs |-> <<>>, chunks |-> <<>>] PROVE ChunksCoverTheText
    OBVIOUS
<1>1. Words = <<>>
    BY DEF Words, FlattenSeq
<1>2. cut.chunks = <<>> /\ DOMAIN <<>> = {}
    OBVIOUS
<1> QED BY <1>1, <1>2 DEF ChunksCoverTheText

LEMMA TextCovered ==
    ASSUME NEW e \in Texts,
           cut = [paragraphs |-> Numbered(e), chunks |-> SplitText(Numbered(e))]
    PROVE  ChunksCoverTheText
<1> DEFINE W == Words
           chunks == cut.chunks
           n == Len(chunks)
<1>1. /\ InOrder(W) /\ Chain(W, chunks)
      /\ W # <<>> => chunks # <<>> /\ To(chunks[n]) = Len(W)
    BY SplitIsChain DEF Words
<1> HIDE DEF W, chunks
<1>2. /\ chunks \in Seq(Chunk) /\ n \in Nat /\ DOMAIN chunks = 1..n
      /\ (chunks # <<>> => 1 \in 1..n /\ n \in 1..n)
      /\ \A k \in 1..n : chunks[k] \in Chunk
      /\ W \in Seq(Word) /\ DOMAIN W = 1..Len(W)
    BY <1>1, LenProperties, EmptySeq DEF Chain, InOrder
<1>3. ASSUME NEW k \in 1..n
      PROVE  LET c == chunks[k]
             IN /\ c.words = SubSeq(W, From(c), To(c)) /\ c.words # <<>> /\ c.words \in Seq(Word)
                /\ (Short(W) => c.length <= Target + Overlap + 2)
    <2>1. Piece(W, chunks[k]) /\ IsRun(W, chunks[k]) /\ chunks[k] \in Chunk
        BY <1>1, <1>2 DEF Chain, Piece
    <2> QED BY <1>1, <2>1, RunIs DEF Piece, Chunk
<1>4. ASSUME NEW k \in 1..n, k < n PROVE Linked(chunks[k], chunks[k + 1])
    <2>1. k \in 1..(n - 1)
        BY <1>2, <1>4
    <2> QED BY <1>1, <2>1 DEF Chain
<1>5. Short(W) <=> \A x \in DOMAIN W : W[x].length <= Target
    BY <1>2 DEF Short
<1>6. ASSUME NEW k \in DOMAIN chunks
      PROVE  LET w == chunks[k].words
                 next == chunks[k + 1].words
             IN /\ w = SubSeq(W, w[1].at, w[Len(w)].at)
                /\ k < Len(chunks) => next[1].at <= w[Len(w)].at + 1
                                      /\ next[Len(next)].at > w[Len(w)].at
                /\ (\A x \in DOMAIN W : W[x].length <= Target)
                     => chunks[k].length <= Target + Overlap + 2
    <2>1. k \in 1..n
        BY <1>2
    <2> QED BY <1>3, <1>4, <1>5, <2>1 DEF Linked, From, To
<1>7. ASSUME W # <<>>
      PROVE  /\ chunks # <<>>
             /\ Head(chunks[1].words).at = 1
             /\ Last(Last(chunks).words).at = Len(W)
    <2>1. chunks # <<>> /\ To(chunks[n]) = Len(W) /\ From(chunks[1]) = 1
        BY <1>1, <1>7 DEF Chain
    <2>2. chunks[1].words \in Seq(Word) /\ chunks[1].words # <<>>
        BY <1>2, <1>3, <2>1
    <2>3. Head(chunks[1].words) = chunks[1].words[1]
        BY <2>2
    <2> QED BY <2>1, <2>3 DEF From, To, Last
<1> QED BY <1>6, <1>7 DEF ChunksCoverTheText, W, chunks

\* No word of an element is lost, doubled or moved, for elements of any size
\* (chunk_document, _split_text, _split_oversized and _tail).
THEOREM TextIsCovered == ChunkingSpec => []ChunksCoverTheText
<1>1. ChunkingInit => CutWell
    BY DEF ChunkingInit, CutWell
<1>2. CutWell /\ [ChunkingNext]_chunkingVars => CutWell'
    <2> SUFFICES ASSUME CutWell, [ChunkingNext]_chunkingVars PROVE CutWell'
        OBVIOUS
    <2>1. ASSUME NEW e \in Elements, CutElement(e) PROVE CutWell'
        <3>1. e \in Texts
            BY ChunkingAssumption DEF ChunkingAssumption, Texts
        <3>2. cut' = [paragraphs |-> Numbered(e), chunks |-> SplitText(Numbered(e))]
            BY <2>1 DEF CutElement
        <3> QED BY <3>1, <3>2 DEF CutWell
    <2>2. CASE UNCHANGED chunkingVars
        BY <2>2 DEF CutWell, chunkingVars
    <2> QED BY <2>1, <2>2 DEF ChunkingNext
<1>3. CutWell => ChunksCoverTheText
    BY NothingCovered, TextCovered DEF CutWell
<1> QED BY <1>1, <1>2, <1>3, PTL DEF ChunkingSpec
=============================================================================
