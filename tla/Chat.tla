-------------------------------- MODULE Chat --------------------------------
(***************************************************************************)
(* Messages sent to one conversation (api/app.py, send_message and          *)
(* _stream_run) over the PostgreSQL store (adapters/postgres.py).  A post    *)
(* loads the conversation for its context, appends the question, relays the *)
(* run's events and appends the answer.  Every read of the store is two     *)
(* statements, and an append is such a read and then a transaction that     *)
(* writes the message and the rolling summary computed from that read.      *)
(*                                                                         *)
(* The summary is the length of the prefix it covers; messages are ordered  *)
(* by commit.                                                               *)
(***************************************************************************)
EXTENDS Naturals, Sequences, FiniteSets

CONSTANTS
    Posts,         \* messages sent to the conversation
    MaxInFlight,   \* bound: posts under way at a time
    Chunks,        \* answer deltas of a run
    SummaryAfter,  \* messages a conversation has before it is summarised
    Kept           \* latest messages that are never summarised

ASSUME ChatAssumption ==
    /\ IsFiniteSet(Posts)
    /\ MaxInFlight \in Nat \ {0} /\ Chunks \in Nat \ {0}
    /\ SummaryAfter \in Nat /\ Kept \in Nat \ {0} /\ Kept <= SummaryAfter

VARIABLES
    messages,    \* conversation_messages
    summarized,  \* conversations.summarized_message_count
    phase,       \* what a post is doing
    step,        \* how far its call of the store is
    snapshot,    \* what that call has read
    context,     \* the conversation its prompt is built from
    parts        \* answer_parts: the deltas it has relayed

chatVars == <<messages, summarized, phase, step, snapshot, context, parts>>

Snapshot == [count : Nat, length : Nat]
Empty == [count |-> 0, length |-> 0]
Calling == {"load", "user", "assistant"}
Over == {"done", "failed", "gone"}
Phases == {"new", "stream"} \cup Calling \cup Over
Busy == {q \in Posts : phase[q] \notin {"new"} \cup Over}

ChatInit ==
    /\ messages = <<>>
    /\ summarized = 0
    /\ phase = [q \in Posts |-> "new"]
    /\ step = [q \in Posts |-> "row"]
    /\ snapshot = [q \in Posts |-> Empty]
    /\ context = [q \in Posts |-> Empty]
    /\ parts = [q \in Posts |-> 0]

Accept(q) ==
    /\ phase[q] = "new"
    /\ Cardinality(Busy) < MaxInFlight
    /\ phase' = [phase EXCEPT ![q] = "load"]
    /\ UNCHANGED <<messages, summarized, step, snapshot, context, parts>>

(* get: the conversation's row, then its messages.                         *)
ReadRow(q) ==
    /\ phase[q] \in Calling /\ step[q] = "row"
    /\ snapshot' = [snapshot EXCEPT ![q].count = summarized]
    /\ step' = [step EXCEPT ![q] = "messages"]
    /\ UNCHANGED <<messages, summarized, phase, context, parts>>

ReadMessages(q) ==
    /\ step[q] = "messages"
    /\ snapshot' = [snapshot EXCEPT ![q].length = Len(messages)]
    /\ IF phase[q] = "load"
       THEN /\ context' = [context EXCEPT ![q] = snapshot'[q]]
            /\ phase' = [phase EXCEPT ![q] = "user"]
            /\ step' = [step EXCEPT ![q] = "row"]
       ELSE /\ step' = [step EXCEPT ![q] = "write"]
            /\ UNCHANGED <<context, phase>>
    /\ UNCHANGED <<messages, summarized, parts>>

(* _with_rolling_summary, of what was read and one message more.            *)
RolledAlways(s) == s.length + 1 - Kept                   \* mutant: no threshold
RolledByOneMore(s) ==                                    \* mutant: off by one
    IF s.length + 1 <= SummaryAfter THEN s.count ELSE s.length + 2 - Kept
RolledOnce(s) ==                                         \* mutant: never again
    IF s.length + 1 <= SummaryAfter \/ s.count > 0 THEN s.count ELSE s.length + 1 - Kept
Rolled(s) ==
    IF s.length + 1 <= SummaryAfter THEN s.count ELSE s.length + 1 - Kept

\* Where a post goes that meets an error.
AfterErrorSwallowed(q) ==                                \* mutant: not reported
    IF phase[q] = "assistant" THEN "done" ELSE "failed"
AfterError(q) == "failed"

(* append: the message and the summary are committed in one transaction.    *)
CommitMessage(q) ==
    /\ step[q] = "write"
    /\ messages' = Append(messages, [of |-> q, role |-> phase[q], parts |-> parts[q]])
    /\ summarized' = Rolled(snapshot[q])
    /\ step' = [step EXCEPT ![q] = "row"]
    /\ UNCHANGED <<snapshot, context, parts>>

Write(q) ==
    /\ CommitMessage(q)
    /\ phase' = [phase EXCEPT ![q] = IF @ = "user" THEN "stream" ELSE "done"]

(* The commit's acknowledgement is lost, and the store raises, or the client *)
(* leaves or the process stops meanwhile: the message is stored all the same. *)
WriteUnheard(q) ==
    /\ CommitMessage(q)
    /\ \E end \in {AfterError(q), "gone"} : phase' = [phase EXCEPT ![q] = end]

Deliver(q) ==
    /\ phase[q] = "stream" /\ parts[q] < Chunks
    /\ parts' = [parts EXCEPT ![q] = @ + 1]
    /\ UNCHANGED <<messages, summarized, phase, step, snapshot, context>>

\* The event stream of the run ended, with the whole answer or without any.
Exhausted(q) == parts[q] \in {0, Chunks}

(* An answer without text is not appended.                                  *)
Finish(q) ==
    /\ phase[q] = "stream" /\ Exhausted(q)
    /\ phase' = [phase EXCEPT ![q] = IF parts[q] > 0 THEN "assistant" ELSE "done"]
    /\ UNCHANGED <<messages, summarized, step, snapshot, context, parts>>

(* The run raised, or the store with nothing committed: run.failed, or an    *)
(* error response before the stream.                                        *)
Fail(q) ==
    /\ q \in Busy
    /\ phase' = [phase EXCEPT ![q] = AfterError(q)]
    /\ step' = [step EXCEPT ![q] = "row"]
    /\ UNCHANGED <<messages, summarized, snapshot, context, parts>>

(* The client disconnects or the process stops: nothing more is written.    *)
Leave(q) ==
    /\ q \in Busy
    /\ phase' = [phase EXCEPT ![q] = "gone"]
    /\ step' = [step EXCEPT ![q] = "row"]
    /\ UNCHANGED <<messages, summarized, snapshot, context, parts>>

ChatNext == \E q \in Posts :
    \/ Accept(q) \/ ReadRow(q) \/ ReadMessages(q) \/ Write(q) \/ WriteUnheard(q)
    \/ Deliver(q) \/ Finish(q) \/ Fail(q) \/ Leave(q)

ChatSpec == ChatInit /\ [][ChatNext]_chatVars
-----------------------------------------------------------------------------
(* Properties *)

\* Every variable has its type; no conversation has less than no summary.
ChatTypeOK ==
    /\ messages \in Seq([of : Posts, role : {"user", "assistant"}, parts : 0..Chunks])
    /\ summarized \in Nat
    /\ phase \in [Posts -> Phases]
    /\ step \in [Posts -> {"row", "messages", "write"}]
    /\ snapshot \in [Posts -> Snapshot]
    /\ context \in [Posts -> Snapshot]
    /\ parts \in [Posts -> 0..Chunks]

Saved(q) == \E i \in DOMAIN messages :
    messages[i].of = q /\ messages[i].role = "assistant"

\* What the conversation keeps and what the client was told agree: a run that
\* ended well has its answer stored, if it gave one; an answer is stored whole,
\* once, behind its question, and by a post that is over.  That a run failed says
\* nothing of the store, which may have lost the acknowledgement only.
OutcomeIsHonest ==
    /\ \A q \in Posts : /\ phase[q] = "done" => (Saved(q) <=> parts[q] > 0)
                        /\ Saved(q) => phase[q] \in Over
    /\ \A i, j \in DOMAIN messages : messages[i] = messages[j] => i = j
    /\ \A i \in DOMAIN messages : messages[i].role = "assistant" =>
         /\ messages[i].parts = Chunks
         /\ \E k \in 1..i : messages[k].of = messages[i].of /\ messages[k].role = "user"

\* Whatever appends interleave, the summary never reaches into the messages
\* that are sent verbatim, in the store or in any context.
SummaryIsOfThePast ==
    /\ summarized = 0 \/ summarized + Kept <= Len(messages)
    /\ \A q \in Posts :
         context[q].count = 0 \/ context[q].count + Kept <= context[q].length

\* Concurrent appends may leave a summary too short; the next append that runs
\* alone makes a long conversation's summary and its tail meet again.
LoneAppendHeals ==
    [][(/\ Len(messages') > SummaryAfter
        /\ \E q \in Posts : /\ step[q] = "write" /\ step'[q] = "row"
                            /\ snapshot[q].length = Len(messages)
                            /\ Len(messages') = Len(messages) + 1)
           => summarized' + Kept = Len(messages')]_chatVars

\* "retain recent turns plus a validated rolling summary"
\* (docs/architecture-plan.md): every message of a context is in its summary or
\* among the latest ones.
NothingForgotten ==
    \A q \in Posts : context[q].length <= context[q].count + Kept
=============================================================================
