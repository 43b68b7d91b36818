---------------------------- MODULE ProviderCalls ----------------------------
(***************************************************************************)
(* Calls of a model provider: texts are embedded in batches                 *)
(* (adapters/cloudflare/embeddings.py), every batch a request that takes a  *)
(* slot of the client's semaphore and keeps it through its retries and the  *)
(* pauses between them (adapters/retry.py).  One batch that fails answers   *)
(* its call; the others go on and nobody reads what they bring.             *)
(***************************************************************************)
EXTENDS Naturals, Sequences, FiniteSets, SequencesExt

CONSTANTS
    Embeds,       \* calls of embed
    Batches,      \* batches of a call
    BatchSize,    \* texts of a batch
    MaxAttempts,  \* retry_attempts
    Slots         \* max_concurrency

ASSUME ProviderAssumption ==
    /\ Batches \in Nat \ {0} /\ BatchSize \in Nat \ {0}
    /\ MaxAttempts \in Nat \ {0} /\ Slots \in Nat \ {0}
    /\ IsFiniteSet(Embeds)

VARIABLES
    batch,    \* of each batch its step, its attempt and its vectors
    free,     \* the slots that are free
    vectors,  \* what a call of embed returned
    outcome   \* whether it is running, has returned or has failed

providerVars == <<batch, free, vectors, outcome>>

Numbers == 1..Batches
Texts(n) == [i \in 1..BatchSize |-> <<n, i>>]
Idle == [step |-> "queued", attempt |-> 0, vectors |-> <<>>]
HoldsSlot(e, n) == batch[e][n].step \in {"asking", "sleeping"}

ProviderInit ==
    /\ batch = [e \in Embeds |-> [n \in Numbers |-> Idle]]
    /\ free = Slots
    /\ vectors = [e \in Embeds |-> <<>>]
    /\ outcome = [e \in Embeds |-> "new"]

(* embed: all its batches are started.                                      *)
EmbedStart(e) ==
    /\ outcome[e] = "new"
    /\ outcome' = [outcome EXCEPT ![e] = "running"]
    /\ UNCHANGED <<batch, free, vectors>>

TakeSlot(e, n) ==
    /\ outcome[e] \in {"running", "failed"} /\ batch[e][n].step = "queued" /\ free > 0
    /\ free' = free - 1
    /\ batch' = [batch EXCEPT ![e][n] = [@ EXCEPT !.step = "asking", !.attempt = 1]]
    /\ UNCHANGED <<vectors, outcome>>

\* The batch ends with vectors, if they are of as many texts as were sent, or
\* with an error that the call is answered with, if it is still waiting.
Succeed(e, n, vs) ==
    /\ batch' = [batch EXCEPT ![e][n] = [@ EXCEPT !.step = "done", !.vectors = vs]]
    /\ UNCHANGED outcome
Break(e, n) ==
    /\ batch' = [batch EXCEPT ![e][n].step = "failed"]
    /\ outcome' = [outcome EXCEPT ![e] = "failed"]

(* _embed_batch, of a response: its items come in any order, each with the   *)
(* index of its text.                                                       *)
OrderedAsSent(items) == [i \in DOMAIN items |-> items[i].vector]     \* mutant: no sort
Ordered(items) == [i \in DOMAIN items |-> (CHOOSE x \in Range(items) : x.index = i).vector]

Responses(n) ==
    {[i \in 1..k |-> [index |-> p[i], vector |-> Texts(n)[p[i]]]] :
        k \in {BatchSize - 1, BatchSize},
        p \in {q \in [1..BatchSize -> 1..BatchSize] : IsInjective(q)}}

Respond(e, n, items) ==
    /\ batch[e][n].step = "asking"
    /\ free' = free + 1
    /\ IF Len(items) = BatchSize THEN Succeed(e, n, Ordered(items)) ELSE Break(e, n)
    /\ UNCHANGED vectors

AskFailsFreeing(e, n, transient) ==            \* mutant: the slot is free in the pause
    /\ batch[e][n].step = "asking"
    /\ free' = free + 1
    /\ IF transient /\ batch[e][n].attempt < MaxAttempts
       THEN batch' = [batch EXCEPT ![e][n].step = "sleeping"] /\ UNCHANGED outcome
       ELSE Break(e, n)
    /\ UNCHANGED vectors
(* request_with_retry: a transient failure is slept over, with the slot      *)
(* held, unless it was the last attempt; any other is raised.               *)
AskFails(e, n, transient) ==
    /\ batch[e][n].step = "asking"
    /\ IF transient /\ batch[e][n].attempt < MaxAttempts
       THEN /\ batch' = [batch EXCEPT ![e][n].step = "sleeping"]
            /\ UNCHANGED <<free, outcome>>
       ELSE free' = free + 1 /\ Break(e, n)
    /\ UNCHANGED vectors

AskAgain(e, n) ==
    /\ batch[e][n].step = "sleeping"
    /\ batch' = [batch EXCEPT ![e][n] =
           [@ EXCEPT !.step = "asking", !.attempt = batch[e][n].attempt + 1]]
    /\ UNCHANGED <<free, vectors, outcome>>

\* gather: the batches' vectors, in the order of the batches.
EmbedReturn(e) ==
    /\ outcome[e] = "running" /\ \A n \in Numbers : batch[e][n].step = "done"
    /\ vectors' = [vectors EXCEPT ![e] = FlattenSeq([n \in Numbers |-> batch[e][n].vectors])]
    /\ outcome' = [outcome EXCEPT ![e] = "returned"]
    /\ UNCHANGED <<batch, free>>

\* The caller's own deadline cancels every batch that has not ended.
EmbedCancelled(e) ==
    /\ outcome[e] = "running"
    /\ outcome' = [outcome EXCEPT ![e] = "cancelled"]
    /\ free' = free + Cardinality({n \in Numbers : HoldsSlot(e, n)})
    /\ batch' = [batch EXCEPT ![e] = [n \in Numbers |->
                   IF batch[e][n].step = "done" THEN batch[e][n]
                   ELSE [batch[e][n] EXCEPT !.step = "failed"]]]
    /\ UNCHANGED vectors

ProviderNext == \E e \in Embeds :
    \/ EmbedStart(e) \/ EmbedReturn(e) \/ EmbedCancelled(e)
    \/ \E n \in Numbers :
         \/ TakeSlot(e, n) \/ AskAgain(e, n)
         \/ \E items \in Responses(n) : Respond(e, n, items)
         \/ \E transient \in BOOLEAN : AskFails(e, n, transient)

ProviderSpec == ProviderInit /\ [][ProviderNext]_providerVars
-----------------------------------------------------------------------------
(* Properties *)

ProviderTypeOK ==
    /\ \A e \in Embeds, n \in Numbers :
         /\ batch[e][n].step \in {"queued", "asking", "sleeping", "done", "failed"}
         /\ batch[e][n].attempt \in 0..MaxAttempts
    /\ free \in 0..Slots
    /\ outcome \in [Embeds -> {"new", "running", "returned", "failed", "cancelled"}]

\* Whatever order responses and their items come in, and whichever batches had
\* to be asked again, a call that returns gives every text its own vector.
VectorsMatchTexts ==
    \A e \in Embeds : outcome[e] = "returned" =>
        vectors[e] = FlattenSeq([n \in Numbers |-> Texts(n)])

\* Retries, failures and cancellations never lose a slot or lend one twice.
ProviderSlotsConserved ==
    free + Cardinality({x \in Embeds \X Numbers : HoldsSlot(x[1], x[2])}) = Slots
=============================================================================
