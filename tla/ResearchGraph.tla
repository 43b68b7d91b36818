---------------------------- MODULE ResearchGraph ----------------------------
(***************************************************************************)
(* The research route of the assistant (research/runtime.py): the LangGraph *)
(* graph plan -> discover -> partition -> worker* -> reduce -> [retry_gaps  *)
(* -> reduce] -> compose, for several runs of one process.  The runs share  *)
(* the worker semaphore; every run has a wall-clock deadline of its own and *)
(* a deadline for its workers that the plan fixes.                          *)
(*                                                                         *)
(* Data is abstracted: a document stands for the evidence items that carry  *)
(* its id (partition never separates them), a finding is a normalised key   *)
(* with the documents it cites.  Time is counted in ticks per run; a node   *)
(* that awaits nothing takes no time.                                       *)
(***************************************************************************)
EXTENDS Naturals, Sequences, FiniteSets

CONSTANTS
    Runs,           \* the requests in flight in one process
    Docs,           \* document ids, ordered as the strings are sorted
    Keys,           \* normalised finding keys
    BatchSizes,     \* batch sizes a plan may ask for
    MaxChildren,    \* RunBudget.max_children
    MaxDepth,       \* RunBudget.max_depth
    MaxModelCalls,  \* RunBudget.max_model_calls
    MaxConcurrency, \* slots of the worker semaphore
    PlanWindow,     \* ticks from the plan to the workers' deadline
    RunDeadline,    \* ticks a run may take
    PlanLatency,    \* longest model call of the planner, in ticks
    Checkpointed,   \* TRUE when a durable checkpointer is configured
    MaxSends        \* how often one request id is sent

ASSUME ResearchAssumption ==
    /\ Docs \subseteq Nat /\ IsFiniteSet(Docs)
    /\ IsFiniteSet(Runs)
    /\ BatchSizes \subseteq Nat \ {0}
    /\ MaxChildren \in Nat \ {0}
    /\ MaxDepth \in Nat
    /\ MaxModelCalls \in Nat /\ 1 + MaxChildren <= MaxModelCalls
    /\ MaxConcurrency \in Nat \ {0}
    /\ PlanWindow \in Nat /\ RunDeadline \in Nat /\ PlanLatency \in Nat
    /\ Checkpointed \in BOOLEAN
    /\ MaxSends \in Nat \ {0}

VARIABLES
    pc,        \* the node a run is in
    sends,     \* how often the request was sent
    age,       \* ticks since the run began
    due,       \* the workers' deadline, in ticks of age
    evidence,  \* documents the discovery returned
    batches,   \* the partition: a sequence of sets of documents
    work,      \* the fan-out in progress: what became of each batch
    outcomes,  \* the append-reduced channel of worker outcomes
    findings,  \* the reducer's findings
    selected,  \* the reducer's evidence
    depth,     \* recursion_depth
    answer,    \* final_answer
    events,    \* the append-reduced channel of activity events
    calls,     \* model calls of the run (history)
    free       \* free slots of the semaphore

vars == <<pc, sends, age, due, evidence, batches, work, outcomes, findings,
          selected, depth, answer, events, calls, free>>
channels == <<evidence, batches, outcomes, findings, selected, depth, answer,
              events>>

-----------------------------------------------------------------------------
(* Values *)

Children == 1..MaxChildren
NoFindings == [k \in Keys |-> {}]
Finding == [key : Keys, cites : SUBSET Docs]

\* What a batch of a fan-out is doing, or what became of it.
Off     == [st |-> "off", found |-> NoFindings, docs |-> {}]
Waiting == [st |-> "waiting", found |-> NoFindings, docs |-> {}]
Running == [st |-> "running", found |-> NoFindings, docs |-> {}]
Failure == [st |-> "failure", found |-> NoFindings, docs |-> {}]
Success(found, docs) == [st |-> "success", found |-> found, docs |-> docs]
Child == [st : {"off", "waiting", "running", "failure", "success"},
          found : [Keys -> SUBSET Docs], docs : SUBSET Docs]
AllOff == [b \in Children |-> Off]

\* One fan-out's contribution to the outcomes channel.  The channel is a list
\* of outcomes; a fan-out adds at most one per batch and only outcomes of the
\* same batch are ever compared, so the list is kept as a list of fan-outs.
Round == [attempt : 0..1, of : [Children -> Child]]

NoAnswer == [claims |-> {}, incomplete |-> FALSE, docs |-> {}]
SafeAnswer(docs) == [claims |-> {}, incomplete |-> TRUE, docs |-> docs]

Nodes == {"idle", "plan", "discover", "partition", "worker", "reduce",
          "retry_gaps", "retrying", "compose", "done", "failed"}
Ended == {"done", "failed"}
Active(r) == pc[r] \notin Ended \cup {"idle"}
Held == {h \in Runs \X Children : work[h[1]][h[2]].st = "running"}
PendingOf(r) == {b \in Children : work[r][b].st \in {"waiting", "running"}}

(* _events: the sequence number of a new event is its place in the list.   *)
EmitFromZero(log, types) ==                  \* mutant: every node counts from 0
    log \o [i \in 1..Len(types) |-> [seq |-> i - 1, type |-> types[i]]]
Emit(log, types) ==
    log \o [i \in 1..Len(types) |-> [seq |-> Len(log) + i - 1, type |-> types[i]]]

(* partition: the sorted ids, `size` at a time, cut to max_children.       *)
Rank(ds, d) == Cardinality({e \in ds : e < d})
BatchCount(ds, size) == (Cardinality(ds) + size - 1) \div size
Partitioned(ds, size) ==
    [b \in {c \in Children : c <= BatchCount(ds, size)} |->
        {d \in ds : Rank(ds, d) \div size = b - 1}]

(* ModelResearchWorker.analyze keeps what cites the batch's evidence only. *)
AuthorizedUnfiltered(draft, docs) == draft   \* mutant: no filter
Authorized(draft, docs) ==
    [k \in Keys |-> IF draft[k] \subseteq docs THEN draft[k] ELSE {}]

(* reduce sorts by (batch_id, attempt); the sort is stable, the last wins. *)
PrecedesFirstAttempt(os, j, i) == os[i].attempt <= os[j].attempt  \* mutant
Precedes(os, j, i) ==
    \/ os[j].attempt < os[i].attempt
    \/ os[j].attempt = os[i].attempt /\ j <= i
LatestByAttempt(os, b) ==
    {i \in DOMAIN os : /\ os[i].of[b].st # "off"
                       /\ \A j \in DOMAIN os :
                            os[j].of[b].st # "off" => Precedes(os, j, i)}

(* retry_gaps and compose keep the last outcome in list order.             *)
LatestByArrival(os, b) ==
    {i \in DOMAIN os : /\ os[i].of[b].st # "off"
                       /\ \A j \in DOMAIN os : os[j].of[b].st # "off" => j <= i}
FailedBatches(os) ==
    {b \in Children : \E i \in LatestByArrival(os, b) : os[i].of[b].st = "failure"}

ReducedAllOrNothing(os) ==                   \* mutant: a failure discards siblings
    IF FailedBatches(os) # {} THEN {}
    ELSE UNION {{os[i].of[b] : i \in LatestByAttempt(os, b)} : b \in Children} \ {Off}
Reduced(os) ==
    {c \in UNION {{os[i].of[b] : i \in LatestByAttempt(os, b)} : b \in Children} :
        c.st = "success"}
Grouped(os) ==
    {f \in {[key |-> k, cites |-> UNION {c.found[k] : c \in Reduced(os)}] : k \in Keys} :
        f.cites # {}}
MergedEvidence(os) == UNION {c.docs : c \in Reduced(os)}

-----------------------------------------------------------------------------
(* Actions *)

Init ==
    /\ pc = [r \in Runs |-> "idle"]
    /\ sends = [r \in Runs |-> 0]
    /\ age = [r \in Runs |-> 0]
    /\ due = [r \in Runs |-> 0]
    /\ evidence = [r \in Runs |-> {}]
    /\ batches = [r \in Runs |-> <<>>]
    /\ work = [r \in Runs |-> AllOff]
    /\ outcomes = [r \in Runs |-> <<>>]
    /\ findings = [r \in Runs |-> {}]
    /\ selected = [r \in Runs |-> {}]
    /\ depth = [r \in Runs |-> 0]
    /\ answer = [r \in Runs |-> NoAnswer]
    /\ events = [r \in Runs |-> <<>>]
    /\ calls = [r \in Runs |-> 0]
    /\ free = MaxConcurrency

(* run(): a request id that is sent again finds its old thread when a       *)
(* durable checkpointer keeps it, and empty channels otherwise.             *)
Begin(r) ==
    /\ pc[r] \in Ended \cup {"idle"}
    /\ sends[r] < MaxSends
    /\ sends' = [sends EXCEPT ![r] = @ + 1]
    /\ pc' = [pc EXCEPT ![r] = "plan"]
    /\ age' = [age EXCEPT ![r] = 0]
    /\ calls' = [calls EXCEPT ![r] = 1]
    /\ IF Checkpointed
       THEN UNCHANGED channels
       ELSE /\ evidence' = [evidence EXCEPT ![r] = {}]
            /\ batches' = [batches EXCEPT ![r] = <<>>]
            /\ outcomes' = [outcomes EXCEPT ![r] = <<>>]
            /\ findings' = [findings EXCEPT ![r] = {}]
            /\ selected' = [selected EXCEPT ![r] = {}]
            /\ depth' = [depth EXCEPT ![r] = 0]
            /\ answer' = [answer EXCEPT ![r] = NoAnswer]
            /\ events' = [events EXCEPT ![r] = <<>>]
    /\ UNCHANGED <<due, work, free>>

\* The workers' deadline a plan fixes.
WorkerDeadlineOfRun(r) == RunDeadline        \* mutant: no smaller deadline
WorkerDeadline(r) == age[r] + PlanWindow

(* plan: any failure of the model yields the fallback plan.                *)
Plan(r) ==
    /\ pc[r] = "plan"
    /\ due' = [due EXCEPT ![r] = WorkerDeadline(r)]
    /\ depth' = [depth EXCEPT ![r] = 0]
    /\ events' = [events EXCEPT ![r] = Emit(@,
         <<"run.started", "node.started", "research.planned", "node.completed">>)]
    /\ pc' = [pc EXCEPT ![r] = "discover"]
    /\ UNCHANGED <<sends, age, evidence, batches, work, outcomes, findings,
                   selected, answer, calls, free>>

(* discover: a query that fails contributes nothing; a question about       *)
(* causes may narrow what was found.                                        *)
Discover(r) ==
    /\ pc[r] = "discover"
    /\ \E found \in SUBSET Docs : evidence' = [evidence EXCEPT ![r] = found]
    /\ events' = [events EXCEPT ![r] = Emit(@,
         <<"node.started", "retrieval.started", "retrieval.completed", "node.completed">>)]
    /\ pc' = [pc EXCEPT ![r] = "partition"]
    /\ UNCHANGED <<sends, age, due, batches, work, outcomes, findings, selected,
                   depth, answer, calls, free>>

(* partition, and dispatch_workers on its edge.                            *)
Partition(r) ==
    /\ pc[r] = "partition"
    /\ \E size \in BatchSizes :
         LET bs == Partitioned(evidence[r], size) IN
         /\ batches' = [batches EXCEPT ![r] = bs]
         /\ work' = [work EXCEPT ![r] =
                [b \in Children |-> IF b \in DOMAIN bs THEN Waiting ELSE Off]]
         /\ pc' = [pc EXCEPT ![r] = IF DOMAIN bs = {} THEN "compose" ELSE "worker"]
    /\ events' = [events EXCEPT ![r] = Emit(@, <<"node.started", "node.completed">>)]
    /\ UNCHANGED <<sends, age, due, evidence, outcomes, findings, selected,
                   depth, answer, calls, free>>

(* _analyze: a slot is acquired inside the deadline's timeout.             *)
StartWorker(r, b) ==
    /\ work[r][b].st = "waiting"
    /\ age[r] < due[r]
    /\ free > 0
    /\ free' = free - 1
    /\ work' = [work EXCEPT ![r][b] = Running]
    /\ calls' = [calls EXCEPT ![r] = @ + 1]
    /\ UNCHANGED <<pc, sends, age, due, channels>>

(* _analyze: the model answered; what it cites may be anything.            *)
FinishWorker(r, b) ==
    /\ work[r][b].st = "running"
    /\ \E draft \in [Keys -> SUBSET Docs] :
         LET kept == Authorized(draft, batches[r][b]) IN
         work' = [work EXCEPT ![r][b] =
             IF kept = NoFindings THEN Failure ELSE Success(kept, batches[r][b])]
    /\ free' = free + 1
    /\ UNCHANGED <<pc, sends, age, due, channels, calls>>

\* The timeout surrounds the wait for the slot as well as the call.
UnderTimeoutCallOnly(r, b) == work[r][b].st = "running"           \* mutant
UnderTimeout(r, b) == work[r][b].st \in {"waiting", "running"}

(* _analyze: the deadline passed, before the slot or while it was held.    *)
ExpireWorker(r, b) ==
    /\ UnderTimeout(r, b)
    /\ age[r] >= due[r]
    /\ work' = [work EXCEPT ![r][b] = Failure]
    /\ free' = IF work[r][b].st = "running" THEN free + 1 ELSE free
    /\ UNCHANGED <<pc, sends, age, due, channels, calls>>

(* The fan-out ends when its last worker does.                             *)
JoinWorkers(r) ==
    /\ pc[r] = "worker"
    /\ PendingOf(r) = {}
    /\ outcomes' = [outcomes EXCEPT ![r] = Append(@, [attempt |-> 0, of |-> work[r]])]
    /\ work' = [work EXCEPT ![r] = AllOff]
    /\ pc' = [pc EXCEPT ![r] = "reduce"]
    /\ UNCHANGED <<sends, age, due, evidence, batches, findings, selected, depth,
                   answer, events, calls, free>>

RouteAfterReduceUnbounded(r) ==              \* mutant: recursion is not bounded
    IF FailedBatches(outcomes[r]) # {} THEN "retry_gaps" ELSE "compose"
RouteAfterReduce(r) ==
    LET failures == \E i \in DOMAIN outcomes[r], b \in Children :
                       outcomes[r][i].of[b].st = "failure"
    IN  IF failures /\ depth[r] < MaxDepth THEN "retry_gaps" ELSE "compose"

(* reduce, and route_after_reduce on its edge.                             *)
Reduce(r) ==
    /\ pc[r] = "reduce"
    /\ findings' = [findings EXCEPT ![r] = Grouped(outcomes[r])]
    /\ selected' = [selected EXCEPT ![r] = MergedEvidence(outcomes[r])]
    /\ events' = [events EXCEPT ![r] = Emit(@, <<"research.batches_completed">>)]
    /\ pc' = [pc EXCEPT ![r] = RouteAfterReduce(r)]
    /\ UNCHANGED <<sends, age, due, evidence, batches, work, outcomes, depth,
                   answer, calls, free>>

(* retry_gaps: the failed batches, in order, as far as the calls allow.    *)
RetriedUncapped(r) == FailedBatches(outcomes[r]) \cap DOMAIN batches[r]  \* mutant
Retried(r) ==
    LET gaps == FailedBatches(outcomes[r]) \cap DOMAIN batches[r]
        remaining == IF MaxModelCalls > 1 + Cardinality(DOMAIN batches[r])
                     THEN MaxModelCalls - (1 + Cardinality(DOMAIN batches[r]))
                     ELSE 0
    IN  {b \in gaps : Cardinality({c \in gaps : c < b}) < remaining}

RetryGaps(r) ==
    /\ pc[r] = "retry_gaps"
    /\ work' = [work EXCEPT ![r] =
           [b \in Children |-> IF b \in Retried(r) THEN Waiting ELSE Off]]
    /\ pc' = [pc EXCEPT ![r] = "retrying"]
    /\ UNCHANGED <<sends, age, due, channels, calls, free>>

JoinRetries(r) ==
    /\ pc[r] = "retrying"
    /\ PendingOf(r) = {}
    /\ outcomes' = [outcomes EXCEPT ![r] = Append(@, [attempt |-> 1, of |-> work[r]])]
    /\ work' = [work EXCEPT ![r] = AllOff]
    /\ depth' = [depth EXCEPT ![r] = @ + 1]
    /\ events' = [events EXCEPT ![r] = Emit(@, <<"research.recursion">>)]
    /\ pc' = [pc EXCEPT ![r] = "reduce"]
    /\ UNCHANGED <<sends, age, due, evidence, batches, findings, selected,
                   answer, calls, free>>

(* compose: the findings as claims when every citation is selected.        *)
Compose(r) ==
    /\ pc[r] = "compose"
    /\ LET valid == /\ findings[r] # {}
                    /\ \A f \in findings[r] : f.cites \subseteq selected[r]
           incomplete == FailedBatches(outcomes[r]) # {}
       IN  answer' = [answer EXCEPT ![r] =
               IF valid
               THEN [claims |-> findings[r], incomplete |-> incomplete,
                     docs |-> selected[r]]
               ELSE SafeAnswer(selected[r])]
    /\ events' = [events EXCEPT ![r] = Emit(@,
         <<"answer.delta", "validation.completed", "answer.completed", "run.completed">>)]
    /\ pc' = [pc EXCEPT ![r] = "done"]
    /\ UNCHANGED <<sends, age, due, evidence, batches, work, outcomes, findings,
                   selected, depth, calls, free>>

SlotsHeldForgotten(r) == 0                   \* mutant: cancellation leaks slots
SlotsHeld(r) == Cardinality({h \in Held : h[1] = r})
TimedOutInWorkers(r) ==                      \* mutant: discovery is not covered
    pc[r] \in {"worker", "retrying"} /\ age[r] >= RunDeadline
TimedOut(r) == Active(r) /\ age[r] >= RunDeadline

(* run(): asyncio.timeout cancels the graph and everything it awaits.      *)
RunTimeout(r) ==
    /\ TimedOut(r)
    /\ pc' = [pc EXCEPT ![r] = "failed"]
    /\ free' = free + SlotsHeld(r)
    /\ work' = [work EXCEPT ![r] = AllOff]
    /\ UNCHANGED <<sends, age, due, channels, calls>>

(* Time passes while every run awaits something: a node that computes, a   *)
(* deadline that is due, and a planner at its longest let none pass.       *)
Awaiting(r) ==
    \/ pc[r] = "plan" /\ age[r] < PlanLatency
    \/ pc[r] = "discover"
    \/ pc[r] \in {"worker", "retrying"} /\ PendingOf(r) # {} /\ age[r] < due[r]
Tick ==
    /\ \E r \in Runs : Active(r)
    /\ \A r \in Runs : Active(r) => Awaiting(r) /\ age[r] < RunDeadline
    /\ age' = [r \in Runs |-> IF Active(r) THEN age[r] + 1 ELSE age[r]]
    /\ UNCHANGED <<pc, sends, due, work, channels, calls, free>>

Node(r) ==
    \/ Plan(r) \/ Discover(r) \/ Partition(r) \/ JoinWorkers(r) \/ Reduce(r)
    \/ RetryGaps(r) \/ JoinRetries(r) \/ Compose(r)

Next ==
    \/ Tick
    \/ \E r \in Runs :
         \/ Begin(r) \/ Node(r) \/ RunTimeout(r)
         \/ \E b \in Children :
              StartWorker(r, b) \/ FinishWorker(r, b) \/ ExpireWorker(r, b)

Spec == Init /\ [][Next]_vars

(* The event loop runs what is ready and timers fire, and the chat client's *)
(* own timeouts end the planner's call.  Searches and workers may hang:     *)
(* nothing is assumed of Discover, StartWorker and FinishWorker.            *)
Fairness ==
    /\ WF_vars(Tick)
    /\ \A r \in Runs :
         /\ WF_vars(Plan(r))
         /\ WF_vars(Partition(r) \/ JoinWorkers(r) \/ Reduce(r) \/ RetryGaps(r)
                    \/ JoinRetries(r) \/ Compose(r))
         /\ WF_vars(RunTimeout(r))
         /\ \A b \in Children : WF_vars(ExpireWorker(r, b))
FairSpec == Spec /\ Fairness
-----------------------------------------------------------------------------
(* Properties *)

EventTypes == {"run.started", "node.started", "node.completed", "research.planned",
               "retrieval.started", "retrieval.completed", "research.recursion",
               "research.batches_completed", "answer.delta", "validation.completed",
               "answer.completed", "run.completed"}

\* Every variable has its type; a run never recurses deeper than its budget.
TypeOK ==
    /\ pc \in [Runs -> Nodes]
    /\ sends \in [Runs -> 0..MaxSends]
    /\ age \in [Runs -> 0..RunDeadline]
    /\ due \in [Runs -> 0..(RunDeadline + PlanWindow)]
    /\ evidence \in [Runs -> SUBSET Docs]
    /\ batches \in [Runs -> UNION {[bs -> SUBSET Docs] : bs \in SUBSET Children}]
    /\ work \in [Runs -> [Children -> Child]]
    /\ outcomes \in [Runs -> Seq(Round)]
    /\ findings \in [Runs -> SUBSET Finding]
    /\ selected \in [Runs -> SUBSET Docs]
    /\ depth \in [Runs -> 0..MaxDepth]
    /\ answer \in [Runs -> [claims : SUBSET Finding, incomplete : BOOLEAN, docs : SUBSET Docs]]
    /\ events \in [Runs -> Seq([seq : Nat, type : EventTypes])]
    /\ calls \in [Runs -> Nat]
    /\ free \in 0..MaxConcurrency

\* The shared semaphore loses no slot and lends none twice, whatever worker
\* answers, expires or is cancelled with its run.
SlotsConserved == free + Cardinality(Held) = MaxConcurrency

\* The planner, the fan-out and the retry together never make more model
\* calls than the plan's budget (ADR-0004: hard limits for model calls).
BudgetRespected == \A r \in Runs : calls[r] <= MaxModelCalls

\* An answer that is not marked incomplete covers every batch of the run:
\* a failed batch is answered for by its retry or by the mark.
CompleteMeansCovered ==
    \A r \in Runs : pc[r] = "done" /\ ~answer[r].incomplete =>
        \A b \in DOMAIN batches[r] : batches[r][b] \subseteq answer[r].docs

\* What a worker found stays in the answer whatever became of its siblings.
SiblingsSurvive ==
    \A r \in Runs : pc[r] = "done" =>
        \A i \in DOMAIN outcomes[r], b \in Children, k \in Keys :
            outcomes[r][i].of[b].found[k] # {} =>
                \E f \in answer[r].claims :
                    f.key = k /\ outcomes[r][i].of[b].found[k] \subseteq f.cites

\* A claim cites a document only if the worker that was given the document
\* cited it for that claim, and the answer carries the document.
CitationsWereRead ==
    \A r \in Runs : \A f \in answer[r].claims, d \in Docs : d \in f.cites =>
        /\ d \in answer[r].docs \cap evidence[r]
        /\ \E i \in DOMAIN outcomes[r], b \in DOMAIN batches[r] :
              d \in batches[r][b] /\ d \in outcomes[r][i].of[b].found[f.key]

\* The events of a finished run are numbered without gap or repetition, begin
\* with run.started and hold one run.completed, at the end.
StreamWellFormed ==
    \A r \in Runs : pc[r] = "done" =>
        /\ \A i \in DOMAIN events[r] : events[r][i].seq = i - 1
        /\ events[r][1].type = "run.started"
        /\ {i \in DOMAIN events[r] : events[r][i].type = "run.completed"} = {Len(events[r])}

\* The run's deadline never takes back what a worker of the run achieved: the
\* workers' deadline is the smaller one (docs/reliability.md, runtime policy).
NoSuccessDiscarded ==
    [][\A r \in Runs : pc[r] # "failed" /\ pc'[r] = "failed" =>
          /\ \A b \in Children : work[r][b].st # "success"
          /\ \A i \in DOMAIN outcomes[r], b \in Children :
                outcomes[r][i].of[b].st # "success"]_vars

\* Every run ends, whatever search or worker hangs.
EveryRunEnds == \A r \in Runs : Active(r) ~> pc[r] \in Ended

\* Workers that hang, or wait for slots that others' hanging workers hold, do
\* not keep a run from its answer when their deadline is the smaller one.
HungWorkersAreAnswered ==
    \A r \in Runs :
        (pc[r] = "worker" /\ due[r] < RunDeadline /\ age[r] < RunDeadline) ~> pc[r] = "done"

=============================================================================
