--------------------------- MODULE ResearchProofs ---------------------------
(***************************************************************************)
(* Proofs about ResearchGraph for any number of runs, documents, keys,      *)
(* workers and slots, and any length of the deadlines.                      *)
(***************************************************************************)
EXTENDS ResearchGraph, FiniteSetTheorems, SequenceTheorems, WellFoundedInduction, TLAPS

Event == [seq : Nat, type : EventTypes]
Partitions == UNION {[bs -> SUBSET Docs] : bs \in SUBSET Children}

-----------------------------------------------------------------------------
(* What the helpers return.                                                *)

\* A node's events make the channel a longer list of events.
LEMMA EmitType ==
    ASSUME NEW log \in Seq(Event), NEW types \in Seq(EventTypes)
    PROVE  Emit(log, types) \in Seq(Event)
<1>1. Len(log) \in Nat /\ Len(types) \in Nat
    OBVIOUS
<1>2. [i \in 1..Len(types) |-> [seq |-> Len(log) + i - 1, type |-> types[i]]] \in Seq(Event)
    <2>1. \A i \in 1..Len(types) : /\ types[i] \in EventTypes
                                   /\ Len(log) + i - 1 \in Nat
        BY <1>1
    <2>2. \A i \in 1..Len(types) : [seq |-> Len(log) + i - 1, type |-> types[i]] \in Event
        BY <2>1 DEF Event
    <2> QED BY <1>1, <2>2
<1> QED BY <1>2, ConcatProperties DEF Emit

\* The partition gives sets of documents to some of the batches.
LEMMA PartitionedType ==
    ASSUME NEW ds \in SUBSET Docs, NEW size \in Nat
    PROVE  Partitioned(ds, size) \in Partitions
<1> DEFINE bs == {c \in Children : c <= BatchCount(ds, size)}
<1>1. bs \in SUBSET Children
    OBVIOUS
<1>2. Partitioned(ds, size) \in [bs -> SUBSET Docs]
    BY DEF Partitioned
<1> QED BY <1>1, <1>2 DEF Partitions

\* What a worker may keep is what it was given.
LEMMA AuthorizedType ==
    ASSUME NEW draft \in [Keys -> SUBSET Docs], NEW docs \in SUBSET Docs
    PROVE  Authorized(draft, docs) \in [Keys -> SUBSET Docs]
BY DEF Authorized

\* The outcomes of a channel are children.
LEMMA OutcomeType ==
    ASSUME NEW os \in Seq(Round), NEW i \in DOMAIN os, NEW b \in Children
    PROVE  os[i].of[b] \in Child
<1>1. os[i] \in Round
    OBVIOUS
<1> QED BY <1>1 DEF Round

\* The reducer's findings and evidence are made of the outcomes'.
LEMMA ReducedType ==
    ASSUME NEW os \in Seq(Round)
    PROVE  Grouped(os) \subseteq Finding /\ MergedEvidence(os) \subseteq Docs
<1>1. ASSUME NEW c \in Reduced(os) PROVE c \in Child
    <2>1. PICK b \in Children, i \in DOMAIN os : c = os[i].of[b]
        BY <1>1 DEF Reduced, LatestByAttempt
    <2> QED BY <2>1, OutcomeType
<1>2. MergedEvidence(os) \subseteq Docs
    BY <1>1 DEF MergedEvidence, Child
<1>3. ASSUME NEW k \in Keys PROVE UNION {c.found[k] : c \in Reduced(os)} \in SUBSET Docs
    BY <1>1 DEF Child
<1>4. Grouped(os) \subseteq Finding
    BY <1>3 DEF Grouped, Finding
<1> QED BY <1>2, <1>4

\* Children that wait, failed or succeeded are children.
LEMMA ChildTypes ==
    /\ Off \in Child /\ Waiting \in Child /\ Running \in Child /\ Failure \in Child
    /\ AllOff \in [Children -> Child]
    /\ \A f \in [Keys -> SUBSET Docs], ds \in SUBSET Docs : Success(f, ds) \in Child
BY DEF Off, Waiting, Running, Failure, AllOff, Success, Child, NoFindings

-----------------------------------------------------------------------------
(* The slots of the semaphore.                                             *)

\* Only finitely many workers hold slots.
LEMMA HeldFinite ==
    /\ \A S : S \subseteq Runs \X Children => IsFiniteSet(S)
    /\ IsFiniteSet(Held)
<1>1. IsFiniteSet(Children)
    BY FS_Interval, ResearchAssumption DEF Children, ResearchAssumption
<1>2. IsFiniteSet(Runs \X Children)
    BY <1>1, FS_Product, ResearchAssumption DEF ResearchAssumption
<1>3. \A S : S \subseteq Runs \X Children => IsFiniteSet(S)
    BY <1>2, FS_Subset
<1>4. Held \subseteq Runs \X Children
    BY DEF Held
<1> QED BY <1>3, <1>4

\* A step that starts, ends and cancels no call of a worker holds the same slots.
LEMMA HeldSame ==
    ASSUME \A r \in Runs, b \in Children :
               work'[r][b].st = "running" <=> work[r][b].st = "running"
    PROVE  Held' = Held
BY DEF Held

\* A call that begins takes one slot, one that ends gives one back.
LEMMA HeldOne ==
    ASSUME work \in [Runs -> [Children -> Child]], NEW r \in Runs, NEW b \in Children,
           NEW c \in Child, work' = [work EXCEPT ![r][b] = c]
    PROVE  /\ work[r][b].st # "running" /\ c.st = "running" =>
                Cardinality(Held') = Cardinality(Held) + 1
           /\ work[r][b].st = "running" /\ c.st # "running" =>
                Cardinality(Held') = Cardinality(Held) - 1
           /\ work[r][b].st # "running" /\ c.st # "running" => Held' = Held
<1>1. \A h \in Runs \X Children : h # <<r, b>> => work'[h[1]][h[2]] = work[h[1]][h[2]]
    OBVIOUS
<1>2. work'[r][b] = c
    OBVIOUS
<1>3. ASSUME work[r][b].st # "running", c.st = "running"
      PROVE  Cardinality(Held') = Cardinality(Held) + 1
    <2>1. Held' = Held \cup {<<r, b>>} /\ <<r, b>> \notin Held
        BY <1>1, <1>2, <1>3 DEF Held
    <2> QED BY <2>1, HeldFinite, FS_AddElement
<1>4. ASSUME work[r][b].st = "running", c.st # "running"
      PROVE  Cardinality(Held') = Cardinality(Held) - 1
    <2>1. Held' = Held \ {<<r, b>>} /\ <<r, b>> \in Held
        BY <1>1, <1>2, <1>4 DEF Held
    <2> QED BY <2>1, HeldFinite, FS_RemoveElement
<1>5. ASSUME work[r][b].st # "running", c.st # "running" PROVE Held' = Held
    BY <1>1, <1>2, <1>5 DEF Held
<1> QED BY <1>3, <1>4, <1>5

\* A run that is cancelled gives back the slots of its own workers.
LEMMA HeldCancelled ==
    ASSUME work \in [Runs -> [Children -> Child]], NEW r \in Runs,
           work' = [work EXCEPT ![r] = AllOff]
    PROVE  Cardinality(Held') = Cardinality(Held) - SlotsHeld(r)
<1> DEFINE own == {h \in Held : h[1] = r}
<1>1. Held' = Held \ own
    <2>1. \A b \in Children : work'[r][b].st # "running"
        BY DEF AllOff, Off
    <2>2. \A q \in Runs, b \in Children : q # r => work'[q][b] = work[q][b]
        OBVIOUS
    <2> QED BY <2>1, <2>2 DEF Held
<1>2. Held \cap own = own
    OBVIOUS
<1>3. SlotsHeld(r) = Cardinality(own)
    BY DEF SlotsHeld
<1> HIDE DEF own
<1>4. Cardinality(Held \ own) = Cardinality(Held) - Cardinality(Held \cap own)
    BY HeldFinite, FS_Difference
<1> QED BY <1>1, <1>2, <1>3, <1>4

-----------------------------------------------------------------------------
(* The inductive invariant.  That no slot is lost rests on what a run's      *)
(* workers do while the run is elsewhere: nothing.                          *)

WorkersRest ==
    \A r \in Runs : pc[r] \notin {"worker", "retrying"} => work[r] = AllOff
WorkersHaveBatches ==
    \A r \in Runs, b \in Children : work[r][b].st # "off" => b \in DOMAIN batches[r]
RecursionLeft ==
    \A r \in Runs : pc[r] \in {"retry_gaps", "retrying"} => depth[r] < MaxDepth

IInv == TypeOK /\ SlotsConserved /\ WorkersRest /\ WorkersHaveBatches /\ RecursionLeft

\* A worker that runs has a batch of documents.
LEMMA BatchType ==
    ASSUME TypeOK, WorkersHaveBatches, NEW r \in Runs, NEW b \in Children,
           work[r][b].st # "off"
    PROVE  batches[r][b] \in SUBSET Docs
<1>1. PICK bs \in SUBSET Children : batches[r] \in [bs -> SUBSET Docs]
    BY DEF TypeOK
<1>2. b \in DOMAIN batches[r]
    BY DEF WorkersHaveBatches
<1> QED BY <1>1, <1>2

\* A run begins with nothing under way.
LEMMA InvInit == Init => IInv
<1> SUFFICES ASSUME Init PROVE IInv
    OBVIOUS
<1> USE ResearchAssumption DEF ResearchAssumption
<1>1. Held = {}
    BY DEF Init, Held, AllOff, Off
<1>2. SlotsConserved
    BY <1>1, FS_EmptySet DEF SlotsConserved, Init
<1>3. <<>> \in Partitions
    <2>1. <<>> \in [{} -> SUBSET Docs]
        OBVIOUS
    <2> QED BY <2>1 DEF Partitions
<1>4. TypeOK
    <2>1. \A S : <<>> \in Seq(S)
        BY EmptySeq
    <2>2. /\ outcomes \in [Runs -> Seq(Round)]
          /\ events \in [Runs -> Seq([seq : Nat, type : EventTypes])]
        BY <2>1 DEF Init
    <2>3. batches \in [Runs -> UNION {[bs -> SUBSET Docs] : bs \in SUBSET Children}]
        BY <1>3 DEF Init, Partitions
    <2>4. /\ answer \in [Runs -> [claims : SUBSET Finding, incomplete : BOOLEAN,
                                  docs : SUBSET Docs]]
          /\ work \in [Runs -> [Children -> Child]]
        BY ChildTypes DEF Init, NoAnswer
    <2>5. /\ evidence \in [Runs -> SUBSET Docs]
          /\ selected \in [Runs -> SUBSET Docs]
          /\ findings \in [Runs -> SUBSET Finding]
        BY DEF Init
    <2>6. /\ pc \in [Runs -> Nodes]
          /\ sends \in [Runs -> 0..MaxSends]
          /\ age \in [Runs -> 0..RunDeadline]
          /\ due \in [Runs -> 0..(RunDeadline + PlanWindow)]
          /\ depth \in [Runs -> 0..MaxDepth]
          /\ calls \in [Runs -> Nat]
          /\ free \in 0..MaxConcurrency
        BY DEF Init, Nodes
    <2> QED BY <2>2, <2>3, <2>4, <2>5, <2>6 DEF TypeOK
<1>5. WorkersRest /\ WorkersHaveBatches /\ RecursionLeft
    BY DEF Init, WorkersRest, WorkersHaveBatches, RecursionLeft, AllOff, Off
<1> QED BY <1>2, <1>4, <1>5 DEF IInv

\* What a worker leaves behind is a child that holds no slot.
LEMMA FinishedType ==
    ASSUME TypeOK, WorkersHaveBatches, NEW r \in Runs, NEW b \in Children, FinishWorker(r, b)
    PROVE  \E c \in Child : c.st # "running" /\ work' = [work EXCEPT ![r][b] = c]
<1>1. PICK draft \in [Keys -> SUBSET Docs] :
         LET kept == Authorized(draft, batches[r][b]) IN
         work' = [work EXCEPT ![r][b] =
            IF kept = NoFindings THEN Failure ELSE Success(kept, batches[r][b])]
    BY DEF FinishWorker
<1> DEFINE kept == Authorized(draft, batches[r][b])
           c == IF kept = NoFindings THEN Failure ELSE Success(kept, batches[r][b])
<1>2. batches[r][b] \in SUBSET Docs
    BY BatchType DEF FinishWorker
<1>3. kept \in [Keys -> SUBSET Docs]
    BY <1>2, AuthorizedType
<1>4. c \in Child
    BY <1>2, <1>3, ChildTypes
<1>5. c.st # "running"
    BY DEF Failure, Success
<1>6. work' = [work EXCEPT ![r][b] = c]
    BY <1>1
<1> HIDE DEF c
<1> QED BY <1>4, <1>5, <1>6

\* A worker is given its call back, or has it taken away, with its slot.
LEMMA SlotsStep == IInv /\ [Next]_vars => SlotsConserved'
<1> SUFFICES ASSUME IInv, [Next]_vars PROVE SlotsConserved'
    OBVIOUS
<1> USE ResearchAssumption DEF ResearchAssumption
<1>0. /\ work \in [Runs -> [Children -> Child]] /\ free \in Nat
      /\ SlotsConserved /\ WorkersRest
      /\ pc \in [Runs -> Nodes]
    BY DEF IInv, TypeOK
<1>card. Cardinality(Held) \in Nat /\ \A r \in Runs : SlotsHeld(r) \in Nat
    <2>1. \A r \in Runs : IsFiniteSet({h \in Held : h[1] = r})
        BY HeldFinite, FS_Subset
    <2> QED BY <2>1, HeldFinite, FS_CardinalityType DEF SlotsHeld
<1>same. ASSUME free' = free, Held' = Held PROVE SlotsConserved'
    BY <1>0, <1>same DEF SlotsConserved
<1>1. CASE UNCHANGED work /\ UNCHANGED free
    BY <1>1, <1>same, HeldSame
<1>2. ASSUME NEW r \in Runs, Partition(r) PROVE SlotsConserved'
    <2>1. work[r] = AllOff
        BY <1>0, <1>2 DEF Partition, WorkersRest
    <2>2. \A q \in Runs, b \in Children :
              work'[q][b].st = "running" <=> work[q][b].st = "running"
        BY <1>0, <1>2, <2>1 DEF Partition, AllOff, Off, Waiting
    <2> QED BY <1>2, <2>2, <1>same, HeldSame DEF Partition
<1>3. ASSUME NEW r \in Runs, RetryGaps(r) PROVE SlotsConserved'
    <2>1. work[r] = AllOff
        BY <1>0, <1>3 DEF RetryGaps, WorkersRest
    <2>2. \A q \in Runs, b \in Children :
              work'[q][b].st = "running" <=> work[q][b].st = "running"
        BY <1>0, <1>3, <2>1 DEF RetryGaps, AllOff, Off, Waiting
    <2> QED BY <1>3, <2>2, <1>same, HeldSame DEF RetryGaps
<1>4. ASSUME NEW r \in Runs, JoinWorkers(r) \/ JoinRetries(r) PROVE SlotsConserved'
    <2>1. PendingOf(r) = {} /\ work' = [work EXCEPT ![r] = AllOff] /\ free' = free
        BY <1>4 DEF JoinWorkers, JoinRetries
    <2>2. \A q \in Runs, b \in Children :
              work'[q][b].st = "running" <=> work[q][b].st = "running"
        BY <1>0, <2>1 DEF PendingOf, AllOff, Off
    <2> QED BY <2>1, <2>2, <1>same, HeldSame
<1>5. ASSUME NEW r \in Runs, RunTimeout(r) PROVE SlotsConserved'
    <2>1. Cardinality(Held') = Cardinality(Held) - SlotsHeld(r)
        BY <1>0, <1>5, HeldCancelled DEF RunTimeout
    <2>2. free' = free + SlotsHeld(r)
        BY <1>5 DEF RunTimeout
    <2> QED BY <1>0, <1>card, <2>1, <2>2 DEF SlotsConserved
<1>6. ASSUME NEW r \in Runs, NEW b \in Children, StartWorker(r, b) PROVE SlotsConserved'
    <2>1. Cardinality(Held') = Cardinality(Held) + 1
        BY <1>0, <1>6, HeldOne, ChildTypes DEF StartWorker, Running
    <2>2. free' = free - 1 /\ free > 0
        BY <1>6 DEF StartWorker
    <2> QED BY <1>0, <1>card, <2>1, <2>2 DEF SlotsConserved
<1>7. ASSUME NEW r \in Runs, NEW b \in Children, FinishWorker(r, b) PROVE SlotsConserved'
    <2>1. PICK c \in Child : c.st # "running" /\ work' = [work EXCEPT ![r][b] = c]
        BY <1>7, FinishedType DEF IInv
    <2>2. Cardinality(Held') = Cardinality(Held) - 1
        BY <1>0, <1>7, <2>1, HeldOne DEF FinishWorker
    <2>3. free' = free + 1
        BY <1>7 DEF FinishWorker
    <2> QED BY <1>0, <1>card, <2>2, <2>3 DEF SlotsConserved
<1>8. ASSUME NEW r \in Runs, NEW b \in Children, ExpireWorker(r, b) PROVE SlotsConserved'
    <2>1. work' = [work EXCEPT ![r][b] = Failure] /\ Failure.st # "running"
        BY <1>8 DEF ExpireWorker, Failure
    <2>2. CASE work[r][b].st = "running"
        <3>1. Cardinality(Held') = Cardinality(Held) - 1
            BY <1>0, <2>1, <2>2, HeldOne, ChildTypes
        <3>2. free' = free + 1
            BY <1>8, <2>2 DEF ExpireWorker
        <3> QED BY <1>0, <1>card, <3>1, <3>2 DEF SlotsConserved
    <2>3. CASE work[r][b].st # "running"
        <3>1. Held' = Held
            BY <1>0, <2>1, <2>3, HeldOne, ChildTypes
        <3>2. free' = free
            BY <1>8, <2>3 DEF ExpireWorker
        <3> QED BY <3>1, <3>2, <1>same
    <2> QED BY <2>2, <2>3
<1>9. CASE \E r \in Runs : Begin(r) \/ Plan(r) \/ Discover(r) \/ Reduce(r) \/ Compose(r)
    BY <1>1, <1>9 DEF Begin, Plan, Discover, Reduce, Compose
<1>10. CASE Tick
    BY <1>1, <1>10 DEF Tick
<1>11. CASE UNCHANGED vars
    BY <1>1, <1>11 DEF vars
<1> QED BY <1>2, <1>3, <1>4, <1>5, <1>6, <1>7, <1>8, <1>9, <1>10, <1>11 DEF Next, Node

\* Only a fan-out has workers, they work on its batches, and a run recurses
\* only below the depth of its budget.
LEMMA RestStep ==
    IInv /\ [Next]_vars => WorkersRest' /\ WorkersHaveBatches' /\ RecursionLeft'
<1> SUFFICES ASSUME IInv, [Next]_vars
             PROVE  WorkersRest' /\ WorkersHaveBatches' /\ RecursionLeft'
    OBVIOUS
<1>0. /\ work \in [Runs -> [Children -> Child]] /\ pc \in [Runs -> Nodes]
      /\ batches \in [Runs -> Partitions] /\ depth \in [Runs -> 0..MaxDepth]
      /\ WorkersRest /\ WorkersHaveBatches /\ RecursionLeft
    BY DEF IInv, TypeOK, Partitions
<1> USE DEF WorkersRest, WorkersHaveBatches, RecursionLeft
<1>1. ASSUME NEW r \in Runs, Begin(r)
      PROVE  WorkersRest' /\ WorkersHaveBatches' /\ RecursionLeft'
    <2>1. work[r] = AllOff
        BY <1>0, <1>1 DEF Begin, Ended
    <2>2. \A q \in Runs : q # r => batches'[q] = batches[q] /\ depth'[q] = depth[q]
        BY <1>0, <1>1 DEF Begin, channels
    <2>3. work' = work /\ pc' = [pc EXCEPT ![r] = "plan"]
        BY <1>1 DEF Begin
    <2>4. WorkersHaveBatches'
        <3>1. \A b \in Children : work[r][b].st = "off"
            BY <2>1 DEF AllOff, Off
        <3> QED BY <3>1, <2>2, <2>3, <1>0
    <2>5. WorkersRest'
        BY <2>1, <2>3, <1>0
    <2>6. RecursionLeft'
        BY <2>2, <2>3, <1>0
    <2> QED BY <2>4, <2>5, <2>6
<1>2. ASSUME NEW r \in Runs, Plan(r) \/ Discover(r) \/ Compose(r)
      PROVE  WorkersRest' /\ WorkersHaveBatches' /\ RecursionLeft'
    <2>1. work' = work /\ batches' = batches /\ \A q \in Runs : q # r => depth'[q] = depth[q]
        BY <1>0, <1>2 DEF Plan, Discover, Compose
    <2>2. work[r] = AllOff
        BY <1>0, <1>2 DEF Plan, Discover, Compose
    <2>3. PICK n \in {"discover", "partition", "done"} : pc' = [pc EXCEPT ![r] = n]
        BY <1>2 DEF Plan, Discover, Compose
    <2> QED BY <1>0, <2>1, <2>2, <2>3
<1>3. ASSUME NEW r \in Runs, Partition(r)
      PROVE  WorkersRest' /\ WorkersHaveBatches' /\ RecursionLeft'
    <2>1. PICK size \in BatchSizes :
              LET bs == Partitioned(evidence[r], size) IN
              /\ batches' = [batches EXCEPT ![r] = bs]
              /\ work' = [work EXCEPT ![r] =
                     [b \in Children |-> IF b \in DOMAIN bs THEN Waiting ELSE Off]]
              /\ pc' = [pc EXCEPT ![r] = IF DOMAIN bs = {} THEN "compose" ELSE "worker"]
        BY <1>3 DEF Partition
    <2> DEFINE bs == Partitioned(evidence[r], size)
    <2>2. WorkersHaveBatches'
        BY <1>0, <2>1 DEF Off
    <2>3. WorkersRest'
        BY <1>0, <2>1 DEF AllOff
    <2>4. RecursionLeft'
        BY <1>0, <1>3, <2>1 DEF Partition
    <2> QED BY <2>2, <2>3, <2>4
<1>4. ASSUME NEW r \in Runs, JoinWorkers(r) \/ JoinRetries(r) \/ RunTimeout(r)
      PROVE  WorkersRest' /\ WorkersHaveBatches' /\ RecursionLeft'
    <2>1. /\ work' = [work EXCEPT ![r] = AllOff] /\ batches' = batches
          /\ \A q \in Runs : q # r => depth'[q] = depth[q]
        BY <1>0, <1>4 DEF JoinWorkers, JoinRetries, RunTimeout, channels
    <2>2. PICK n \in {"reduce", "failed"} : pc' = [pc EXCEPT ![r] = n]
        BY <1>4 DEF JoinWorkers, JoinRetries, RunTimeout
    <2> QED BY <1>0, <2>1, <2>2 DEF AllOff, Off
<1>5. ASSUME NEW r \in Runs, Reduce(r)
      PROVE  WorkersRest' /\ WorkersHaveBatches' /\ RecursionLeft'
    <2>1. /\ work' = work /\ batches' = batches /\ depth' = depth
          /\ pc' = [pc EXCEPT ![r] = RouteAfterReduce(r)]
        BY <1>5 DEF Reduce
    <2>2. \/ RouteAfterReduce(r) = "compose"
          \/ RouteAfterReduce(r) = "retry_gaps" /\ depth[r] < MaxDepth
        BY DEF RouteAfterReduce
    <2>3. work[r] = AllOff
        BY <1>0, <1>5 DEF Reduce
    <2> QED BY <1>0, <2>1, <2>2, <2>3
<1>6. ASSUME NEW r \in Runs, RetryGaps(r)
      PROVE  WorkersRest' /\ WorkersHaveBatches' /\ RecursionLeft'
    <2>1. /\ pc[r] = "retry_gaps" /\ pc' = [pc EXCEPT ![r] = "retrying"]
          /\ work' = [work EXCEPT ![r] =
                 [b \in Children |-> IF b \in Retried(r) THEN Waiting ELSE Off]]
          /\ batches' = batches /\ depth' = depth
        BY <1>6 DEF RetryGaps, channels
    <2>2. Retried(r) \subseteq DOMAIN batches[r]
        BY DEF Retried
    <2>3. WorkersHaveBatches'
        BY <1>0, <2>1, <2>2 DEF Off
    <2> QED BY <1>0, <2>1, <2>3
<1>7. ASSUME NEW r \in Runs, NEW b \in Children,
             StartWorker(r, b) \/ FinishWorker(r, b) \/ ExpireWorker(r, b)
      PROVE  WorkersRest' /\ WorkersHaveBatches' /\ RecursionLeft'
    <2>1. /\ work[r][b].st # "off" /\ pc' = pc /\ batches' = batches /\ depth' = depth
          /\ \E c : work' = [work EXCEPT ![r][b] = c]
        BY <1>7 DEF StartWorker, FinishWorker, ExpireWorker, UnderTimeout, channels
    <2>2. PICK c : work' = [work EXCEPT ![r][b] = c]
        BY <2>1
    <2>3. pc[r] \in {"worker", "retrying"}
        BY <1>0, <2>1 DEF AllOff, Off
    <2> QED BY <1>0, <2>1, <2>2, <2>3
<1>8. CASE Tick
    BY <1>0, <1>8 DEF Tick, channels
<1>9. CASE UNCHANGED vars
    BY <1>0, <1>9 DEF vars
<1> QED BY <1>1, <1>2, <1>3, <1>4, <1>5, <1>6, <1>7, <1>8, <1>9 DEF Next, Node

\* A step takes a slot, gives one back or gives back those of a cancelled run.
LEMMA FreeStep ==
    ASSUME [Next]_vars
    PROVE  \/ free' = free \/ free' = free + 1
           \/ free > 0 /\ free' = free - 1
           \/ \E r \in Runs : free' = free + SlotsHeld(r)
<1>1. CASE UNCHANGED vars \/ Tick
    BY <1>1 DEF vars, Tick
<1>2. ASSUME NEW r \in Runs, Begin(r) \/ Node(r) PROVE free' = free
    <2>1. CASE Begin(r) \/ Plan(r) \/ Discover(r) \/ Partition(r)
        BY <2>1 DEF Begin, Plan, Discover, Partition
    <2>2. CASE JoinWorkers(r) \/ Reduce(r) \/ RetryGaps(r) \/ JoinRetries(r) \/ Compose(r)
        BY <2>2 DEF JoinWorkers, Reduce, RetryGaps, JoinRetries, Compose
    <2> QED BY <1>2, <2>1, <2>2 DEF Node
<1>3. ASSUME NEW r \in Runs, RunTimeout(r) PROVE free' = free + SlotsHeld(r)
    BY <1>3 DEF RunTimeout
<1>4. ASSUME NEW r \in Runs, NEW b \in Children,
             StartWorker(r, b) \/ FinishWorker(r, b) \/ ExpireWorker(r, b)
      PROVE  \/ free' = free \/ free' = free + 1
             \/ free > 0 /\ free' = free - 1
    <2>1. CASE StartWorker(r, b)
        BY <2>1 DEF StartWorker
    <2>2. CASE FinishWorker(r, b)
        BY <2>2 DEF FinishWorker
    <2>3. CASE ExpireWorker(r, b)
        BY <2>3 DEF ExpireWorker
    <2> QED BY <1>4, <2>1, <2>2, <2>3
<1> QED BY <1>1, <1>2, <1>3, <1>4 DEF Next

\* Every step keeps the types; the slots bound `free` from above, the room
\* left below max_depth bounds `depth`.
LEMMA TypeStep == IInv /\ [Next]_vars => TypeOK'
<1> SUFFICES ASSUME IInv, [Next]_vars PROVE TypeOK'
    OBVIOUS
<1> USE ResearchAssumption DEF ResearchAssumption
<1> DEFINE Answer == [claims : SUBSET Finding, incomplete : BOOLEAN, docs : SUBSET Docs]
<1>0. /\ TypeOK /\ RecursionLeft
      /\ work \in [Runs -> [Children -> Child]]
      /\ outcomes \in [Runs -> Seq(Round)]
      /\ events \in [Runs -> Seq(Event)]
      /\ batches \in [Runs -> Partitions]
    BY DEF IInv, TypeOK, Event, Partitions
<1>free. free' \in 0..MaxConcurrency
    <2>1. SlotsConserved'
        BY SlotsStep
    <2>2. IsFiniteSet(Held')
        <3>1. Held' \subseteq Runs \X Children
            BY DEF Held
        <3> QED BY <3>1, HeldFinite
    <2>3. Cardinality(Held') \in Nat
        BY <2>2, FS_CardinalityType
    <2>4. free \in Nat /\ \A r \in Runs : SlotsHeld(r) \in Nat
        <3>1. \A r \in Runs : IsFiniteSet({h \in Held : h[1] = r})
            BY HeldFinite, FS_Subset
        <3> QED BY <1>0, <3>1, FS_CardinalityType DEF SlotsHeld, TypeOK
    <2>5. \/ free' = free \/ free' = free + 1
          \/ free > 0 /\ free' = free - 1
          \/ \E r \in Runs : free' = free + SlotsHeld(r)
        BY FreeStep
    <2>6. free' \in Nat
        BY <2>4, <2>5
    <2> QED BY <2>1, <2>3, <2>6 DEF SlotsConserved
<1>emit. \A r \in Runs, types \in Seq(EventTypes) : Emit(events[r], types) \in Seq(Event)
    BY <1>0, EmitType
<1>1. ASSUME NEW r \in Runs, Begin(r) PROVE TypeOK'
    <2>1. sends' \in [Runs -> 0..MaxSends]
        BY <1>0, <1>1 DEF Begin, TypeOK
    <2>2. /\ pc' \in [Runs -> Nodes] /\ age' \in [Runs -> 0..RunDeadline]
          /\ calls' \in [Runs -> Nat]
        BY <1>0, <1>1 DEF Begin, TypeOK, Nodes
    <2>3. CASE Checkpointed
        <3>1. UNCHANGED channels /\ UNCHANGED <<due, work>>
            BY <1>1, <2>3 DEF Begin
        <3> QED BY <1>0, <1>free, <2>1, <2>2, <3>1 DEF TypeOK, channels
    <2>4. CASE ~Checkpointed
        <3>1. /\ evidence' = [evidence EXCEPT ![r] = {}]
              /\ batches' = [batches EXCEPT ![r] = <<>>]
              /\ outcomes' = [outcomes EXCEPT ![r] = <<>>]
              /\ findings' = [findings EXCEPT ![r] = {}]
              /\ selected' = [selected EXCEPT ![r] = {}]
              /\ depth' = [depth EXCEPT ![r] = 0]
              /\ answer' = [answer EXCEPT ![r] = NoAnswer]
              /\ events' = [events EXCEPT ![r] = <<>>]
              /\ UNCHANGED <<due, work>>
            BY <1>1, <2>4 DEF Begin
        <3>2. outcomes' \in [Runs -> Seq(Round)] /\ events' \in [Runs -> Seq(Event)]
            BY <1>0, <3>1, EmptySeq
        <3>3. batches' \in [Runs -> Partitions]
            <4>1. <<>> \in [{} -> SUBSET Docs]
                OBVIOUS
            <4>2. <<>> \in Partitions
                BY <4>1 DEF Partitions
            <4> QED BY <1>0, <3>1, <4>2
        <3>4. /\ evidence' \in [Runs -> SUBSET Docs] /\ findings' \in [Runs -> SUBSET Finding]
              /\ selected' \in [Runs -> SUBSET Docs] /\ depth' \in [Runs -> 0..MaxDepth]
            BY <1>0, <3>1 DEF TypeOK
        <3>5. answer' \in [Runs -> Answer]
            BY <1>0, <3>1 DEF TypeOK, NoAnswer
        <3> QED BY <1>0, <1>free, <2>1, <2>2, <3>1, <3>2, <3>3, <3>4, <3>5
                DEF TypeOK, Event, Partitions
    <2> QED BY <2>3, <2>4
<1>2. ASSUME NEW r \in Runs, Plan(r) PROVE TypeOK'
    <2>1. due' \in [Runs -> 0..(RunDeadline + PlanWindow)]
        <3>1. age[r] + PlanWindow \in 0..(RunDeadline + PlanWindow)
            <4>1. age[r] \in 0..RunDeadline
                BY <1>0 DEF TypeOK
            <4> QED BY <4>1
        <3>2. due' = [due EXCEPT ![r] = age[r] + PlanWindow]
            BY <1>2 DEF Plan, WorkerDeadline
        <3>3. due \in [Runs -> 0..(RunDeadline + PlanWindow)]
            BY <1>0 DEF TypeOK
        <3> QED BY <3>1, <3>2, <3>3
    <2>2. <<"run.started", "node.started", "research.planned", "node.completed">>
              \in Seq(EventTypes)
        BY DEF EventTypes
    <2>3. events' \in [Runs -> Seq(Event)]
        BY <1>0, <1>2, <2>2, <1>emit DEF Plan
    <2>4. depth' \in [Runs -> 0..MaxDepth]
        BY <1>0, <1>2 DEF Plan, TypeOK
    <2>5. pc' \in [Runs -> Nodes]
        BY <1>0, <1>2 DEF Plan, TypeOK, Nodes
    <2>6. UNCHANGED <<sends, age, evidence, batches, work, outcomes, findings,
                      selected, answer, calls, free>>
        BY <1>2 DEF Plan
    <2> QED BY <1>0, <1>free, <2>1, <2>3, <2>4, <2>5, <2>6 DEF TypeOK, Event
<1>3. ASSUME NEW r \in Runs, Discover(r) PROVE TypeOK'
    <2>1. evidence' \in [Runs -> SUBSET Docs] /\ pc' \in [Runs -> Nodes]
        <3>1. PICK found \in SUBSET Docs : evidence' = [evidence EXCEPT ![r] = found]
            BY <1>3, Zenon DEF Discover
        <3>2. pc' = [pc EXCEPT ![r] = "partition"]
            BY <1>3 DEF Discover
        <3>3. evidence \in [Runs -> SUBSET Docs] /\ pc \in [Runs -> Nodes]
            BY <1>0 DEF TypeOK
        <3> QED BY <3>1, <3>2, <3>3 DEF Nodes
    <2>2. <<"node.started", "retrieval.started", "retrieval.completed", "node.completed">>
              \in Seq(EventTypes)
        BY DEF EventTypes
    <2>3. events' \in [Runs -> Seq(Event)]
        BY <1>0, <1>3, <2>2, <1>emit DEF Discover
    <2> QED BY <1>0, <1>free, <1>3, <2>1, <2>3 DEF Discover, TypeOK, Event
<1>4. ASSUME NEW r \in Runs, Partition(r) PROVE TypeOK'
    <2>1. PICK size \in BatchSizes :
              LET bs == Partitioned(evidence[r], size) IN
              /\ batches' = [batches EXCEPT ![r] = bs]
              /\ work' = [work EXCEPT ![r] =
                     [b \in Children |-> IF b \in DOMAIN bs THEN Waiting ELSE Off]]
              /\ pc' = [pc EXCEPT ![r] = IF DOMAIN bs = {} THEN "compose" ELSE "worker"]
        BY <1>4 DEF Partition
    <2> DEFINE bs == Partitioned(evidence[r], size)
               ws == [b \in Children |-> IF b \in DOMAIN bs THEN Waiting ELSE Off]
    <2>2. bs \in Partitions
        BY <1>0, PartitionedType DEF TypeOK
    <2>3. ws \in [Children -> Child]
        BY ChildTypes
    <2>4. batches' = [batches EXCEPT ![r] = bs] /\ work' = [work EXCEPT ![r] = ws]
        BY <2>1
    <2>5. pc' \in [Runs -> Nodes]
        BY <1>0, <2>1 DEF TypeOK, Nodes
    <2>6. <<"node.started", "node.completed">> \in Seq(EventTypes)
        BY DEF EventTypes
    <2>7. events' \in [Runs -> Seq(Event)]
        BY <1>0, <1>4, <2>6, <1>emit DEF Partition
    <2> HIDE DEF bs, ws
    <2>8. batches' \in [Runs -> Partitions] /\ work' \in [Runs -> [Children -> Child]]
        BY <1>0, <2>2, <2>3, <2>4
    <2> QED BY <1>0, <1>free, <1>4, <2>5, <2>7, <2>8 DEF Partition, TypeOK, Event, Partitions
<1>5. ASSUME NEW r \in Runs, JoinWorkers(r) PROVE TypeOK'
    <2>1. [attempt |-> 0, of |-> work[r]] \in Round
        BY <1>0 DEF Round
    <2>2. outcomes' \in [Runs -> Seq(Round)]
        BY <1>0, <1>5, <2>1 DEF JoinWorkers
    <2>3. work' \in [Runs -> [Children -> Child]] /\ pc' \in [Runs -> Nodes]
        BY <1>0, <1>5, ChildTypes DEF JoinWorkers, TypeOK, Nodes
    <2> QED BY <1>0, <1>free, <1>5, <2>2, <2>3 DEF JoinWorkers, TypeOK
<1>6. ASSUME NEW r \in Runs, Reduce(r) PROVE TypeOK'
    <2>1. findings' = [findings EXCEPT ![r] = Grouped(outcomes[r])]
          /\ selected' = [selected EXCEPT ![r] = MergedEvidence(outcomes[r])]
        BY <1>6 DEF Reduce
    <2>2. Grouped(outcomes[r]) \subseteq Finding /\ MergedEvidence(outcomes[r]) \subseteq Docs
        BY <1>0, ReducedType
    <2>3. findings' \in [Runs -> SUBSET Finding] /\ selected' \in [Runs -> SUBSET Docs]
        BY <1>0, <2>1, <2>2 DEF TypeOK
    <2>4. <<"research.batches_completed">> \in Seq(EventTypes)
        BY DEF EventTypes
    <2>5. events' \in [Runs -> Seq(Event)]
        BY <1>0, <1>6, <2>4, <1>emit DEF Reduce
    <2>6. pc' \in [Runs -> Nodes]
        BY <1>0, <1>6 DEF Reduce, RouteAfterReduce, TypeOK, Nodes
    <2> QED BY <1>0, <1>free, <1>6, <2>3, <2>5, <2>6 DEF Reduce, TypeOK, Event
<1>7. ASSUME NEW r \in Runs, RetryGaps(r) PROVE TypeOK'
    <2> DEFINE ws == [b \in Children |-> IF b \in Retried(r) THEN Waiting ELSE Off]
    <2>1. ws \in [Children -> Child]
        BY ChildTypes
    <2>2. work' \in [Runs -> [Children -> Child]]
        BY <1>0, <1>7, <2>1 DEF RetryGaps
    <2>3. pc' \in [Runs -> Nodes]
        BY <1>0, <1>7 DEF RetryGaps, TypeOK, Nodes
    <2> QED BY <1>0, <1>free, <1>7, <2>2, <2>3 DEF RetryGaps, channels, TypeOK
<1>8. ASSUME NEW r \in Runs, JoinRetries(r) PROVE TypeOK'
    <2>1. [attempt |-> 1, of |-> work[r]] \in Round
        BY <1>0 DEF Round
    <2>2. outcomes' \in [Runs -> Seq(Round)]
        BY <1>0, <1>8, <2>1 DEF JoinRetries
    <2>3. work' \in [Runs -> [Children -> Child]] /\ pc' \in [Runs -> Nodes]
        BY <1>0, <1>8, ChildTypes DEF JoinRetries, TypeOK, Nodes
    <2>4. depth' \in [Runs -> 0..MaxDepth]
        BY <1>0, <1>8 DEF JoinRetries, RecursionLeft, TypeOK
    <2>5. <<"research.recursion">> \in Seq(EventTypes)
        BY DEF EventTypes
    <2>6. events' \in [Runs -> Seq(Event)]
        BY <1>0, <1>8, <2>5, <1>emit DEF JoinRetries
    <2> QED BY <1>0, <1>free, <1>8, <2>2, <2>3, <2>4, <2>6 DEF JoinRetries, TypeOK, Event
<1>9. ASSUME NEW r \in Runs, Compose(r) PROVE TypeOK'
    <2>1. findings[r] \in SUBSET Finding /\ selected[r] \in SUBSET Docs
        BY <1>0 DEF TypeOK
    <2> DEFINE incomplete == FailedBatches(outcomes[r]) # {}
    <2>2. PICK a \in Answer : answer' = [answer EXCEPT ![r] = a]
        <3>1. /\ [claims |-> findings[r], incomplete |-> incomplete,
                  docs |-> selected[r]] \in Answer
              /\ SafeAnswer(selected[r]) \in Answer
            BY <2>1 DEF SafeAnswer
        <3>2. \/ answer' = [answer EXCEPT ![r] =
                    [claims |-> findings[r], incomplete |-> incomplete, docs |-> selected[r]]]
              \/ answer' = [answer EXCEPT ![r] = SafeAnswer(selected[r])]
            BY <1>9, Zenon DEF Compose
        <3> QED BY <3>1, <3>2
    <2>3. answer' \in [Runs -> Answer]
        BY <1>0, <2>2 DEF TypeOK
    <2>4. <<"answer.delta", "validation.completed", "answer.completed", "run.completed">>
              \in Seq(EventTypes)
        BY DEF EventTypes
    <2>5. events' \in [Runs -> Seq(Event)]
        BY <1>0, <1>9, <2>4, <1>emit DEF Compose
    <2>6. pc' \in [Runs -> Nodes]
        BY <1>0, <1>9 DEF Compose, TypeOK, Nodes
    <2> QED BY <1>0, <1>free, <1>9, <2>3, <2>5, <2>6 DEF Compose, TypeOK, Event
<1>10. ASSUME NEW r \in Runs, RunTimeout(r) PROVE TypeOK'
    <2>1. work' \in [Runs -> [Children -> Child]] /\ pc' \in [Runs -> Nodes]
        BY <1>0, <1>10, ChildTypes DEF RunTimeout, TypeOK, Nodes
    <2> QED BY <1>0, <1>free, <1>10, <2>1 DEF RunTimeout, channels, TypeOK
<1>11. ASSUME NEW r \in Runs, NEW b \in Children,
              StartWorker(r, b) \/ FinishWorker(r, b) \/ ExpireWorker(r, b)
       PROVE  TypeOK'
    <2>1. PICK c \in Child : work' = [work EXCEPT ![r][b] = c]
        BY <1>11, ChildTypes, FinishedType DEF IInv, StartWorker, ExpireWorker
    <2>2. work' \in [Runs -> [Children -> Child]]
        BY <1>0, <2>1
    <2>3. calls' \in [Runs -> Nat]
        <3>1. calls \in [Runs -> Nat] /\ calls[r] + 1 \in Nat
            BY <1>0 DEF TypeOK
        <3>2. calls' = calls \/ calls' = [calls EXCEPT ![r] = calls[r] + 1]
            BY <1>11 DEF StartWorker, FinishWorker, ExpireWorker
        <3> QED BY <3>1, <3>2
    <2> QED BY <1>0, <1>free, <1>11, <2>2, <2>3
            DEF StartWorker, FinishWorker, ExpireWorker, channels, TypeOK
<1>12. CASE Tick
    <2>1. age' \in [Runs -> 0..RunDeadline]
        <3>1. age \in [Runs -> 0..RunDeadline]
            BY <1>0 DEF TypeOK
        <3>2. age' = [r \in Runs |-> IF Active(r) THEN age[r] + 1 ELSE age[r]]
            BY <1>12 DEF Tick
        <3>3. \A r \in Runs : Active(r) => age[r] < RunDeadline
            BY <1>12 DEF Tick
        <3> HIDE DEF Active
        <3>4. \A r \in Runs : (IF Active(r) THEN age[r] + 1 ELSE age[r]) \in 0..RunDeadline
            BY <3>1, <3>3
        <3> QED BY <3>2, <3>4
    <2> QED BY <1>0, <1>free, <1>12, <2>1 DEF Tick, channels, TypeOK
<1>13. CASE UNCHANGED vars
    BY <1>0, <1>13 DEF vars, TypeOK
<1> QED BY <1>1, <1>2, <1>3, <1>4, <1>5, <1>6, <1>7, <1>8, <1>9, <1>10, <1>11, <1>12, <1>13
        DEF Next, Node

-----------------------------------------------------------------------------
(* The theorems.                                                           *)

LEMMA InvHolds == Spec => []IInv
<1>1. IInv /\ [Next]_vars => IInv'
    BY SlotsStep, RestStep, TypeStep DEF IInv
<1> QED BY InvInit, <1>1, PTL DEF Spec

\* Every variable keeps its type: a run never recurses deeper than its budget
\* and never has more workers than children.
THEOREM TypeCorrect == Spec => []TypeOK
<1>1. IInv => TypeOK
    BY DEF IInv
<1> QED BY InvHolds, <1>1, PTL

\* The shared semaphore loses no slot and lends none twice, for any number of
\* runs that expire and cancel one another's waiting workers.
THEOREM NoSlotLost == Spec => []SlotsConserved
<1>1. IInv => SlotsConserved
    BY DEF IInv
<1> QED BY InvHolds, <1>1, PTL

-----------------------------------------------------------------------------
(* Numbers in finite sets.                                                 *)

\* A set of naturals that is not empty has a least one.
LEMMA LeastNatural ==
    ASSUME NEW S \in SUBSET Nat, S # {}
    PROVE  \E n \in S : \A m \in S : n <= m
<1> DEFINE R == OpToRel(<, Nat)
<1>1. IsWellFoundedOn(R, Nat)
    BY NatLessThanWellFounded
<1>2. \A x, y \in Nat : y < x => <<y, x>> \in R
    BY DEF OpToRel
<1> HIDE DEF R
<1>3. PICK n \in S : \A m \in S : ~ (<<m, n>> \in R)
    BY <1>1, WFMin
<1>4. ASSUME NEW m \in S PROVE n <= m
    <2>1. ~ (m < n)
        BY <1>2, <1>3
    <2> QED BY <2>1
<1> QED BY <1>4

\* A bounded one has a greatest.
LEMMA GreatestNatural ==
    ASSUME NEW n \in Nat, NEW S \in SUBSET (0..n), S # {}
    PROVE  \E m \in S : \A x \in S : x <= m
<1> DEFINE T == {t \in 0..n : n - t \in S}
<1>1. PICK s \in S : TRUE
    OBVIOUS
<1>2. T \subseteq Nat /\ n - s \in T
    OBVIOUS
<1>3. PICK t \in T : \A u \in T : t <= u
    BY <1>2, LeastNatural
<1>4. n - t \in S
    BY <1>3
<1>5. \A x \in S : n - x \in T
    OBVIOUS
<1>6. ASSUME NEW x \in S PROVE x <= n - t
    <2>1. t <= n - x
        BY <1>3, <1>5
    <2> QED BY <2>1
<1> QED BY <1>4, <1>6

\* Of the batches that have failed, as many are retried as calls remain.
LEMMA RankBounds ==
    ASSUME NEW G \in SUBSET Children, NEW n \in Nat
    PROVE  Cardinality({b \in G : Cardinality({c \in G : c < b}) < n}) <= n
<1> DEFINE T == {b \in G : Cardinality({c \in G : c < b}) < n}
<1>0. MaxChildren \in Nat /\ Children = 1..MaxChildren
    BY ResearchAssumption DEF ResearchAssumption, Children
<1>1. IsFiniteSet(G)
    <2>1. IsFiniteSet(Children)
        BY <1>0, FS_Interval
    <2> QED BY <2>1, FS_Subset
<1>sub. T \subseteq G
    OBVIOUS
<1>2. CASE T = {}
    <2>1. Cardinality(T) = 0
        BY <1>2, FS_EmptySet
    <2> HIDE DEF T
    <2>2. Cardinality(T) <= n
        BY <2>1
    <2> QED BY <2>2 DEF T
<1>3. CASE T # {}
    <2>1. T \in SUBSET (0..MaxChildren)
        <3> HIDE DEF T
        <3> QED BY <1>0, <1>sub
    <2>2. PICK m \in T : \A x \in T : x <= m
        BY <1>0, <1>3, <2>1, GreatestNatural
    <2> DEFINE L == {c \in G : c < m}
    <2>3. IsFiniteSet(L) /\ Cardinality(L) < n /\ m \notin L
        <3>1. IsFiniteSet(L)
            BY <1>1, FS_Subset
        <3>2. m \in Nat
            BY <2>1
        <3> QED BY <2>2, <3>1, <3>2
    <2>4. T \subseteq L \cup {m}
        <3>1. ASSUME NEW x \in T, x # m PROVE x \in L
            <4>1. x \in Nat /\ m \in Nat /\ x <= m /\ x \in G
                BY <2>1, <2>2
            <4> QED BY <3>1, <4>1
        <3> QED BY <3>1
    <2> HIDE DEF T, L
    <2>5. Cardinality(L \cup {m}) = Cardinality(L) + 1 /\ IsFiniteSet(L \cup {m})
        BY <2>3, FS_AddElement
    <2>6. Cardinality(T) <= Cardinality(L \cup {m}) /\ IsFiniteSet(T)
        BY <2>4, <2>5, FS_Subset
    <2>7. Cardinality(T) \in Nat /\ Cardinality(L) \in Nat
        BY <2>3, <2>6, FS_CardinalityType
    <2>8. Cardinality(T) <= n
        BY <2>3, <2>5, <2>6, <2>7
    <2> QED BY <2>8 DEF T
<1> QED BY <1>2, <1>3

-----------------------------------------------------------------------------
(* One run at a time.                                                      *)

\* What belongs to a run, the clock and the deadline of its workers aside.
Local(r) == <<pc[r], sends[r], evidence[r], batches[r], work[r], outcomes[r],
              findings[r], selected[r], depth[r], answer[r], events[r], calls[r]>>
WorkerStep(r, b) == StartWorker(r, b) \/ FinishWorker(r, b) \/ ExpireWorker(r, b)

\* The steps of other runs, and of time, change nothing of a run.
LEMMA LocalStep ==
    ASSUME TypeOK, [Next]_vars, NEW r \in Runs
    PROVE  \/ Local(r)' = Local(r)
           \/ Begin(r) \/ Node(r) \/ RunTimeout(r)
           \/ \E b \in Children : WorkerStep(r, b)
<1>0. /\ pc \in [Runs -> Nodes] /\ sends \in [Runs -> 0..MaxSends]
      /\ evidence \in [Runs -> SUBSET Docs] /\ batches \in [Runs -> Partitions]
      /\ work \in [Runs -> [Children -> Child]] /\ outcomes \in [Runs -> Seq(Round)]
      /\ findings \in [Runs -> SUBSET Finding] /\ selected \in [Runs -> SUBSET Docs]
      /\ depth \in [Runs -> 0..MaxDepth] /\ events \in [Runs -> Seq(Event)]
      /\ answer \in [Runs -> [claims : SUBSET Finding, incomplete : BOOLEAN,
                              docs : SUBSET Docs]]
      /\ calls \in [Runs -> Nat]
    BY DEF TypeOK, Partitions, Event
<1>1. CASE Tick \/ UNCHANGED vars
    BY <1>1 DEF Tick, channels, vars, Local
<1>2. ASSUME NEW q \in Runs, q # r, Begin(q) PROVE Local(r)' = Local(r)
    <2>1. CASE Checkpointed
        BY <1>0, <1>2, <2>1 DEF Begin, channels, Local
    <2>2. CASE ~Checkpointed
        BY <1>0, <1>2, <2>2 DEF Begin, Local
    <2> QED BY <2>1, <2>2
<1>3. ASSUME NEW q \in Runs, q # r, Plan(q) \/ Discover(q) \/ Partition(q)
      PROVE  Local(r)' = Local(r)
    BY <1>0, <1>3 DEF Plan, Discover, Partition, Local
<1>4. ASSUME NEW q \in Runs, q # r, JoinWorkers(q) \/ JoinRetries(q)
      PROVE  Local(r)' = Local(r)
    BY <1>0, <1>4 DEF JoinWorkers, JoinRetries, Local
<1>5. ASSUME NEW q \in Runs, q # r, Reduce(q) \/ RetryGaps(q) \/ RunTimeout(q)
      PROVE  Local(r)' = Local(r)
    BY <1>0, <1>5 DEF Reduce, RetryGaps, RunTimeout, channels, Local
<1>6. ASSUME NEW q \in Runs, q # r, Compose(q) PROVE Local(r)' = Local(r)
    BY <1>0, <1>6 DEF Compose, Local
<1>7. ASSUME NEW q \in Runs, q # r, NEW b \in Children, WorkerStep(q, b)
      PROVE  Local(r)' = Local(r)
    <2>1. /\ UNCHANGED <<pc, sends, channels>>
          /\ calls' = calls \/ calls' = [calls EXCEPT ![q] = calls[q] + 1]
        BY <1>7 DEF WorkerStep, StartWorker, FinishWorker, ExpireWorker
    <2>2. \E c : work' = [work EXCEPT ![q][b] = c]
        BY <1>7 DEF WorkerStep, StartWorker, FinishWorker, ExpireWorker
    <2> QED BY <1>0, <1>7, <2>1, <2>2 DEF channels, Local
<1> QED BY <1>1, <1>2, <1>3, <1>4, <1>5, <1>6, <1>7 DEF Next, Node, WorkerStep

-----------------------------------------------------------------------------
(* The budget of model calls.  A call is paid for when its worker starts, so *)
(* what is bounded is the calls made and the workers that wait for theirs.  *)

WaitingOf(r) == {b \in Children : work[r][b].st = "waiting"}
CallsArePlanned(r) ==
    /\ pc[r] \in {"plan", "discover", "partition"} => calls[r] = 1
    /\ pc[r] = "worker" =>
           calls[r] + Cardinality(WaitingOf(r)) <= 1 + Cardinality(DOMAIN batches[r])
    /\ pc[r] \in {"reduce", "retry_gaps"} /\ depth[r] = 0 =>
           calls[r] <= 1 + Cardinality(DOMAIN batches[r])
    /\ pc[r] = "retrying" => calls[r] + Cardinality(WaitingOf(r)) <= MaxModelCalls
    /\ calls[r] <= MaxModelCalls

-----------------------------------------------------------------------------
(* What a run that begins with empty channels leaves in them.               *)

\* The request is sent once, or nothing of an earlier send is kept.
ThreadIsFresh == ~Checkpointed \/ MaxSends = 1

Unplanned == {"idle", "plan", "discover", "partition"}
Fresh(r) ==
    /\ sends[r] = 0 => pc[r] = "idle"
    /\ pc[r] \in {"idle", "plan"} => events[r] = <<>>
    /\ pc[r] \in Unplanned => batches[r] = <<>>
    /\ pc[r] \in Unplanned \cup {"worker"} =>
           outcomes[r] = <<>> /\ findings[r] = {} /\ selected[r] = {}
    /\ pc[r] # "done" => answer[r] = NoAnswer

\* The channel of events, by where the run is.
StreamGrows(r) ==
    /\ \A i \in DOMAIN events[r] : events[r][i].seq = i - 1
    /\ pc[r] \notin {"idle", "plan", "failed"} =>
           Len(events[r]) >= 1 /\ events[r][1].type = "run.started"
    /\ pc[r] # "done" => \A i \in DOMAIN events[r] : events[r][i].type # "run.completed"
    /\ pc[r] = "done" =>
           \A i \in DOMAIN events[r] : events[r][i].type = "run.completed" <=> i = Len(events[r])

\* A worker's outcome is of a batch of the run and cites that batch only.
OfItsBatch(c, bs, b) ==
    /\ c.st # "off" => b \in DOMAIN bs
    /\ c.st = "success" => c.docs = bs[b] /\ \A k \in Keys : c.found[k] \subseteq bs[b]
    /\ c.st # "success" => c.found = NoFindings
BatchesAreEvidence(r) ==
    \A b \in DOMAIN batches[r] : batches[r][b] \subseteq evidence[r]
OutcomesAreOfBatches(r) ==
    /\ \A b \in Children : OfItsBatch(work[r][b], batches[r], b)
    /\ \A i \in DOMAIN outcomes[r], b \in Children :
           /\ OfItsBatch(outcomes[r][i].of[b], batches[r], b)
           /\ outcomes[r][i].of[b].st \in {"off", "failure", "success"}

\* The first fan-out is of every batch; those behind it retry what failed.
FanOuts(r) ==
    /\ pc[r] = "worker" => \A b \in DOMAIN batches[r] : work[r][b].st # "off"
    /\ pc[r] \in {"reduce", "retry_gaps", "retrying"} => Len(outcomes[r]) >= 1
    /\ pc[r] \in {"compose", "done"} => Len(outcomes[r]) >= 1 \/ DOMAIN batches[r] = {}
    /\ Len(outcomes[r]) >= 1 =>
           \A b \in DOMAIN batches[r] : outcomes[r][1].of[b].st # "off"
    /\ \A i \in DOMAIN outcomes[r] : i > 1 => outcomes[r][i].attempt = 1
SuccessIsLast(r) ==
    /\ \A i, j \in DOMAIN outcomes[r], b \in Children :
           i < j /\ outcomes[r][i].of[b].st = "success" => outcomes[r][j].of[b].st = "off"
    /\ pc[r] = "retrying" => \A i \in DOMAIN outcomes[r], b \in Children :
           work[r][b].st # "off" => outcomes[r][i].of[b].st # "success"

\* What the reducer and the composer made of the outcomes.
Reductions(r) ==
    pc[r] \in {"compose", "done"} =>
        findings[r] = Grouped(outcomes[r]) /\ selected[r] = MergedEvidence(outcomes[r])
Answered(r) ==
    pc[r] = "done" =>
        \/ /\ findings[r] = {} /\ answer[r] = SafeAnswer(selected[r])
        \/ answer[r] = [claims |-> findings[r], docs |-> selected[r],
                        incomplete |-> FailedBatches(outcomes[r]) # {}]

AnswerInv(r) ==
    /\ BatchesAreEvidence(r) /\ OutcomesAreOfBatches(r)
    /\ FanOuts(r) /\ SuccessIsLast(r) /\ Reductions(r) /\ Answered(r)

\* A worker takes up its own batch and ends with an outcome of it; it calls the
\* model once, when it leaves the queue for a slot.
LEMMA WorkerMoves ==
    ASSUME IInv, NEW r \in Runs, NEW b \in Children, WorkerStep(r, b)
    PROVE  /\ UNCHANGED <<pc, sends, channels>>
           /\ pc[r] \in {"worker", "retrying"}
           /\ work[r][b].st \in {"waiting", "running"}
           /\ \E c \in Child : /\ work' = [work EXCEPT ![r][b] = c]
                               /\ c.st \notin {"off", "waiting"}
                               /\ OfItsBatch(c, batches[r], b)
           /\ \/ calls' = calls
              \/ work[r][b].st = "waiting" /\ calls' = [calls EXCEPT ![r] = calls[r] + 1]
<1>1. UNCHANGED <<pc, sends, channels>>
    BY DEF WorkerStep, StartWorker, FinishWorker, ExpireWorker
<1>2. work[r][b].st \in {"waiting", "running"}
    BY DEF WorkerStep, StartWorker, FinishWorker, ExpireWorker, UnderTimeout
<1>3. pc[r] \in {"worker", "retrying"}
    BY <1>2 DEF IInv, WorkersRest, AllOff, Off
<1>4. b \in DOMAIN batches[r] /\ batches[r][b] \in SUBSET Docs
    BY <1>2, BatchType DEF IInv, WorkersHaveBatches
<1>5. \/ calls' = calls
      \/ work[r][b].st = "waiting" /\ calls' = [calls EXCEPT ![r] = calls[r] + 1]
    BY DEF WorkerStep, StartWorker, FinishWorker, ExpireWorker
<1> DEFINE Moved(c) == /\ work' = [work EXCEPT ![r][b] = c]
                       /\ c.st \notin {"off", "waiting"}
                       /\ OfItsBatch(c, batches[r], b)
<1>6. CASE StartWorker(r, b)
    <2>1. Moved(Running) /\ Running \in Child
        BY <1>4, <1>6, ChildTypes DEF StartWorker, Running, OfItsBatch
    <2> QED BY <1>1, <1>2, <1>3, <1>5, <2>1
<1>7. CASE ExpireWorker(r, b)
    <2>1. Moved(Failure) /\ Failure \in Child
        BY <1>4, <1>7, ChildTypes DEF ExpireWorker, Failure, OfItsBatch
    <2> QED BY <1>1, <1>2, <1>3, <1>5, <2>1
<1>8. CASE FinishWorker(r, b)
    <2>1. PICK draft \in [Keys -> SUBSET Docs] :
             LET kept == Authorized(draft, batches[r][b]) IN
             work' = [work EXCEPT ![r][b] =
                IF kept = NoFindings THEN Failure ELSE Success(kept, batches[r][b])]
        BY <1>8 DEF FinishWorker
    <2> DEFINE kept == Authorized(draft, batches[r][b])
               win == Success(kept, batches[r][b])
    <2>2. \/ work' = [work EXCEPT ![r][b] = Failure]
          \/ work' = [work EXCEPT ![r][b] = win]
        BY <2>1
    <2>3. kept \in [Keys -> SUBSET Docs] /\ \A k \in Keys : kept[k] \subseteq batches[r][b]
        BY <1>4, AuthorizedType DEF Authorized
    <2>4. Failure \in Child /\ win \in Child
        BY <1>4, <2>3, ChildTypes
    <2>5. /\ Failure.st = "failure" /\ Failure.found = NoFindings
          /\ win.st = "success" /\ win.docs = batches[r][b] /\ win.found = kept
        BY DEF Failure, Success
    <2> HIDE DEF win, kept
    <2>6. OfItsBatch(Failure, batches[r], b) /\ OfItsBatch(win, batches[r], b)
        BY <1>4, <2>3, <2>5 DEF OfItsBatch
    <2>7. \E c \in Child : Moved(c)
        BY <2>2, <2>4, <2>5, <2>6
    <2> QED BY <1>1, <1>2, <1>3, <1>5, <2>7
<1> QED BY <1>6, <1>7, <1>8 DEF WorkerStep

-----------------------------------------------------------------------------
(* No run exceeds its budget of model calls.                               *)

\* There are no more batches than children, and finitely many workers wait.
LEMMA CountsFinite ==
    ASSUME TypeOK, NEW r \in Runs
    PROVE  /\ IsFiniteSet(WaitingOf(r)) /\ Cardinality(WaitingOf(r)) \in Nat
           /\ IsFiniteSet(DOMAIN batches[r]) /\ DOMAIN batches[r] \subseteq Children
           /\ Cardinality(DOMAIN batches[r]) \in 0..MaxChildren
<1>0. MaxChildren \in Nat \ {0} /\ Children = 1..MaxChildren
    BY ResearchAssumption DEF ResearchAssumption, Children
<1>1. IsFiniteSet(Children) /\ Cardinality(Children) = MaxChildren
    BY <1>0, FS_Interval
<1>2. WaitingOf(r) \subseteq Children /\ DOMAIN batches[r] \subseteq Children
    BY DEF WaitingOf, TypeOK
<1>3. \A S : S \subseteq Children =>
          IsFiniteSet(S) /\ Cardinality(S) \in Nat /\ Cardinality(S) <= MaxChildren
    BY <1>1, FS_Subset, FS_CardinalityType
<1> QED BY <1>0, <1>2, <1>3

\* The planner's one call and one of every batch leave what a retry may use:
\* so a single level of retries stays within the budget.
LEMMA CallsStep ==
    ASSUME MaxDepth <= 1, IInv, [Next]_vars, NEW r \in Runs, CallsArePlanned(r)
    PROVE  CallsArePlanned(r)'
<1> DEFINE w == Cardinality(WaitingOf(r))
           d == Cardinality(DOMAIN batches[r])
<1>0. /\ calls \in [Runs -> Nat] /\ depth \in [Runs -> 0..MaxDepth] /\ pc \in [Runs -> Nodes]
      /\ work \in [Runs -> [Children -> Child]] /\ batches \in [Runs -> Partitions]
      /\ TypeOK /\ WorkersRest /\ RecursionLeft
    BY DEF IInv, TypeOK, Partitions
<1>c. /\ w \in Nat /\ d \in 0..MaxChildren /\ calls[r] \in Nat /\ depth[r] \in Nat
      /\ MaxChildren \in Nat /\ MaxModelCalls \in Nat /\ 1 + MaxChildren <= MaxModelCalls
      /\ MaxDepth \in Nat
    BY <1>0, CountsFinite, ResearchAssumption DEF ResearchAssumption
<1>1. CASE Local(r)' = Local(r)
    <2>1. /\ pc'[r] = pc[r] /\ work'[r] = work[r] /\ calls'[r] = calls[r]
          /\ depth'[r] = depth[r] /\ batches'[r] = batches[r]
        BY <1>1 DEF Local
    <2> QED BY <2>1 DEF CallsArePlanned, WaitingOf
<1>2. CASE Begin(r)
    <2>1. pc'[r] = "plan" /\ calls'[r] = 1
        BY <1>0, <1>2 DEF Begin
    <2> QED BY <1>c, <2>1 DEF CallsArePlanned
<1>3. CASE Plan(r) \/ Discover(r)
    <2>1. /\ pc[r] \in {"plan", "discover"} /\ pc'[r] \in {"discover", "partition"}
          /\ calls' = calls
        BY <1>0, <1>3 DEF Plan, Discover
    <2> QED BY <1>c, <2>1 DEF CallsArePlanned
<1>4. CASE Partition(r)
    <2>1. PICK size \in BatchSizes :
              LET bs == Partitioned(evidence[r], size) IN
              /\ batches' = [batches EXCEPT ![r] = bs]
              /\ work' = [work EXCEPT ![r] =
                     [b \in Children |-> IF b \in DOMAIN bs THEN Waiting ELSE Off]]
              /\ pc' = [pc EXCEPT ![r] = IF DOMAIN bs = {} THEN "compose" ELSE "worker"]
        BY <1>4 DEF Partition
    <2> DEFINE bs == Partitioned(evidence[r], size)
    <2>2. bs \in Partitions
        BY <1>0, PartitionedType, ResearchAssumption DEF TypeOK, ResearchAssumption
    <2>3. /\ batches'[r] = bs /\ pc'[r] \in {"compose", "worker"}
          /\ work'[r] = [b \in Children |-> IF b \in DOMAIN bs THEN Waiting ELSE Off]
        BY <1>0, <2>1
    <2>4. calls'[r] = 1
        BY <1>4 DEF Partition, CallsArePlanned
    <2> HIDE DEF bs
    <2>5. WaitingOf(r)' = DOMAIN batches'[r]
        <3>1. DOMAIN bs \subseteq Children
            BY <2>2 DEF Partitions
        <3>2. WaitingOf(r)' = {b \in Children : work'[r][b].st = "waiting"}
            BY DEF WaitingOf
        <3>3. \A b \in Children : work'[r][b].st = "waiting" <=> b \in DOMAIN bs
            BY <2>3 DEF Waiting, Off
        <3> QED BY <2>3, <3>1, <3>2, <3>3
    <2>6. Cardinality(DOMAIN batches'[r]) \in Nat
        <3>1. DOMAIN bs \subseteq Children
            BY <2>2 DEF Partitions
        <3>2. IsFiniteSet(Children)
            <4>1. MaxChildren \in Int /\ 1 \in Int
                BY <1>c
            <4> QED BY <4>1, FS_Interval DEF Children
        <3> QED BY <2>3, <3>1, <3>2, FS_Subset, FS_CardinalityType
    <2>7. calls'[r] + Cardinality(WaitingOf(r)') <= 1 + Cardinality(DOMAIN batches'[r])
        BY <2>4, <2>5, <2>6
    <2> QED BY <1>c, <2>3, <2>4, <2>7 DEF CallsArePlanned
<1>5. CASE JoinWorkers(r)
    <2>1. /\ pc[r] = "worker" /\ pc'[r] = "reduce" /\ UNCHANGED <<calls, batches>>
        BY <1>0, <1>5 DEF JoinWorkers
    <2>2. calls[r] + w <= 1 + d
        BY <2>1 DEF CallsArePlanned
    <2>3. calls[r] <= 1 + d
        BY <1>c, <2>2
    <2> QED BY <2>1, <2>3 DEF CallsArePlanned
<1>6. CASE Reduce(r)
    <2>1. /\ pc[r] = "reduce" /\ pc'[r] \in {"retry_gaps", "compose"}
          /\ UNCHANGED <<calls, batches, depth>>
        BY <1>0, <1>6 DEF Reduce, RouteAfterReduce
    <2> QED BY <2>1 DEF CallsArePlanned
<1>7. CASE RetryGaps(r)
    <2>1. /\ pc[r] = "retry_gaps" /\ pc'[r] = "retrying" /\ UNCHANGED <<calls, batches>>
          /\ work'[r] = [b \in Children |-> IF b \in Retried(r) THEN Waiting ELSE Off]
        BY <1>0, <1>7 DEF RetryGaps, channels
    <2>2. depth[r] = 0
        <3>1. depth[r] < MaxDepth
            BY <1>0, <2>1 DEF RecursionLeft
        <3> QED BY <1>c, <3>1
    <2>3. calls[r] <= 1 + d /\ calls[r] <= MaxModelCalls
        BY <2>1, <2>2 DEF CallsArePlanned
    <2> DEFINE gaps == FailedBatches(outcomes[r]) \cap DOMAIN batches[r]
               left == IF MaxModelCalls > 1 + d THEN MaxModelCalls - (1 + d) ELSE 0
    <2>4. Retried(r) = {b \in gaps : Cardinality({c \in gaps : c < b}) < left}
        BY DEF Retried
    <2>5. left \in Nat /\ calls[r] + left <= MaxModelCalls
        BY <1>c, <2>3
    <2>6. gaps \in SUBSET Children
        BY <1>0, CountsFinite
    <2> HIDE DEF gaps, left
    <2>7. Cardinality(Retried(r)) <= left /\ Retried(r) \subseteq Children
        BY <2>4, <2>5, <2>6, RankBounds
    <2>8. WaitingOf(r)' = Retried(r)
        BY <2>1, <2>7 DEF WaitingOf, Waiting, Off
    <2>9. Cardinality(Retried(r)) \in Nat
        <3>1. IsFiniteSet(Children)
            BY <1>c, FS_Interval DEF Children
        <3> QED BY <2>7, <3>1, FS_Subset, FS_CardinalityType
    <2>10. calls'[r] + Cardinality(WaitingOf(r)') <= MaxModelCalls /\ calls'[r] <= MaxModelCalls
        BY <1>c, <2>1, <2>3, <2>5, <2>7, <2>8, <2>9
    <2> QED BY <2>1, <2>10 DEF CallsArePlanned
<1>8. CASE JoinRetries(r)
    <2>1. /\ pc'[r] = "reduce" /\ calls' = calls /\ depth'[r] = depth[r] + 1
        BY <1>0, <1>8 DEF JoinRetries
    <2>2. depth'[r] # 0
        BY <1>c, <2>1
    <2> QED BY <2>1, <2>2 DEF CallsArePlanned
<1>9. CASE Compose(r) \/ RunTimeout(r)
    <2>1. pc'[r] \in {"done", "failed"} /\ calls' = calls
        BY <1>0, <1>9 DEF Compose, RunTimeout
    <2> QED BY <2>1 DEF CallsArePlanned
<1>10. ASSUME NEW b \in Children, WorkerStep(r, b) PROVE CallsArePlanned(r)'
    <2>1. /\ UNCHANGED <<pc, batches, depth>> /\ pc[r] \in {"worker", "retrying"}
          /\ \/ calls' = calls
             \/ work[r][b].st = "waiting" /\ calls' = [calls EXCEPT ![r] = calls[r] + 1]
        BY <1>10, WorkerMoves DEF channels
    <2>2. PICK c \in Child : work' = [work EXCEPT ![r][b] = c] /\ c.st # "waiting"
        BY <1>10, WorkerMoves
    <2>3. WaitingOf(r)' = WaitingOf(r) \ {b}
        BY <1>0, <2>2 DEF WaitingOf
    <2>4. /\ b \in WaitingOf(r) => Cardinality(WaitingOf(r)') = w - 1
          /\ b \notin WaitingOf(r) => Cardinality(WaitingOf(r)') = w
        <3>1. IsFiniteSet(WaitingOf(r))
            BY <1>0, CountsFinite
        <3>2. b \in WaitingOf(r) => Cardinality(WaitingOf(r) \ {b}) = w - 1
            BY <3>1, FS_RemoveElement
        <3>3. b \notin WaitingOf(r) => WaitingOf(r) \ {b} = WaitingOf(r)
            OBVIOUS
        <3> QED BY <2>3, <3>2, <3>3
    <2>5. work[r][b].st = "waiting" => b \in WaitingOf(r)
        BY DEF WaitingOf
    <2> DEFINE v == Cardinality(WaitingOf(r)')
    <2>6. v \in Nat /\ calls'[r] \in Nat /\ calls'[r] + v <= calls[r] + w
        <3>0. v \in Nat
            <4>1. IsFiniteSet(WaitingOf(r)) 
                BY <1>0, CountsFinite
            <4>2. IsFiniteSet(WaitingOf(r)')
                BY <2>3, <4>1, FS_Subset
            <4> QED BY <4>2, FS_CardinalityType
        <3>1. CASE calls' = calls
            BY <1>c, <2>4, <3>0, <3>1
        <3>2. CASE work[r][b].st = "waiting" /\ calls' = [calls EXCEPT ![r] = calls[r] + 1]
            <4>1. calls'[r] = calls[r] + 1 /\ v = w - 1
                BY <1>0, <2>4, <2>5, <3>2
            <4> QED BY <1>c, <3>0, <4>1
        <3> QED BY <2>1, <3>1, <3>2
    <2> HIDE DEF v
    <2>7. CASE pc[r] = "worker"
        <3>1. calls[r] + w <= 1 + d
            BY <2>7 DEF CallsArePlanned
        <3>2. calls'[r] + v <= 1 + d /\ calls'[r] <= MaxModelCalls
            BY <1>c, <2>6, <3>1
        <3> QED BY <2>1, <2>7, <3>2 DEF CallsArePlanned, v
    <2>8. CASE pc[r] = "retrying"
        <3>1. calls[r] + w <= MaxModelCalls
            BY <2>8 DEF CallsArePlanned
        <3>2. calls'[r] + v <= MaxModelCalls /\ calls'[r] <= MaxModelCalls
            BY <1>c, <2>6, <3>1
        <3> QED BY <2>1, <2>8, <3>2 DEF CallsArePlanned, v
    <2> QED BY <2>1, <2>7, <2>8
<1> QED BY <1>0, <1>1, <1>2, <1>3, <1>4, <1>5, <1>6, <1>7, <1>8, <1>9, <1>10, LocalStep
        DEF Node

\* The planner, the fan-out and the retry of a run together make no more model
\* calls than its plan's budget, however its workers answer, fail and expire.
\* The planner of the program allows one level of retries.
THEOREM BudgetHolds ==
    ASSUME MaxDepth <= 1
    PROVE  Spec => []BudgetRespected
<1> DEFINE Planned == \A r \in Runs : CallsArePlanned(r)
<1>1. Init => Planned
    BY ResearchAssumption DEF Init, CallsArePlanned, ResearchAssumption
<1>2. IInv /\ Planned /\ [Next]_vars => Planned'
    BY CallsStep
<1>3. Planned => BudgetRespected
    BY DEF CallsArePlanned, BudgetRespected
<1> QED BY InvHolds, <1>1, <1>2, <1>3, PTL DEF Spec

-----------------------------------------------------------------------------
(* A run that has a thread of its own begins with empty channels.          *)

LEMMA FreshStep ==
    ASSUME ThreadIsFresh, IInv, [Next]_vars, NEW r \in Runs, Fresh(r)
    PROVE  Fresh(r)'
<1>0. /\ pc \in [Runs -> Nodes] /\ sends \in [Runs -> 0..MaxSends]
      /\ batches \in [Runs -> Partitions] /\ outcomes \in [Runs -> Seq(Round)]
      /\ findings \in [Runs -> SUBSET Finding] /\ selected \in [Runs -> SUBSET Docs]
      /\ events \in [Runs -> Seq(Event)] /\ TypeOK
      /\ answer \in [Runs -> [claims : SUBSET Finding, incomplete : BOOLEAN,
                              docs : SUBSET Docs]]
    BY DEF IInv, TypeOK, Partitions, Event
<1>n. sends[r] \in Nat /\ MaxSends \in Nat
    BY <1>0, ResearchAssumption DEF ResearchAssumption
<1>1. CASE Local(r)' = Local(r)
    BY <1>1 DEF Local, Fresh
<1>2. CASE Begin(r)
    <2>1. pc'[r] = "plan" /\ sends'[r] = sends[r] + 1 /\ sends[r] < MaxSends
        BY <1>0, <1>2 DEF Begin
    <2>2. sends'[r] # 0
        BY <1>n, <2>1
    <2>3. CASE Checkpointed
        <3>1. sends[r] = 0
            BY <1>n, <2>1, <2>3 DEF ThreadIsFresh
        <3>2. pc[r] = "idle" /\ UNCHANGED channels
            BY <1>2, <2>3, <3>1 DEF Begin, Fresh
        <3> QED BY <2>1, <2>2, <3>2 DEF Fresh, Unplanned, channels
    <2>4. CASE ~Checkpointed
        <3>1. /\ batches'[r] = <<>> /\ outcomes'[r] = <<>> /\ findings'[r] = {}
              /\ selected'[r] = {} /\ answer'[r] = NoAnswer /\ events'[r] = <<>>
            BY <1>0, <1>2, <2>4 DEF Begin
        <3> QED BY <2>1, <2>2, <3>1 DEF Fresh
    <2> QED BY <2>3, <2>4
<1>3. CASE Plan(r) \/ Discover(r)
    <2>1. /\ pc[r] \in {"plan", "discover"} /\ pc'[r] \in {"discover", "partition"}
          /\ UNCHANGED <<sends, batches, outcomes, findings, selected, answer>>
        BY <1>0, <1>3 DEF Plan, Discover
    <2> QED BY <2>1 DEF Fresh, Unplanned
<1>4. CASE Partition(r)
    <2>1. /\ pc[r] = "partition" /\ pc'[r] \in {"compose", "worker"}
          /\ UNCHANGED <<sends, outcomes, findings, selected, answer>>
        BY <1>0, <1>4 DEF Partition
    <2> QED BY <2>1 DEF Fresh, Unplanned
<1>5. CASE JoinWorkers(r) \/ JoinRetries(r) \/ Reduce(r)
    <2>1. /\ pc[r] \in {"worker", "retrying", "reduce"}
          /\ pc'[r] \in {"reduce", "retry_gaps", "compose"}
          /\ UNCHANGED <<sends, answer>>
        BY <1>0, <1>5 DEF JoinWorkers, JoinRetries, Reduce, RouteAfterReduce
    <2> QED BY <2>1 DEF Fresh, Unplanned
<1>6. CASE RetryGaps(r) \/ RunTimeout(r)
    <2>1. /\ pc[r] \notin {"done", "idle"} /\ pc'[r] \in {"retrying", "failed"}
          /\ UNCHANGED <<sends, answer>>
        BY <1>0, <1>6 DEF RetryGaps, RunTimeout, TimedOut, Active, Ended, channels
    <2> QED BY <2>1 DEF Fresh, Unplanned
<1>7. CASE Compose(r)
    <2>1. pc[r] = "compose" /\ pc'[r] = "done" /\ UNCHANGED sends
        BY <1>0, <1>7 DEF Compose
    <2> QED BY <2>1 DEF Fresh, Unplanned
<1>8. ASSUME NEW b \in Children, WorkerStep(r, b) PROVE Fresh(r)'
    <2>1. UNCHANGED <<pc, sends, channels>>
        BY <1>8, WorkerMoves
    <2> QED BY <2>1 DEF Fresh, channels
<1> QED BY <1>0, <1>1, <1>2, <1>3, <1>4, <1>5, <1>6, <1>7, <1>8, LocalStep DEF Node

\* Two lists of events, one behind the other.
LEMMA EventsConcat ==
    ASSUME NEW s \in Seq(Event), NEW t \in Seq(Event)
    PROVE  /\ s \o t \in Seq(Event) /\ Len(s \o t) = Len(s) + Len(t)
           /\ \A i \in 1..(Len(s) + Len(t)) :
                  (s \o t)[i] = IF i <= Len(s) THEN s[i] ELSE t[i - Len(s)]
BY ConcatProperties

\* What a node adds continues the numbers of the channel and leaves what is
\* there as it is.
LEMMA EmitExtends ==
    ASSUME NEW log \in Seq(Event), NEW types \in Seq(EventTypes),
           \A i \in DOMAIN log : log[i].seq = i - 1
    PROVE  /\ DOMAIN Emit(log, types) = 1..(Len(log) + Len(types))
           /\ Len(Emit(log, types)) = Len(log) + Len(types)
           /\ \A i \in 1..Len(log) : Emit(log, types)[i] = log[i]
           /\ \A i \in 1..(Len(log) + Len(types)) :
                  /\ Emit(log, types)[i].seq = i - 1
                  /\ i > Len(log) => Emit(log, types)[i].type = types[i - Len(log)]
<1> DEFINE new == [i \in 1..Len(types) |-> [seq |-> Len(log) + i - 1, type |-> types[i]]]
<1>1. Len(log) \in Nat /\ Len(types) \in Nat /\ DOMAIN log = 1..Len(log)
    OBVIOUS
<1>2. new \in Seq(Event) /\ Len(new) = Len(types)
    <2>1. \A i \in 1..Len(types) : types[i] \in EventTypes /\ Len(log) + i - 1 \in Nat
        BY <1>1
    <2>2. \A i \in 1..Len(types) : [seq |-> Len(log) + i - 1, type |-> types[i]] \in Event
        BY <2>1 DEF Event
    <2> QED BY <1>1, <2>2
<1>3. \A i \in 1..Len(types) : new[i].seq = Len(log) + i - 1 /\ new[i].type = types[i]
    OBVIOUS
<1>4. Emit(log, types) = log \o new
    BY DEF Emit
<1> HIDE DEF new
<1>5. /\ Emit(log, types) \in Seq(Event) /\ Len(Emit(log, types)) = Len(log) + Len(types)
      /\ \A i \in 1..(Len(log) + Len(types)) :
             Emit(log, types)[i] = IF i <= Len(log) THEN log[i] ELSE new[i - Len(log)]
    <2>1. /\ log \o new \in Seq(Event) /\ Len(log \o new) = Len(log) + Len(new)
          /\ \A i \in 1..(Len(log) + Len(new)) :
                 (log \o new)[i] = IF i <= Len(log) THEN log[i] ELSE new[i - Len(log)]
        BY <1>2, EventsConcat
    <2> QED BY <1>2, <1>4, <2>1
<1>6. ASSUME NEW i \in 1..(Len(log) + Len(types)), i > Len(log)
      PROVE  /\ Emit(log, types)[i].seq = i - 1
             /\ Emit(log, types)[i].type = types[i - Len(log)]
    <2>1. i - Len(log) \in 1..Len(types) /\ Emit(log, types)[i] = new[i - Len(log)]
        BY <1>1, <1>5, <1>6
    <2>2. Len(log) + (i - Len(log)) - 1 = i - 1
        BY <1>1
    <2> QED BY <1>3, <2>1, <2>2
<1>7. ASSUME NEW i \in 1..Len(log) PROVE Emit(log, types)[i] = log[i]
    BY <1>1, <1>5
<1>8. ASSUME NEW i \in 1..(Len(log) + Len(types)) PROVE Emit(log, types)[i].seq = i - 1
    <2>1. CASE i > Len(log)
        BY <1>6, <2>1
    <2>2. CASE i <= Len(log)
        <3>1. i \in 1..Len(log)
            BY <1>1, <2>2
        <3> QED BY <1>1, <1>7, <3>1
    <2> QED BY <1>1, <2>1, <2>2
<1> QED BY <1>1, <1>5, <1>6, <1>7, <1>8

\* Every node but compose adds events of a run that goes on.
LEMMA StreamGoesOn ==
    ASSUME TypeOK, NEW r \in Runs, StreamGrows(r), pc[r] # "done",
           NEW types \in Seq(EventTypes), \A i \in DOMAIN types : types[i] # "run.completed",
           \/ Len(events[r]) >= 1 /\ events[r][1].type = "run.started"
           \/ events[r] = <<>> /\ types # <<>> /\ types[1] = "run.started",
           events'[r] = Emit(events[r], types), pc'[r] # "done"
    PROVE  StreamGrows(r)'
<1> DEFINE log == events[r]
           out == events'[r]
<1>1. log \in Seq(Event) /\ \A i \in DOMAIN log : log[i].seq = i - 1
    BY DEF TypeOK, Event, StreamGrows
<1>2. Len(log) \in Nat /\ Len(types) \in Nat /\ DOMAIN log = 1..Len(log)
    BY <1>1
<1>3. /\ DOMAIN out = 1..(Len(log) + Len(types)) /\ Len(out) = Len(log) + Len(types)
      /\ \A i \in 1..Len(log) : out[i] = log[i]
      /\ \A i \in 1..(Len(log) + Len(types)) :
             out[i].seq = i - 1 /\ (i > Len(log) => out[i].type = types[i - Len(log)])
    <2>1. out = Emit(log, types)
        OBVIOUS
    <2> HIDE DEF log, out
    <2>2. /\ DOMAIN Emit(log, types) = 1..(Len(log) + Len(types))
          /\ Len(Emit(log, types)) = Len(log) + Len(types)
          /\ \A i \in 1..Len(log) : Emit(log, types)[i] = log[i]
          /\ \A i \in 1..(Len(log) + Len(types)) :
                 /\ Emit(log, types)[i].seq = i - 1
                 /\ i > Len(log) => Emit(log, types)[i].type = types[i - Len(log)]
        BY <1>1, EmitExtends
    <2> QED BY <2>1, <2>2
<1>4. \A i \in DOMAIN log : log[i].type # "run.completed"
    BY DEF StreamGrows
<1>5. \/ Len(log) >= 1 /\ log[1].type = "run.started"
      \/ Len(log) = 0 /\ types # <<>> /\ types[1] = "run.started"
    OBVIOUS
<1>6. \A i \in DOMAIN types : types[i] # "run.completed"
    OBVIOUS
<1> HIDE DEF log
<1>7. Len(out) >= 1 /\ out[1].type = "run.started"
    <2>1. CASE Len(log) >= 1 /\ log[1].type = "run.started"
        BY <1>2, <1>3, <2>1
    <2>2. CASE Len(log) = 0 /\ types # <<>> /\ types[1] = "run.started"
        <3>1. Len(types) >= 1
            BY <1>2, <2>2
        <3>2. out[1].type = types[1 - 0]
            BY <1>2, <1>3, <2>2, <3>1
        <3> QED BY <1>2, <1>3, <2>2, <3>1, <3>2
    <2> QED BY <1>5, <2>1, <2>2
<1>8. ASSUME NEW i \in DOMAIN out PROVE out[i].type # "run.completed"
    <2>1. CASE i <= Len(log)
        BY <1>2, <1>3, <1>4, <2>1
    <2>2. CASE i > Len(log)
        <3>1. i - Len(log) \in 1..Len(types)
            BY <1>2, <1>3, <2>2
        <3> QED BY <1>3, <1>6, <2>2, <3>1
    <2> QED BY <1>2, <1>3, <2>1, <2>2
<1> QED BY <1>3, <1>7, <1>8 DEF StreamGrows

\* The stream of a run: numbered one by one, begun by its plan and ended by its
\* composition.
LEMMA StreamStep ==
    ASSUME ThreadIsFresh, IInv, [Next]_vars, NEW r \in Runs, Fresh(r), StreamGrows(r)
    PROVE  StreamGrows(r)'
<1>0. /\ pc \in [Runs -> Nodes] /\ TypeOK /\ events \in [Runs -> Seq(Event)]
    BY DEF IInv, TypeOK, Event
<1>same. ASSUME events'[r] = events[r],
                \/ pc'[r] = pc[r]
                \/ pc'[r] = "failed" /\ pc[r] # "done"
                \/ pc'[r] # "done" /\ pc[r] \notin {"done", "idle", "plan", "failed"}
         PROVE  StreamGrows(r)'
    BY <1>same DEF StreamGrows
<1>on. ASSUME pc[r] \notin {"done", "idle", "plan", "failed"}, pc'[r] # "done",
              NEW types \in Seq(EventTypes),
              \A i \in DOMAIN types : types[i] # "run.completed",
              events' = [events EXCEPT ![r] = Emit(@, types)]
       PROVE  StreamGrows(r)'
    <2>1. Len(events[r]) >= 1 /\ events[r][1].type = "run.started"
        BY <1>on DEF StreamGrows
    <2>2. events'[r] = Emit(events[r], types)
        BY <1>0, <1>on
    <2> QED BY <1>0, <1>on, <2>1, <2>2, StreamGoesOn
<1>1. CASE Local(r)' = Local(r)
    BY <1>1, <1>same DEF Local
<1>2. CASE Begin(r)
    <2>1. Fresh(r)' /\ pc'[r] = "plan"
        BY <1>0, <1>2, FreshStep DEF Begin
    <2>2. events'[r] = <<>>
        BY <2>1 DEF Fresh
    <2> QED BY <2>1, <2>2 DEF StreamGrows
<1>3. CASE Plan(r)
    <2> DEFINE types == <<"run.started", "node.started", "research.planned", "node.completed">>
    <2>1. /\ types \in Seq(EventTypes) /\ types # <<>> /\ types[1] = "run.started"
          /\ \A i \in DOMAIN types : types[i] # "run.completed"
        BY DEF EventTypes
    <2>2. events[r] = <<>> /\ pc[r] = "plan"
        BY <1>3 DEF Plan, Fresh
    <2>3. pc'[r] = "discover" /\ events'[r] = Emit(events[r], types)
        BY <1>0, <1>3 DEF Plan
    <2> HIDE DEF types
    <2> QED BY <1>0, <2>1, <2>2, <2>3, StreamGoesOn
<1>4. CASE Discover(r)
    <2> DEFINE types ==
            <<"node.started", "retrieval.started", "retrieval.completed", "node.completed">>
    <2>1. types \in Seq(EventTypes) /\ \A i \in DOMAIN types : types[i] # "run.completed"
        BY DEF EventTypes
    <2>2. /\ pc[r] = "discover" /\ pc'[r] = "partition"
          /\ events' = [events EXCEPT ![r] = Emit(@, types)]
        BY <1>0, <1>4 DEF Discover
    <2> HIDE DEF types
    <2> QED BY <2>1, <2>2, <1>on
<1>5. CASE Partition(r)
    <2> DEFINE types == <<"node.started", "node.completed">>
    <2>1. types \in Seq(EventTypes) /\ \A i \in DOMAIN types : types[i] # "run.completed"
        BY DEF EventTypes
    <2>2. /\ pc[r] = "partition" /\ pc'[r] \in {"compose", "worker"}
          /\ events' = [events EXCEPT ![r] = Emit(@, types)]
        BY <1>0, <1>5 DEF Partition
    <2> HIDE DEF types
    <2> QED BY <2>1, <2>2, <1>on
<1>6. CASE Reduce(r)
    <2> DEFINE types == <<"research.batches_completed">>
    <2>1. types \in Seq(EventTypes) /\ \A i \in DOMAIN types : types[i] # "run.completed"
        BY DEF EventTypes
    <2>2. /\ pc[r] = "reduce" /\ pc'[r] \in {"retry_gaps", "compose"}
          /\ events' = [events EXCEPT ![r] = Emit(@, types)]
        BY <1>0, <1>6 DEF Reduce, RouteAfterReduce
    <2> HIDE DEF types
    <2> QED BY <2>1, <2>2, <1>on
<1>7. CASE JoinRetries(r)
    <2> DEFINE types == <<"research.recursion">>
    <2>1. types \in Seq(EventTypes) /\ \A i \in DOMAIN types : types[i] # "run.completed"
        BY DEF EventTypes
    <2>2. /\ pc[r] = "retrying" /\ pc'[r] = "reduce"
          /\ events' = [events EXCEPT ![r] = Emit(@, types)]
        BY <1>0, <1>7 DEF JoinRetries
    <2> HIDE DEF types
    <2> QED BY <2>1, <2>2, <1>on
<1>8. CASE JoinWorkers(r) \/ RetryGaps(r) \/ RunTimeout(r)
    <2>1. events' = events
        BY <1>8 DEF JoinWorkers, RetryGaps, RunTimeout, channels
    <2>2. \/ pc[r] \in {"worker", "retry_gaps"} /\ pc'[r] \in {"reduce", "retrying"}
          \/ pc[r] # "done" /\ pc'[r] = "failed"
        BY <1>0, <1>8 DEF JoinWorkers, RetryGaps, RunTimeout, TimedOut, Active, Ended
    <2> QED BY <2>1, <2>2, <1>same
<1>9. CASE Compose(r)
    <2> DEFINE types ==
            <<"answer.delta", "validation.completed", "answer.completed", "run.completed">>
               log == events[r]
               out == events'[r]
    <2>1. /\ types \in Seq(EventTypes) /\ Len(types) = 4
          /\ \A i \in 1..4 : types[i] = "run.completed" <=> i = 4
        BY DEF EventTypes
    <2>2. /\ pc[r] = "compose" /\ pc'[r] = "done" /\ out = Emit(log, types)
        BY <1>0, <1>9 DEF Compose
    <2>3. /\ log \in Seq(Event) /\ Len(log) \in Nat /\ Len(log) >= 1
          /\ DOMAIN log = 1..Len(log)
          /\ log[1].type = "run.started"
          /\ \A i \in DOMAIN log : log[i].seq = i - 1 /\ log[i].type # "run.completed"
        BY <1>0, <2>2 DEF StreamGrows
    <2> HIDE DEF types, log
    <2>4. /\ DOMAIN out = 1..(Len(log) + 4) /\ Len(out) = Len(log) + 4
          /\ \A i \in 1..Len(log) : out[i] = log[i]
          /\ \A i \in 1..(Len(log) + 4) :
                 out[i].seq = i - 1 /\ (i > Len(log) => out[i].type = types[i - Len(log)])
        <3> HIDE DEF out
        <3>1. /\ DOMAIN Emit(log, types) = 1..(Len(log) + Len(types))
              /\ Len(Emit(log, types)) = Len(log) + Len(types)
              /\ \A i \in 1..Len(log) : Emit(log, types)[i] = log[i]
              /\ \A i \in 1..(Len(log) + Len(types)) :
                     /\ Emit(log, types)[i].seq = i - 1
                     /\ i > Len(log) => Emit(log, types)[i].type = types[i - Len(log)]
            BY <2>1, <2>3, EmitExtends
        <3> QED BY <2>1, <2>2, <3>1
    <2>5. out[1].type = "run.started" /\ Len(out) >= 1
        BY <2>3, <2>4
    <2>6. ASSUME NEW i \in DOMAIN out PROVE out[i].type = "run.completed" <=> i = Len(out)
        <3>1. CASE i <= Len(log)
            BY <2>3, <2>4, <3>1
        <3>2. CASE i > Len(log)
            <4>1. i - Len(log) \in 1..4 /\ (i - Len(log) = 4 <=> i = Len(out))
                BY <2>3, <2>4, <3>2
            <4> QED BY <2>1, <2>4, <3>2, <4>1
        <3> QED BY <2>3, <2>4, <3>1, <3>2
    <2> QED BY <2>2, <2>4, <2>5, <2>6 DEF StreamGrows
<1>10. ASSUME NEW b \in Children, WorkerStep(r, b) PROVE StreamGrows(r)'
    <2>1. UNCHANGED <<pc, events>>
        BY <1>10, WorkerMoves DEF channels
    <2> QED BY <2>1, <1>same
<1> QED BY <1>0, <1>1, <1>2, <1>3, <1>4, <1>5, <1>6, <1>7, <1>8, <1>9, <1>10, LocalStep
        DEF Node

\* A finished run's events are numbered without gap or repetition, begin with
\* run.started and hold one run.completed, at the end: whatever failed, was
\* retried or timed out, if the run had a thread of its own.
THEOREM StreamsAreWellFormed ==
    ASSUME ThreadIsFresh
    PROVE  Spec => []StreamWellFormed
<1> DEFINE Streams == \A r \in Runs : Fresh(r) /\ StreamGrows(r)
<1>1. Init => Streams
    BY DEF Init, Fresh, StreamGrows, Unplanned
<1>2. IInv /\ Streams /\ [Next]_vars => Streams'
    BY FreshStep, StreamStep
<1>3. ASSUME IInv, Streams PROVE StreamWellFormed
    <2> SUFFICES ASSUME NEW r \in Runs, pc[r] = "done"
                 PROVE  /\ \A i \in DOMAIN events[r] : events[r][i].seq = i - 1
                        /\ events[r][1].type = "run.started"
                        /\ {i \in DOMAIN events[r] : events[r][i].type = "run.completed"}
                               = {Len(events[r])}
        BY DEF StreamWellFormed
    <2>1. events[r] \in Seq(Event) /\ StreamGrows(r)
        BY <1>3 DEF IInv, TypeOK, Event
    <2>2. Len(events[r]) \in DOMAIN events[r]
        BY <2>1 DEF StreamGrows
    <2> QED BY <2>1, <2>2 DEF StreamGrows
<1> QED BY InvHolds, <1>1, <1>2, <1>3, PTL DEF Spec

-----------------------------------------------------------------------------
(* What becomes of a run's batches, from the partition to the answer.       *)

\* Nothing is reduced to nothing.
LEMMA NothingReduced == Grouped(<<>>) = {} /\ MergedEvidence(<<>>) = {}
<1>1. \A b \in Children : LatestByAttempt(<<>>, b) = {}
    BY DEF LatestByAttempt
<1>2. Reduced(<<>>) = {}
    BY <1>1 DEF Reduced
<1> QED BY <1>2 DEF Grouped, MergedEvidence

\* A run that has not partitioned anything owes nothing to a batch.
LEMMA UnplannedAnswer ==
    ASSUME NEW r \in Runs, Fresh(r)', WorkersRest', pc'[r] \in Unplanned
    PROVE  AnswerInv(r)'
<1>1. /\ batches'[r] = <<>> /\ outcomes'[r] = <<>>
      /\ pc'[r] \in {"idle", "plan", "discover", "partition"}
    BY DEF Fresh, Unplanned
<1>2. work'[r] = AllOff
    BY <1>1 DEF WorkersRest
<1>3. BatchesAreEvidence(r)' /\ OutcomesAreOfBatches(r)'
    BY <1>1, <1>2
       DEF BatchesAreEvidence, OutcomesAreOfBatches, OfItsBatch, AllOff, Off
<1>4. FanOuts(r)' /\ SuccessIsLast(r)' /\ Reductions(r)' /\ Answered(r)'
    BY <1>1 DEF FanOuts, SuccessIsLast, Reductions, Answered
<1> QED BY <1>3, <1>4 DEF AnswerInv

\* The partition hands out what was found and nothing else.
LEMMA PartitionAnswer ==
    ASSUME IInv, NEW r \in Runs, Fresh(r), Partition(r)
    PROVE  AnswerInv(r)'
<1>0. /\ pc \in [Runs -> Nodes] /\ work \in [Runs -> [Children -> Child]]
      /\ batches \in [Runs -> Partitions] /\ evidence[r] \in SUBSET Docs
    BY DEF IInv, TypeOK, Partitions
<1>1. PICK size \in BatchSizes :
          LET bs == Partitioned(evidence[r], size) IN
          /\ batches' = [batches EXCEPT ![r] = bs]
          /\ work' = [work EXCEPT ![r] =
                 [b \in Children |-> IF b \in DOMAIN bs THEN Waiting ELSE Off]]
          /\ pc' = [pc EXCEPT ![r] = IF DOMAIN bs = {} THEN "compose" ELSE "worker"]
    BY DEF Partition
<1> DEFINE bs == Partitioned(evidence[r], size)
<1>2. /\ \A b \in DOMAIN bs : bs[b] \subseteq evidence[r]
      /\ DOMAIN bs \subseteq Children
    BY DEF Partitioned
<1>3. /\ batches'[r] = bs /\ evidence' = evidence
      /\ work'[r] = [b \in Children |-> IF b \in DOMAIN bs THEN Waiting ELSE Off]
      /\ pc'[r] = IF DOMAIN bs = {} THEN "compose" ELSE "worker"
    BY <1>0, <1>1 DEF Partition
<1>4. /\ outcomes'[r] = <<>> /\ findings'[r] = {} /\ selected'[r] = {}
    BY DEF Partition, Fresh, Unplanned
<1> HIDE DEF bs
<1>5. BatchesAreEvidence(r)'
    BY <1>2, <1>3 DEF BatchesAreEvidence
<1>6. OutcomesAreOfBatches(r)'
    BY <1>3, <1>4 DEF OutcomesAreOfBatches, OfItsBatch, Waiting, Off
<1>7. FanOuts(r)'
    BY <1>2, <1>3, <1>4 DEF FanOuts, Waiting
<1>8. SuccessIsLast(r)'
    BY <1>4 DEF SuccessIsLast
<1>9. Reductions(r)'
    BY <1>4, NothingReduced DEF Reductions
<1>10. Answered(r)'
    BY <1>3 DEF Answered
<1> QED BY <1>5, <1>6, <1>7, <1>8, <1>9, <1>10 DEF AnswerInv

\* A fan-out that ends adds an outcome of every batch it was of.
LEMMA JoinAnswer ==
    ASSUME IInv, NEW r \in Runs, Fresh(r), AnswerInv(r), JoinWorkers(r) \/ JoinRetries(r)
    PROVE  AnswerInv(r)'
<1> DEFINE os == outcomes[r]
           n == Len(os)
<1>0. /\ pc \in [Runs -> Nodes] /\ work \in [Runs -> [Children -> Child]]
      /\ outcomes \in [Runs -> Seq(Round)] /\ os \in Seq(Round) /\ n \in Nat
      /\ DOMAIN os = 1..n
    BY DEF IInv, TypeOK
<1>1. PICK a \in 0..1 :
          /\ outcomes' = [outcomes EXCEPT ![r] = Append(@, [attempt |-> a, of |-> work[r]])]
          /\ n >= 1 => a = 1
    <2>1. CASE JoinWorkers(r)
        <3>1. n = 0
            BY <2>1 DEF JoinWorkers, Fresh, Unplanned
        <3> QED BY <2>1, <3>1 DEF JoinWorkers
    <2>2. CASE JoinRetries(r)
        BY <2>2 DEF JoinRetries
    <2> QED BY <2>1, <2>2
<1>2. /\ work'[r] = AllOff /\ pc'[r] = "reduce" /\ PendingOf(r) = {}
      /\ UNCHANGED <<evidence, batches>>
    BY <1>0 DEF JoinWorkers, JoinRetries
<1> DEFINE new == [attempt |-> a, of |-> work[r]]
           out == outcomes'[r]
<1>3. new \in Round
    BY <1>0 DEF Round
<1>4. out = Append(os, new)
    BY <1>0, <1>1
<1>5. new.attempt = a /\ new.of = work[r]
    OBVIOUS
<1> HIDE DEF os, new, out, n
<1>6. /\ Len(out) = n + 1 /\ DOMAIN out = 1..(n + 1)
      /\ \A i \in 1..n : out[i] = os[i]
      /\ out[n + 1] = new
    BY <1>0, <1>3, <1>4 DEF n
<1>7. \A b \in Children : work[r][b].st \in {"off", "failure", "success"}
    BY <1>0, <1>2 DEF PendingOf, Child
<1>8. /\ \A b \in Children : OfItsBatch(work[r][b], batches[r], b)
      /\ \A i \in 1..n, b \in Children : /\ OfItsBatch(os[i].of[b], batches[r], b)
                                         /\ os[i].of[b].st \in {"off", "failure", "success"}
    BY <1>0 DEF AnswerInv, OutcomesAreOfBatches, os
<1>9. \A i \in 1..n, b \in Children :
          work[r][b].st # "off" => os[i].of[b].st # "success"
    <2>1. CASE JoinWorkers(r)
        <3>1. n = 0
            BY <2>1 DEF JoinWorkers, Fresh, Unplanned, n, os
        <3> QED BY <3>1
    <2>2. CASE JoinRetries(r)
        BY <1>0, <2>2 DEF JoinRetries, AnswerInv, SuccessIsLast, os
    <2> QED BY <2>1, <2>2
<1>10. /\ n >= 1 => \A b \in DOMAIN batches[r] : os[1].of[b].st # "off"
       /\ n = 0 => \A b \in DOMAIN batches[r] : work[r][b].st # "off"
    <2>1. n >= 1 => \A b \in DOMAIN batches[r] : os[1].of[b].st # "off"
        BY DEF AnswerInv, FanOuts, os, n
    <2>2. n = 0 => pc[r] = "worker"
        BY DEF JoinWorkers, JoinRetries, AnswerInv, FanOuts, os, n
    <2>3. pc[r] = "worker" => \A b \in DOMAIN batches[r] : work[r][b].st # "off"
        BY DEF AnswerInv, FanOuts
    <2> QED BY <2>1, <2>2, <2>3
<1>11. BatchesAreEvidence(r)'
    BY <1>2 DEF AnswerInv, BatchesAreEvidence
<1>12. OutcomesAreOfBatches(r)'
    <2>1. \A b \in Children : OfItsBatch(work'[r][b], batches'[r], b)
        BY <1>2 DEF OfItsBatch, AllOff, Off
    <2>2. ASSUME NEW i \in 1..(n + 1), NEW b \in Children
          PROVE  /\ OfItsBatch(out[i].of[b], batches'[r], b)
                 /\ out[i].of[b].st \in {"off", "failure", "success"}
        <3>1. CASE i \in 1..n
            BY <1>2, <1>6, <1>8, <3>1
        <3>2. CASE i = n + 1
            BY <1>2, <1>5, <1>6, <1>7, <1>8, <3>2
        <3> QED BY <1>0, <3>1, <3>2
    <2> QED BY <1>6, <2>1, <2>2 DEF OutcomesAreOfBatches, out
<1>13. FanOuts(r)'
    <2>1. Len(out) >= 1
        BY <1>0, <1>6
    <2>2. \A b \in DOMAIN batches'[r] : out[1].of[b].st # "off"
        BY <1>0, <1>2, <1>5, <1>6, <1>10
    <2>3. ASSUME NEW i \in 1..(n + 1), i > 1 PROVE out[i].attempt = 1
        <3>1. CASE i \in 1..n
            <4>1. os[i].attempt = 1
                BY <1>0, <2>3, <3>1 DEF AnswerInv, FanOuts, os
            <4> QED BY <1>6, <3>1, <4>1
        <3>2. CASE i = n + 1
            BY <1>0, <1>1, <1>5, <1>6, <2>3, <3>2
        <3> QED BY <1>0, <3>1, <3>2
    <2> QED BY <1>2, <1>6, <2>1, <2>2, <2>3 DEF FanOuts, out
<1>14. SuccessIsLast(r)'
    <2>1. ASSUME NEW i \in 1..(n + 1), NEW j \in 1..(n + 1), NEW b \in Children,
                 i < j, out[i].of[b].st = "success"
          PROVE  out[j].of[b].st = "off"
        <3>1. CASE j \in 1..n
            <4>1. i \in 1..n
                BY <1>0, <2>1, <3>1
            <4>2. os[i].of[b].st = "success" => os[j].of[b].st = "off"
                BY <1>0, <2>1, <3>1, <4>1 DEF AnswerInv, SuccessIsLast, os
            <4> QED BY <1>6, <2>1, <3>1, <4>1, <4>2
        <3>2. CASE j = n + 1
            <4>1. i \in 1..n
                BY <1>0, <2>1, <3>2
            <4>2. work[r][b].st = "off"
                BY <1>6, <1>9, <2>1, <4>1
            <4> QED BY <1>5, <1>6, <3>2, <4>2
        <3> QED BY <1>0, <3>1, <3>2
    <2> QED BY <1>2, <1>6, <2>1 DEF SuccessIsLast, out
<1>15. Reductions(r)' /\ Answered(r)'
    BY <1>2 DEF Reductions, Answered
<1> QED BY <1>11, <1>12, <1>13, <1>14, <1>15 DEF AnswerInv

\* A batch is retried because its last outcome is a failure: it has never
\* succeeded.
LEMMA RetryAnswer ==
    ASSUME IInv, NEW r \in Runs, AnswerInv(r), RetryGaps(r)
    PROVE  AnswerInv(r)'
<1>0. /\ pc \in [Runs -> Nodes] /\ work \in [Runs -> [Children -> Child]]
      /\ outcomes[r] \in Seq(Round) /\ DOMAIN outcomes[r] \subseteq Nat
    BY DEF IInv, TypeOK
<1>1. /\ pc[r] = "retry_gaps" /\ pc'[r] = "retrying"
      /\ work'[r] = [b \in Children |-> IF b \in Retried(r) THEN Waiting ELSE Off]
      /\ UNCHANGED channels
    BY <1>0 DEF RetryGaps
<1>2. Retried(r) \subseteq FailedBatches(outcomes[r]) \cap DOMAIN batches[r]
    BY DEF Retried
<1>3. ASSUME NEW b \in FailedBatches(outcomes[r]), NEW i \in DOMAIN outcomes[r]
      PROVE  outcomes[r][i].of[b].st # "success"
    <2>1. b \in Children
        BY DEF FailedBatches
    <2>2. PICK j \in DOMAIN outcomes[r] :
              /\ outcomes[r][j].of[b].st = "failure"
              /\ outcomes[r][i].of[b].st # "off" => i <= j
        BY DEF FailedBatches, LatestByArrival
    <2>3. SUFFICES ASSUME outcomes[r][i].of[b].st = "success" PROVE FALSE
        OBVIOUS
    <2>4. i <= j /\ i # j
        BY <2>2, <2>3
    <2>5. i < j
        BY <1>0, <2>4
    <2> QED BY <2>1, <2>2, <2>3, <2>5 DEF AnswerInv, SuccessIsLast
<1>4. BatchesAreEvidence(r)' /\ Reductions(r)' /\ Answered(r)'
    BY <1>1 DEF AnswerInv, BatchesAreEvidence, Reductions, Answered, channels
<1>5. OutcomesAreOfBatches(r)'
    <2>1. \A b \in Children : OfItsBatch(work'[r][b], batches[r], b)
        BY <1>1, <1>2 DEF OfItsBatch, Waiting, Off
    <2> QED BY <1>1, <2>1 DEF AnswerInv, OutcomesAreOfBatches, channels
<1>6. FanOuts(r)'
    BY <1>1 DEF AnswerInv, FanOuts, channels
<1>7. SuccessIsLast(r)'
    <2>1. \A i \in DOMAIN outcomes[r], b \in Children :
              work'[r][b].st # "off" => outcomes[r][i].of[b].st # "success"
        BY <1>1, <1>2, <1>3 DEF Off
    <2> QED BY <1>1, <2>1 DEF AnswerInv, SuccessIsLast, channels
<1> QED BY <1>4, <1>5, <1>6, <1>7 DEF AnswerInv


\* What the reducer groups it has the evidence for: a success cites its batch.
LEMMA CitesAreMerged ==
    ASSUME NEW r \in Runs, OutcomesAreOfBatches(r), NEW f \in Grouped(outcomes[r]), NEW d \in f.cites
    PROVE  /\ d \in MergedEvidence(outcomes[r])
           /\ \E i \in DOMAIN outcomes[r], b \in DOMAIN batches[r] :
                 d \in batches[r][b] /\ d \in outcomes[r][i].of[b].found[f.key]
<1> DEFINE os == outcomes[r]
<1>1. PICK k \in Keys : f = [key |-> k, cites |-> UNION {c.found[k] : c \in Reduced(os)}]
    BY DEF Grouped
<1>2. PICK c \in Reduced(os) : d \in c.found[k]
    BY <1>1
<1>3. PICK b \in Children, i \in DOMAIN os :
          i \in LatestByAttempt(os, b) /\ c = os[i].of[b] /\ c.st = "success"
    BY DEF Reduced, LatestByAttempt
<1>4. OfItsBatch(c, batches[r], b)
    BY <1>3 DEF OutcomesAreOfBatches
<1>5. b \in DOMAIN batches[r] /\ c.docs = batches[r][b] /\ d \in batches[r][b]
    BY <1>2, <1>3, <1>4 DEF OfItsBatch
<1>6. d \in MergedEvidence(os)
    BY <1>2, <1>5 DEF MergedEvidence
<1>7. f.key = k
    BY <1>1
<1> QED BY <1>2, <1>3, <1>4, <1>5, <1>6, <1>7

\* A worker's success is what the reducer keeps of its batch: the batch is not
\* tried again, and no attempt behind it comes before it in the sort.
LEMMA SuccessIsKept ==
    ASSUME NEW r \in Runs, TypeOK, AnswerInv(r), NEW i \in DOMAIN outcomes[r],
           NEW b \in Children, outcomes[r][i].of[b].st = "success"
    PROVE  outcomes[r][i].of[b] \in Reduced(outcomes[r])
<1> DEFINE os == outcomes[r]
<1>1. os \in Seq(Round) /\ DOMAIN os = 1..Len(os) /\ Len(os) \in Nat
    BY DEF TypeOK
<1>2. ASSUME NEW j \in DOMAIN os, os[j].of[b].st # "off" PROVE Precedes(os, j, i)
    <2>1. j <= i
        <3>1. ~ (i < j)
            BY <1>2 DEF AnswerInv, SuccessIsLast
        <3>2. i \in Nat /\ j \in Nat
            BY <1>1, <1>2
        <3> QED BY <3>1, <3>2
    <2>2. os[j].attempt \in 0..1
        <3>1. os[j] \in Round
            BY <1>1
        <3> QED BY <3>1 DEF Round
    <2>3. i > 1 => os[i].attempt = 1
        BY DEF AnswerInv, FanOuts
    <2>4. CASE j = i
        BY <1>1, <2>2, <2>4 DEF Precedes
    <2>5. CASE j # i
        <3>1. i > 1
            BY <1>1, <2>1, <2>5
        <3> QED BY <2>1, <2>2, <2>3, <3>1 DEF Precedes
    <2> QED BY <2>4, <2>5
<1>3. i \in LatestByAttempt(os, b)
    BY <1>2 DEF LatestByAttempt
<1> QED BY <1>3 DEF Reduced

\* The composer finds every citation among the evidence.
LEMMA ComposeAnswer ==
    ASSUME IInv, NEW r \in Runs, AnswerInv(r), Compose(r)
    PROVE  AnswerInv(r)'
<1>0. /\ pc \in [Runs -> Nodes]
      /\ answer \in [Runs -> [claims : SUBSET Finding, incomplete : BOOLEAN,
                              docs : SUBSET Docs]]
    BY DEF IInv, TypeOK
<1>1. /\ pc[r] = "compose" /\ pc'[r] = "done"
      /\ UNCHANGED <<evidence, batches, work, outcomes, findings, selected>>
    BY <1>0 DEF Compose
<1>2. \A f \in findings[r] : f.cites \subseteq selected[r]
    BY <1>1, CitesAreMerged DEF AnswerInv, Reductions
<1>3. answer'[r] = IF findings[r] # {}
                   THEN [claims |-> findings[r], docs |-> selected[r],
                         incomplete |-> FailedBatches(outcomes[r]) # {}]
                   ELSE SafeAnswer(selected[r])
    <2>1. CASE findings[r] # {}
        BY <1>0, <1>2, <2>1 DEF Compose
    <2>2. CASE findings[r] = {}
        BY <1>0, <2>2 DEF Compose
    <2> QED BY <2>1, <2>2
<1>4. Answered(r)'
    BY <1>1, <1>3 DEF Answered
<1>5. BatchesAreEvidence(r)' /\ OutcomesAreOfBatches(r)' /\ SuccessIsLast(r)'
    BY <1>1 DEF AnswerInv, BatchesAreEvidence, OutcomesAreOfBatches, SuccessIsLast
<1>6. FanOuts(r)' /\ Reductions(r)'
    BY <1>1 DEF AnswerInv, FanOuts, Reductions
<1> QED BY <1>4, <1>5, <1>6 DEF AnswerInv

\* The reducer's findings and evidence are those of the outcomes it has.
LEMMA ReduceAnswer ==
    ASSUME IInv, NEW r \in Runs, AnswerInv(r), Reduce(r)
    PROVE  AnswerInv(r)'
<1>0. /\ pc \in [Runs -> Nodes] /\ findings \in [Runs -> SUBSET Finding]
      /\ selected \in [Runs -> SUBSET Docs]
    BY DEF IInv, TypeOK
<1>1. /\ pc[r] = "reduce" /\ pc'[r] \in {"retry_gaps", "compose"}
      /\ UNCHANGED <<evidence, batches, work, outcomes, answer>>
    BY <1>0 DEF Reduce, RouteAfterReduce
<1>2. /\ findings'[r] = Grouped(outcomes[r])
      /\ selected'[r] = MergedEvidence(outcomes[r])
    BY <1>0 DEF Reduce
<1>3. BatchesAreEvidence(r)' /\ OutcomesAreOfBatches(r)' /\ SuccessIsLast(r)'
    BY <1>1 DEF AnswerInv, BatchesAreEvidence, OutcomesAreOfBatches, SuccessIsLast
<1>4. FanOuts(r)' /\ Reductions(r)' /\ Answered(r)'
    BY <1>1, <1>2 DEF AnswerInv, FanOuts, Reductions, Answered
<1> QED BY <1>3, <1>4 DEF AnswerInv

LEMMA AnswerStep ==
    ASSUME ThreadIsFresh, IInv, [Next]_vars, NEW r \in Runs, Fresh(r), AnswerInv(r)
    PROVE  AnswerInv(r)'
<1>0. /\ pc \in [Runs -> Nodes] /\ work \in [Runs -> [Children -> Child]] /\ TypeOK
    BY DEF IInv, TypeOK
<1>1. CASE Local(r)' = Local(r)
    BY <1>1 DEF Local, AnswerInv, BatchesAreEvidence, OutcomesAreOfBatches, FanOuts,
                SuccessIsLast, Reductions, Answered
<1>2. CASE Begin(r) \/ Plan(r) \/ Discover(r)
    <2>1. pc'[r] \in Unplanned
        BY <1>0, <1>2 DEF Begin, Plan, Discover, Unplanned
    <2> QED BY <2>1, FreshStep, RestStep, UnplannedAnswer
<1>3. CASE RunTimeout(r)
    <2>1. /\ pc'[r] = "failed" /\ work'[r] = AllOff /\ UNCHANGED channels
        BY <1>0, <1>3 DEF RunTimeout
    <2>2. BatchesAreEvidence(r)' /\ FanOuts(r)' /\ Reductions(r)' /\ Answered(r)'
        BY <2>1 DEF AnswerInv, BatchesAreEvidence, FanOuts, Reductions, Answered, channels
    <2>3. OutcomesAreOfBatches(r)' /\ SuccessIsLast(r)'
        <3>1. \A b \in Children : work'[r][b] = Off /\ OfItsBatch(Off, batches[r], b)
            BY <2>1 DEF OfItsBatch, AllOff, Off
        <3> QED BY <2>1, <3>1 DEF AnswerInv, OutcomesAreOfBatches, SuccessIsLast, Off, channels
    <2> QED BY <2>2, <2>3 DEF AnswerInv
<1>4. ASSUME NEW b \in Children, WorkerStep(r, b) PROVE AnswerInv(r)'
    <2>1. /\ UNCHANGED <<pc, sends, channels>>
          /\ pc[r] \in {"worker", "retrying"} /\ work[r][b].st # "off"
        BY <1>4, WorkerMoves
    <2>2. PICK c \in Child : /\ work' = [work EXCEPT ![r][b] = c]
                             /\ c.st \notin {"off", "waiting"}
                             /\ OfItsBatch(c, batches[r], b)
        BY <1>4, WorkerMoves
    <2>3. work'[r] = [work[r] EXCEPT ![b] = c] /\ work[r] \in [Children -> Child]
        BY <1>0, <2>2
    <2>4. BatchesAreEvidence(r)' /\ Reductions(r)' /\ Answered(r)'
        BY <2>1 DEF AnswerInv, BatchesAreEvidence, Reductions, Answered, channels
    <2>5. OutcomesAreOfBatches(r)'
        <3>1. \A a \in Children : OfItsBatch(work'[r][a], batches[r], a)
            BY <2>2, <2>3 DEF AnswerInv, OutcomesAreOfBatches
        <3> QED BY <2>1, <3>1 DEF AnswerInv, OutcomesAreOfBatches, channels
    <2>6. FanOuts(r)'
        <3>1. pc[r] = "worker" => \A a \in DOMAIN batches[r] : work'[r][a].st # "off"
            <4>1. DOMAIN batches[r] \subseteq Children
                BY DEF IInv, TypeOK
            <4> QED BY <2>2, <2>3, <4>1 DEF AnswerInv, FanOuts
        <3> QED BY <2>1, <3>1 DEF AnswerInv, FanOuts, channels
    <2>7. SuccessIsLast(r)'
        <3>1. pc[r] = "retrying" => \A i \in DOMAIN outcomes[r], a \in Children :
                 work'[r][a].st # "off" => outcomes[r][i].of[a].st # "success"
            BY <2>1, <2>3 DEF AnswerInv, SuccessIsLast
        <3> QED BY <2>1, <3>1 DEF AnswerInv, SuccessIsLast, channels
    <2> QED BY <2>4, <2>5, <2>6, <2>7 DEF AnswerInv
<1> QED BY <1>0, <1>1, <1>2, <1>3, <1>4, LocalStep, PartitionAnswer, JoinAnswer, RetryAnswer,
           ReduceAnswer, ComposeAnswer DEF Node

\* What holds of the channels of every run whose thread is its own.
LEMMA AnswersHold ==
    ASSUME ThreadIsFresh
    PROVE  Spec => [](TypeOK /\ \A r \in Runs : Fresh(r) /\ AnswerInv(r))
<1> DEFINE Answers == \A r \in Runs : Fresh(r) /\ AnswerInv(r)
<1>1. Init => Answers
    <2> SUFFICES ASSUME Init, NEW r \in Runs PROVE Fresh(r) /\ AnswerInv(r)
        OBVIOUS
    <2>1. /\ pc[r] = "idle" /\ batches[r] = <<>> /\ outcomes[r] = <<>> /\ work[r] = AllOff
          /\ Fresh(r)
        BY DEF Init, Fresh, Unplanned
    <2>2. BatchesAreEvidence(r) /\ OutcomesAreOfBatches(r)
        BY <2>1 DEF BatchesAreEvidence, OutcomesAreOfBatches, OfItsBatch, AllOff, Off
    <2>3. FanOuts(r) /\ SuccessIsLast(r) /\ Reductions(r) /\ Answered(r)
        BY <2>1 DEF FanOuts, SuccessIsLast, Reductions, Answered
    <2> QED BY <2>1, <2>2, <2>3 DEF AnswerInv
<1>2. IInv /\ Answers /\ [Next]_vars => Answers'
    BY FreshStep, AnswerStep
<1>3. IInv => TypeOK
    BY DEF IInv
<1> QED BY InvHolds, <1>1, <1>2, <1>3, PTL DEF Spec

\* No claim of an answer cites what no worker read: CitationsWereRead for any
\* number of runs, documents, batches and retries, whatever a model cites.
THEOREM ClaimsAreRead ==
    ASSUME ThreadIsFresh
    PROVE  Spec => []CitationsWereRead
<1> DEFINE Answers == \A r \in Runs : Fresh(r) /\ AnswerInv(r)
<1>1. ASSUME TypeOK, Answers PROVE CitationsWereRead
    <2> SUFFICES ASSUME NEW r \in Runs, NEW f \in answer[r].claims, NEW d \in Docs, d \in f.cites
                 PROVE  /\ d \in answer[r].docs \cap evidence[r]
                        /\ \E i \in DOMAIN outcomes[r], b \in DOMAIN batches[r] :
                              d \in batches[r][b] /\ d \in outcomes[r][i].of[b].found[f.key]
        BY DEF CitationsWereRead
    <2>1. Fresh(r) /\ AnswerInv(r)
        BY <1>1
    <2>2. pc[r] = "done"
        BY <2>1 DEF Fresh, NoAnswer
    <2>3. /\ answer[r].claims = findings[r] /\ answer[r].docs = selected[r]
          /\ findings[r] = Grouped(outcomes[r]) /\ selected[r] = MergedEvidence(outcomes[r])
        BY <2>1, <2>2 DEF AnswerInv, Answered, Reductions, SafeAnswer
    <2>4. OutcomesAreOfBatches(r) /\ BatchesAreEvidence(r)
        BY <2>1 DEF AnswerInv
    <2>5. /\ d \in answer[r].docs
          /\ \E i \in DOMAIN outcomes[r], b \in DOMAIN batches[r] :
                d \in batches[r][b] /\ d \in outcomes[r][i].of[b].found[f.key]
        BY <2>3, <2>4, CitesAreMerged
    <2>6. d \in evidence[r]
        BY <2>4, <2>5 DEF BatchesAreEvidence
    <2> QED BY <2>5, <2>6
<1> QED BY AnswersHold, <1>1, PTL

\* No failure among the batches, and no retry, loses what another worker found:
\* SiblingsSurvive for every batch and every order in which workers end.
THEOREM FindingsSurvive ==
    ASSUME ThreadIsFresh
    PROVE  Spec => []SiblingsSurvive
<1> DEFINE Answers == \A r \in Runs : Fresh(r) /\ AnswerInv(r)
<1>1. ASSUME TypeOK, Answers PROVE SiblingsSurvive
    <2> SUFFICES ASSUME NEW r \in Runs, pc[r] = "done", NEW i \in DOMAIN outcomes[r],
                        NEW b \in Children, NEW k \in Keys,
                        outcomes[r][i].of[b].found[k] # {}
                 PROVE  \E f \in answer[r].claims :
                           f.key = k /\ outcomes[r][i].of[b].found[k] \subseteq f.cites
        BY DEF SiblingsSurvive
    <2> DEFINE c == outcomes[r][i].of[b]
               f == [key |-> k, cites |-> UNION {e.found[k] : e \in Reduced(outcomes[r])}]
    <2>1. AnswerInv(r)
        BY <1>1
    <2>2. c.st = "success"
        <3>1. OfItsBatch(c, batches[r], b)
            BY <2>1 DEF AnswerInv, OutcomesAreOfBatches
        <3> QED BY <3>1 DEF OfItsBatch, NoFindings
    <2>3. c \in Reduced(outcomes[r])
        BY <1>1, <2>1, <2>2, SuccessIsKept
    <2>4. c.found[k] \subseteq f.cites /\ f.key = k
        BY <2>3
    <2>5. f \in Grouped(outcomes[r])
        BY <2>4 DEF Grouped
    <2>6. f \in findings[r]
        BY <2>1, <2>5 DEF AnswerInv, Reductions
    <2>7. answer[r].claims = findings[r]
        BY <2>1, <2>6 DEF AnswerInv, Answered
    <2> QED BY <2>4, <2>6, <2>7
<1> QED BY AnswersHold, <1>1, PTL

\* An answer that does not say it is incomplete has read every batch: the mark
\* and the reducer disagree on no batch, though one goes by the place of an
\* outcome in the list and the other by its attempt.
THEOREM CompleteAnswersCover ==
    ASSUME ThreadIsFresh
    PROVE  Spec => []CompleteMeansCovered
<1> DEFINE Answers == \A r \in Runs : Fresh(r) /\ AnswerInv(r)
<1>1. ASSUME TypeOK, Answers PROVE CompleteMeansCovered
    <2> SUFFICES ASSUME NEW r \in Runs, pc[r] = "done", ~answer[r].incomplete,
                        NEW b \in DOMAIN batches[r]
                 PROVE  batches[r][b] \subseteq answer[r].docs
        BY DEF CompleteMeansCovered
    <2> DEFINE os == outcomes[r]
               tries == {i \in DOMAIN os : os[i].of[b].st # "off"}
    <2>1. /\ AnswerInv(r) /\ b \in Children /\ os \in Seq(Round)
          /\ Len(os) \in Nat /\ DOMAIN os = 1..Len(os)
        BY <1>1 DEF TypeOK
    <2>2. /\ answer[r].docs = MergedEvidence(os)
          /\ FailedBatches(os) = {}
        <3>1. answer[r] # SafeAnswer(selected[r])
            BY DEF SafeAnswer
        <3>2. answer[r] = [claims |-> findings[r], docs |-> selected[r],
                           incomplete |-> FailedBatches(os) # {}]
            BY <2>1, <3>1 DEF AnswerInv, Answered
        <3>3. answer[r].docs = selected[r]
            BY <3>2
        <3>4. answer[r].incomplete = (FailedBatches(os) # {})
            BY <3>2
        <3> QED BY <2>1, <3>3, <3>4 DEF AnswerInv, Reductions
    <2>3. 1 \in tries /\ tries \subseteq 0..Len(os)
        BY <2>1 DEF AnswerInv, FanOuts
    <2> HIDE DEF tries
    <2>4. PICK i \in tries : \A j \in tries : j <= i
        BY <2>1, <2>3, GreatestNatural
    <2> USE DEF tries
    <2>5. i \in LatestByArrival(os, b)
        BY <2>4 DEF LatestByArrival
    <2>6. os[i].of[b].st = "success"
        BY <2>1, <2>2, <2>4, <2>5 DEF FailedBatches, AnswerInv, OutcomesAreOfBatches
    <2>7. os[i].of[b] \in Reduced(os)
        BY <1>1, <2>1, <2>4, <2>6, SuccessIsKept
    <2>8. os[i].of[b].docs = batches[r][b]
        BY <2>1, <2>4, <2>6 DEF AnswerInv, OutcomesAreOfBatches, OfItsBatch
    <2> QED BY <2>2, <2>7, <2>8 DEF MergedEvidence
<1> QED BY AnswersHold, <1>1, PTL


-----------------------------------------------------------------------------
(* The two deadlines.  A worker is started before the deadline of the        *)
(* workers, and time stands still for a run that holds results and awaits    *)
(* nothing: what a run has by then it has before its own deadline.          *)

Planned == Nodes \ (Ended \cup {"idle", "plan"})
Succeeding(r) ==
    \/ \E b \in Children : work[r][b].st \in {"running", "success"}
    \/ \E i \in DOMAIN outcomes[r], b \in Children : outcomes[r][i].of[b].st = "success"
Timely(r) ==
    /\ pc[r] = "plan" => age[r] <= PlanLatency
    /\ pc[r] \in Planned => due[r] <= PlanLatency + PlanWindow
    /\ pc[r] \in Planned /\ Succeeding(r) => age[r] <= due[r]

\* A run that has started no worker has nothing of any.
LEMMA UnplannedHasNothing ==
    ASSUME NEW r \in Runs, Fresh(r), WorkersRest, pc[r] \in Unplanned
    PROVE  ~Succeeding(r)
<1>1. outcomes[r] = <<>> /\ work[r] = AllOff
    BY DEF Fresh, Unplanned, WorkersRest
<1> QED BY <1>1 DEF Succeeding, AllOff, Off

\* The steps of a run are no time for another one, and move no deadline of it.
LEMMA ClocksOfOthers ==
    ASSUME TypeOK, NEW r \in Runs, NEW q \in Runs, q # r,
           \/ Begin(q) \/ Node(q) \/ RunTimeout(q) \/ \E b \in Children : WorkerStep(q, b)
    PROVE  age'[r] = age[r] /\ due'[r] = due[r]
<1>0. age \in [Runs -> 0..RunDeadline] /\ due \in [Runs -> 0..(RunDeadline + PlanWindow)]
    BY DEF TypeOK
<1>1. CASE Begin(q)
    BY <1>0, <1>1 DEF Begin
<1>2. CASE Plan(q)
    BY <1>0, <1>2 DEF Plan
<1>3. CASE Discover(q) \/ Partition(q) \/ JoinWorkers(q) \/ Reduce(q) \/ RetryGaps(q)
           \/ JoinRetries(q) \/ Compose(q) \/ RunTimeout(q)
    BY <1>3 DEF Discover, Partition, JoinWorkers, Reduce, RetryGaps, JoinRetries, Compose,
                RunTimeout
<1>4. CASE \E b \in Children : WorkerStep(q, b)
    BY <1>4 DEF WorkerStep, StartWorker, FinishWorker, ExpireWorker
<1> QED BY <1>1, <1>2, <1>3, <1>4 DEF Node

\* Time passes for the run as little as for the others.
LEMMA TimelyTick ==
    ASSUME IInv, NEW r \in Runs, Fresh(r), Timely(r), Tick
    PROVE  Timely(r)'
<1>0. /\ age[r] \in Nat /\ due[r] \in Nat /\ pc[r] \in Nodes
      /\ PlanLatency \in Nat /\ PlanWindow \in Nat
    BY ResearchAssumption DEF IInv, TypeOK, ResearchAssumption
<1>1. /\ UNCHANGED <<pc, due, work, outcomes>>
      /\ age'[r] = IF Active(r) THEN age[r] + 1 ELSE age[r]
      /\ Active(r) => Awaiting(r)
    BY DEF Tick, channels
<1>2. Succeeding(r)' = Succeeding(r)
    BY <1>1 DEF Succeeding
<1>3. CASE ~Active(r)
    BY <1>1, <1>2, <1>3 DEF Timely
<1>4. CASE pc[r] = "plan" /\ age[r] < PlanLatency
    <2>1. age'[r] <= PlanLatency
        BY <1>0, <1>1, <1>4
    <2> QED BY <1>1, <1>4, <2>1 DEF Timely, Planned
<1>5. CASE pc[r] = "discover"
    <2>1. ~Succeeding(r)
        BY <1>5, UnplannedHasNothing DEF Unplanned, IInv
    <2> QED BY <1>1, <1>2, <1>5, <2>1 DEF Timely
<1>6. CASE pc[r] \in {"worker", "retrying"} /\ age[r] < due[r]
    <2>1. age'[r] <= due[r]
        BY <1>0, <1>1, <1>6
    <2> QED BY <1>1, <1>6, <2>1 DEF Timely
<1> QED BY <1>1, <1>3, <1>4, <1>5, <1>6 DEF Awaiting

LEMMA TimelyStep ==
    ASSUME ThreadIsFresh, IInv, [Next]_vars, NEW r \in Runs, Fresh(r), Timely(r)
    PROVE  Timely(r)'
<1>0. /\ age \in [Runs -> 0..RunDeadline] /\ due \in [Runs -> 0..(RunDeadline + PlanWindow)]
      /\ pc \in [Runs -> Nodes] /\ work \in [Runs -> [Children -> Child]]
      /\ outcomes \in [Runs -> Seq(Round)] /\ outcomes[r] \in Seq(Round)
      /\ TypeOK /\ WorkersRest
    BY DEF IInv, TypeOK
<1>n. age[r] \in Nat /\ due[r] \in Nat /\ PlanLatency \in Nat /\ PlanWindow \in Nat
    BY <1>0, ResearchAssumption DEF ResearchAssumption
<1>f. Fresh(r)' /\ WorkersRest'
    BY FreshStep, RestStep
<1>1. CASE Begin(r)
    <2>1. pc'[r] = "plan" /\ age'[r] = 0
        BY <1>0, <1>1 DEF Begin
    <2> QED BY <1>n, <2>1 DEF Timely, Planned
<1>2. CASE Plan(r)
    <2>1. /\ pc[r] = "plan" /\ pc'[r] = "discover" /\ age' = age
          /\ due'[r] = age[r] + PlanWindow /\ UNCHANGED <<work, outcomes>>
        BY <1>0, <1>2 DEF Plan, WorkerDeadline
    <2>2. ~Succeeding(r)
        BY <1>0, <2>1, UnplannedHasNothing DEF Unplanned
    <2>3. ~Succeeding(r)'
        BY <2>1, <2>2 DEF Succeeding
    <2>4. due'[r] <= PlanLatency + PlanWindow
        BY <1>n, <2>1 DEF Timely
    <2> QED BY <2>1, <2>3, <2>4 DEF Timely
<1>3. CASE Discover(r) \/ Partition(r)
    <2>1. /\ pc[r] \in {"discover", "partition"} /\ UNCHANGED <<age, due, outcomes>>
          /\ pc'[r] \in {"partition", "worker", "compose"}
          /\ outcomes[r] = <<>>
        BY <1>0, <1>3 DEF Discover, Partition, Fresh, Unplanned
    <2>2. \A b \in Children : work'[r][b].st \notin {"running", "success"}
        <3>1. CASE Discover(r)
            <4>1. work'[r] = AllOff
                BY <1>0, <3>1 DEF Discover, WorkersRest
            <4> QED BY <4>1 DEF AllOff, Off
        <3>2. CASE Partition(r)
            <4>1. PICK bs : work' = [work EXCEPT ![r] =
                                [b \in Children |-> IF b \in DOMAIN bs THEN Waiting ELSE Off]]
                BY <3>2 DEF Partition
            <4> QED BY <1>0, <4>1 DEF Waiting, Off
        <3> QED BY <1>3, <3>1, <3>2
    <2>3. ~Succeeding(r)'
        BY <2>1, <2>2 DEF Succeeding
    <2> QED BY <2>1, <2>3 DEF Timely, Planned, Nodes, Ended
<1>4. CASE JoinWorkers(r) \/ JoinRetries(r)
    <2>1. /\ pc[r] \in Planned /\ pc'[r] = "reduce" /\ UNCHANGED <<age, due>>
          /\ work'[r] = AllOff
        BY <1>0, <1>4 DEF JoinWorkers, JoinRetries, Planned, Nodes, Ended
    <2>2. PICK new \in Round : outcomes'[r] = Append(outcomes[r], new) /\ new.of = work[r]
        <3>1. PICK a \in 0..1 :
                 outcomes'[r] = Append(outcomes[r], [attempt |-> a, of |-> work[r]])
            BY <1>0, <1>4 DEF JoinWorkers, JoinRetries
        <3>2. [attempt |-> a, of |-> work[r]] \in Round
            BY <1>0 DEF Round
        <3> QED BY <3>1, <3>2
    <2>3. ASSUME Succeeding(r)' PROVE Succeeding(r)
        <3>1. PICK i \in DOMAIN outcomes'[r], b \in Children :
                  outcomes'[r][i].of[b].st = "success"
            BY <2>1, <2>3 DEF Succeeding, AllOff, Off
        <3>2. \/ i \in DOMAIN outcomes[r] /\ outcomes'[r][i] = outcomes[r][i]
              \/ outcomes'[r][i] = new
            BY <1>0, <2>2
        <3> QED BY <2>2, <3>1, <3>2 DEF Succeeding
    <2> QED BY <2>1, <2>3 DEF Timely, Planned, Nodes, Ended
<1>5. CASE Reduce(r) \/ RetryGaps(r)
    <2>1. /\ pc[r] \in {"reduce", "retry_gaps"} /\ UNCHANGED <<age, due, outcomes>>
          /\ pc'[r] # "plan"
        BY <1>0, <1>5 DEF Reduce, RouteAfterReduce, RetryGaps, channels
    <2>2. \A b \in Children : work'[r][b].st \notin {"running", "success"}
        <3>1. CASE Reduce(r)
            <4>1. work'[r] = AllOff
                BY <1>0, <3>1 DEF Reduce, WorkersRest
            <4> QED BY <4>1 DEF AllOff, Off
        <3>2. CASE RetryGaps(r)
            BY <1>0, <3>2 DEF RetryGaps, Waiting, Off
        <3> QED BY <1>5, <3>1, <3>2
    <2>3. Succeeding(r)' => Succeeding(r)
        BY <2>1, <2>2 DEF Succeeding
    <2> QED BY <2>1, <2>3 DEF Timely, Planned, Nodes, Ended
<1>6. CASE Compose(r) \/ RunTimeout(r)
    <2>1. pc'[r] \in {"done", "failed"}
        BY <1>0, <1>6 DEF Compose, RunTimeout
    <2> QED BY <2>1 DEF Timely, Planned, Ended
<1>7. ASSUME NEW b \in Children, WorkerStep(r, b) PROVE Timely(r)'
    <2>1. /\ UNCHANGED <<pc, age, due, outcomes>> /\ pc[r] \in Planned /\ pc[r] # "plan"
        BY <1>7, WorkerMoves
           DEF WorkerStep, StartWorker, FinishWorker, ExpireWorker, channels, Planned, Nodes, Ended
    <2>2. CASE StartWorker(r, b)
        <3>1. age[r] <= due[r]
            BY <1>n, <2>2 DEF StartWorker
        <3> QED BY <2>1, <3>1 DEF Timely
    <2>3. CASE FinishWorker(r, b)
        <3>1. Succeeding(r)
            BY <2>3 DEF FinishWorker, Succeeding
        <3> QED BY <2>1, <3>1 DEF Timely
    <2>4. CASE ExpireWorker(r, b)
        <3>1. work' = [work EXCEPT ![r][b] = Failure]
            BY <2>4 DEF ExpireWorker
        <3>2. \A c \in Children : work'[r][c] = work[r][c] \/ work'[r][c] = Failure
            BY <1>0, <3>1
        <3>3. Succeeding(r)' => Succeeding(r)
            BY <2>1, <3>2 DEF Succeeding, Failure
        <3> QED BY <2>1, <3>3 DEF Timely
    <2> QED BY <1>7, <2>2, <2>3, <2>4 DEF WorkerStep
<1> DEFINE StepOf(q) == Begin(q) \/ Node(q) \/ RunTimeout(q) \/ \E b \in Children : WorkerStep(q, b)
<1>8. CASE StepOf(r)
    BY <1>1, <1>2, <1>3, <1>4, <1>5, <1>6, <1>7, <1>8 DEF Node
<1>9. CASE Tick
    BY <1>9, TimelyTick
<1>10. CASE Local(r)' = Local(r) /\ age'[r] = age[r] /\ due'[r] = due[r]
    <2>1. pc'[r] = pc[r] /\ work'[r] = work[r] /\ outcomes'[r] = outcomes[r]
        BY <1>10 DEF Local
    <2> QED BY <1>10, <2>1 DEF Timely, Succeeding
<1>11. StepOf(r) \/ Tick \/ (age'[r] = age[r] /\ due'[r] = due[r])
    <2>1. CASE UNCHANGED vars
        BY <2>1 DEF vars
    <2>2. ASSUME NEW q \in Runs, StepOf(q), q # r PROVE age'[r] = age[r] /\ due'[r] = due[r]
        BY <1>0, <2>2, ClocksOfOthers
    <2>3. Tick \/ UNCHANGED vars \/ \E q \in Runs : StepOf(q)
        BY DEF Next, WorkerStep
    <2> HIDE DEF StepOf
    <2> QED BY <2>1, <2>2, <2>3
<1>12. StepOf(r) \/ Local(r)' = Local(r)
    BY <1>0, LocalStep
<1> QED BY <1>8, <1>9, <1>10, <1>11, <1>12

\* The deadline of a run takes back nothing its workers achieved, as long as the
\* planner answers early enough for the workers' deadline to be the smaller one:
\* NoSuccessDiscarded for any runs, workers, windows and deadlines.
THEOREM SuccessIsNotDiscarded ==
    ASSUME ThreadIsFresh, PlanLatency + PlanWindow < RunDeadline
    PROVE  Spec => NoSuccessDiscarded
<1> DEFINE Times == \A r \in Runs : Fresh(r) /\ Timely(r)
           Kept == \A r \in Runs : pc[r] # "failed" /\ pc'[r] = "failed" =>
                      /\ \A b \in Children : work[r][b].st # "success"
                      /\ \A i \in DOMAIN outcomes[r], b \in Children :
                            outcomes[r][i].of[b].st # "success"
<1>1. Init => Times
    BY DEF Init, Fresh, Timely, Unplanned, Planned
<1>2. IInv /\ Times /\ [Next]_vars => Times'
    BY FreshStep, TimelyStep
<1>3. IInv /\ Times /\ [Next]_vars => [Kept]_vars
    <2> SUFFICES ASSUME IInv, Times, [Next]_vars, NEW r \in Runs, pc[r] # "failed",
                        pc'[r] = "failed"
                 PROVE  ~Succeeding(r)
        BY DEF Succeeding
    <2>0. /\ pc \in [Runs -> Nodes] /\ TypeOK /\ WorkersRest /\ Fresh(r) /\ Timely(r)
        BY DEF IInv, TypeOK
    <2>n. /\ age[r] \in Nat /\ due[r] \in Nat
          /\ PlanLatency \in Nat /\ PlanWindow \in Nat /\ RunDeadline \in Nat
        BY ResearchAssumption DEF IInv, TypeOK, ResearchAssumption
    <2>1. RunTimeout(r)
        <3>1. Local(r)' # Local(r)
            BY DEF Local
        <3>2. ~ (Begin(r) \/ Node(r))
            BY <2>0 DEF Begin, Node, Plan, Discover, Partition, JoinWorkers, Reduce,
                        RouteAfterReduce, RetryGaps, JoinRetries, Compose
        <3>3. ASSUME NEW b \in Children PROVE ~WorkerStep(r, b)
            BY DEF WorkerStep, StartWorker, FinishWorker, ExpireWorker
        <3> QED BY <2>0, <3>1, <3>2, <3>3, LocalStep
    <2>2. age[r] >= RunDeadline /\ pc[r] \in Planned \cup {"plan"}
        BY <2>0, <2>1 DEF RunTimeout, TimedOut, Active, Planned
    <2>3. CASE pc[r] = "plan"
        BY <2>0, <2>3, UnplannedHasNothing DEF Unplanned
    <2>4. CASE pc[r] \in Planned
        <3>1. due[r] < age[r]
            BY <2>0, <2>n, <2>2, <2>4 DEF Timely
        <3> QED BY <2>0, <2>n, <2>4, <3>1 DEF Timely
    <2> QED BY <2>2, <2>3, <2>4
<1> QED BY InvHolds, <1>1, <1>2, <1>3, PTL DEF Spec, NoSuccessDiscarded

=============================================================================
