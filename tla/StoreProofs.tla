----------------------------- MODULE StoreProofs -----------------------------
(***************************************************************************)
(* Proofs about the stores behind the API: the memories of users with their *)
(* audit trail, and the feedback with its export, for any calls, subjects   *)
(* and rows.                                                                *)
(***************************************************************************)
EXTENDS MemoryStore, FeedbackStore, TLAPS

-----------------------------------------------------------------------------
(* Memory *)

MemoryType ==
    /\ now \in Nat
    /\ stage \in [Calls -> {"admitted", "begun", "changed", "answered"}]
    /\ who \in [Calls -> Subjects]
    /\ status \in [Calls -> Int]
    /\ MemoryTypeOK

\* A call that is not answered has no status, and one that is not begun no
\* operation.
Unanswered == \A c \in Calls : stage[c] # "answered" => status[c] = 0
Unbegun == \A c \in Calls : stage[c] = "admitted" => op[c].name = "recall"

\* The id of a proposed memory is new, and no two calls propose one.
OneProposer ==
    \A c, d \in Calls :
        op[c].name = "propose" /\ op[d].name = "propose" /\ op[c].item = op[d].item => c = d
NewIdsAreFree ==
    \A c \in Calls : Doing(c, "propose") => table[op[c].item].status = "none"

\* The calls that changed the table, and those whose change is on the trail.
DidChange(c) == MemoryEvent(c) \in done
HasEvent(c) == MemoryEvent(c) \in trail

After(name) == CASE name = "propose" -> {"proposed", "active", "deleted"}
                 [] name = "confirm" -> {"active", "deleted"}
                 [] name = "delete" -> {"deleted"}

\* What they changed shows in the table, so that no other call can have made
\* the same change.
ChangesShow ==
    \A c \in Calls : DidChange(c) =>
        /\ op[c].name \in Changes
        /\ table[op[c].item].owner = who[c]
        /\ table[op[c].item].status \in After(op[c].name)
ChangedOnce ==
    \A c, d \in Calls :
        DidChange(c) /\ DidChange(d) /\ op[c].name = op[d].name /\ op[c].item = op[d].item => c = d

\* The changes are those of calls that got to theirs; the trail has those of
\* calls that are answered.
DoneByCalls ==
    /\ \A d \in done : d = MemoryEvent(d.by) /\ stage[d.by] \in {"changed", "answered"}
    /\ \A c \in Calls : stage[c] = "changed" => DidChange(c)
TrailIsDone == trail \subseteq done /\ \A e \in trail : stage[e.by] = "answered"

\* A change that is not told of has yet to be, or its call failed; no call that
\* was answered with success has one.
Told ==
    \A c \in Calls :
        /\ DidChange(c) /\ ~HasEvent(c) => stage[c] = "changed" \/ status[c] = 500
        /\ status[c] = 200 /\ op[c].name \in Changes => HasEvent(c)

MemoryInv ==
    /\ MemoryType /\ Unanswered /\ Unbegun
    /\ OneProposer /\ NewIdsAreFree
    /\ ChangesShow /\ ChangedOnce
    /\ DoneByCalls /\ TrailIsDone /\ Told

LEMMA MemoryStarts ==
    CallsInit([c \in Calls |-> "admitted"]) /\ MemoryInit => MemoryInv
  <1>1. (CHOOSE i \in Items : TRUE) \in Items /\ (CHOOSE s \in Subjects : TRUE) \in Subjects
    BY MemoryAssumption, CallsAssumption
  <1> SUFFICES ASSUME CallsInit([c \in Calls |-> "admitted"]), MemoryInit
               PROVE  MemoryInv
    OBVIOUS
  <1>2. MemoryType
    BY <1>1 DEF CallsInit, MemoryInit, MemoryType, MemoryTypeOK, NoOp, Changes
  <1>3. \A c \in Calls : stage[c] = "admitted" /\ status[c] = 0 /\ op[c] = NoOp
    BY DEF CallsInit, MemoryInit
  <1>4. done = {} /\ trail = {}
    BY DEF MemoryInit
  <1>5. \A c \in Calls : ~DidChange(c) /\ ~Doing(c, "propose")
    BY <1>3, <1>4 DEF DidChange, Doing
  <1>6. "recall" \notin Changes \cup {"propose"} /\ NoOp.name = "recall"
    BY DEF Changes, NoOp
  <1>7. Unanswered /\ Unbegun /\ OneProposer /\ NewIdsAreFree
    BY <1>3, <1>5, <1>6 DEF Unanswered, Unbegun, OneProposer, NewIdsAreFree
  <1>8. ChangesShow /\ ChangedOnce
    BY <1>5 DEF ChangesShow, ChangedOnce
  <1>9. DoneByCalls /\ TrailIsDone /\ Told
    BY <1>3, <1>4, <1>5 DEF DoneByCalls, TrailIsDone, Told
  <1> QED
    BY <1>2, <1>7, <1>8, <1>9 DEF MemoryInv

\* The statuses of refusals.
LEMMA RefusalStatus ==
    /\ StatusOf("resource_not_found") = 404
    /\ StatusOf("memory_sensitive_content_or_invalid_expiry") = 400
  BY DEF StatusOf

\* A step of one call.
OthersRest(c) ==
    \A d \in Calls \ {c} : /\ stage'[d] = stage[d] /\ op'[d] = op[d]
                           /\ status'[d] = status[d]

LEMMA MemoryTypes ==
    ASSUME MemoryInv
    PROVE  /\ now \in Nat
           /\ stage \in [Calls -> {"admitted", "begun", "changed", "answered"}]
           /\ who \in [Calls -> Subjects] /\ status \in [Calls -> Int]
           /\ op \in [Calls -> [name : Changes \cup {"recall"}, item : Items, clock : Nat,
                                expires : Nat]]
           /\ table \in [Items -> [status : {"none", "proposed", "active", "deleted"},
                                   owner : Subjects, expires : Nat]]
           /\ done \subseteq [action : Changes, item : Items, by : Calls]
           /\ trail \subseteq [action : Changes, item : Items, by : Calls]
           /\ shown \in [Calls -> SUBSET Items]
  BY DEF MemoryInv, MemoryType, MemoryTypeOK

\* A call that has no answer has no event, and one that has not got to its
\* change made none.
LEMMA NoEventYet ==
    ASSUME MemoryInv, NEW c \in Calls, stage[c] # "answered"
    PROVE  /\ ~HasEvent(c) /\ \A e \in trail : e.by # c
           /\ status[c] = 0
           /\ stage[c] # "changed" => ~DidChange(c) /\ \A d \in done : d.by # c
  <1>1. stage[c] # "changed" => \A d \in done : d.by # c
    BY DEF MemoryInv, DoneByCalls
  <1>2. \A e \in trail : e.by # c
    BY DEF MemoryInv, TrailIsDone
  <1>3. MemoryEvent(c).by = c
    BY DEF MemoryEvent
  <1> QED
    BY <1>1, <1>2, <1>3 DEF MemoryInv, Unanswered, HasEvent, DidChange

\* A step that changes neither table nor trail, after which its call has not
\* got to a change, or fails after it.
LEMMA NothingChanged ==
    ASSUME MemoryInv, NEW c \in Calls, stage[c] # "answered", stage'[c] # "changed",
           stage[c] = "changed" => op'[c] = op[c] /\ stage'[c] = "answered",
           OthersRest(c), UNCHANGED <<who, table, done, trail>>
    PROVE  ChangesShow' /\ ChangedOnce' /\ DoneByCalls' /\ TrailIsDone'
  <1>1. \A e \in trail : e.by # c
    BY NoEventYet
  <1>2. /\ DidChange(c)' <=> DidChange(c)
        /\ DidChange(c) => op'[c] = op[c]
    <2>1. CASE stage[c] = "changed"
      BY <2>1 DEF DidChange, MemoryEvent
    <2>2. CASE stage[c] # "changed"
      <3>1. ~DidChange(c) /\ \A d \in done : d.by # c
        BY <2>2, NoEventYet
      <3>2. MemoryEvent(c)'.by = c
        BY DEF MemoryEvent
      <3> QED
        BY <3>1, <3>2 DEF DidChange
    <2> QED
      BY <2>1, <2>2
  <1>3. \A d \in Calls : (DidChange(d)' <=> DidChange(d)) /\ (DidChange(d) => op'[d] = op[d])
    BY <1>2 DEF OthersRest, DidChange, MemoryEvent
  <1>4. ChangesShow' /\ ChangedOnce'
    BY <1>3 DEF MemoryInv, ChangesShow, ChangedOnce
  <1>5. DoneByCalls'
    <2>1. ASSUME NEW d \in done
          PROVE  d = MemoryEvent(d.by)' /\ stage'[d.by] \in {"changed", "answered"}
      <3>1. d.by \in Calls /\ d = MemoryEvent(d.by) /\ stage[d.by] \in {"changed", "answered"}
        BY MemoryTypes DEF MemoryInv, DoneByCalls
      <3> QED
        BY <3>1 DEF OthersRest, MemoryEvent
    <2>2. \A d \in Calls : stage'[d] = "changed" => DidChange(d)'
      BY <1>3 DEF MemoryInv, DoneByCalls, OthersRest
    <2> QED
      BY <2>1, <2>2 DEF DoneByCalls
  <1>6. TrailIsDone'
    <2>1. \A e \in trail : e.by \in Calls \ {c} /\ stage[e.by] = "answered"
      BY <1>1, MemoryTypes DEF MemoryInv, TrailIsDone
    <2> QED
      BY <2>1 DEF MemoryInv, TrailIsDone, OthersRest
  <1> QED
    BY <1>4, <1>5, <1>6

\* A step that changes a row: no other call had made the same change, and what
\* others did shows in the new row too.
LEMMA OneChanged ==
    ASSUME MemoryInv, NEW c \in Calls, stage[c] = "begun", stage'[c] = "changed",
           OthersRest(c), UNCHANGED <<who, op, trail>>,
           done' = done \cup {MemoryEvent(c)},
           NEW row \in [status : {"none", "proposed", "active", "deleted"}, owner : Subjects,
                        expires : Nat],
           table' = [table EXCEPT ![op[c].item] = row],
           op[c].name \in Changes, row.owner = who[c], row.status \in After(op[c].name),
           \A d \in Calls : DidChange(d) /\ op[d].item = op[c].item =>
               /\ op[d].name # op[c].name
               /\ row.owner = who[d] /\ row.status \in After(op[d].name)
    PROVE  ChangesShow' /\ ChangedOnce' /\ DoneByCalls' /\ TrailIsDone'
  <1>t. op[c].item \in Items /\ table'[op[c].item] = row
        /\ \A i \in Items : i # op[c].item => table'[i] = table[i]
    BY MemoryTypes
  <1>1. \A e \in trail : e.by # c
    BY NoEventYet
  <1>2. \A d \in Calls : DidChange(d)' <=> (d = c \/ DidChange(d))
    BY DEF DidChange, MemoryEvent
  <1>3. ChangesShow'
    <2> SUFFICES ASSUME NEW d \in Calls, DidChange(d)'
                 PROVE  /\ op[d].name \in Changes
                        /\ table'[op[d].item].owner = who[d]
                        /\ table'[op[d].item].status \in After(op[d].name)
      BY DEF ChangesShow
    <2>1. CASE d = c
      BY <2>1, <1>t
    <2>2. CASE d # c
      <3>1. DidChange(d) /\ op[d].item \in Items
        BY <1>2, <2>2, MemoryTypes
      <3>2. op[d].name \in Changes
        BY <3>1 DEF MemoryInv, ChangesShow
      <3>3. CASE op[d].item = op[c].item
        BY <1>t, <3>1, <3>2, <3>3
      <3>4. CASE op[d].item # op[c].item
        BY <1>t, <3>1, <3>2, <3>4 DEF MemoryInv, ChangesShow
      <3> QED
        BY <3>3, <3>4
    <2> QED
      BY <2>1, <2>2
  <1>4. ChangedOnce'
    BY <1>2 DEF MemoryInv, ChangedOnce
  <1>5. DoneByCalls'
    <2>1. \A d \in Calls : MemoryEvent(d)' = MemoryEvent(d)
      BY DEF MemoryEvent
    <2>2. ASSUME NEW d \in done'
          PROVE  d = MemoryEvent(d.by)' /\ stage'[d.by] \in {"changed", "answered"}
      <3>1. CASE d \in done
        <4>1. d.by \in Calls /\ d = MemoryEvent(d.by) /\ stage[d.by] \in {"changed", "answered"}
          BY <3>1, MemoryTypes DEF MemoryInv, DoneByCalls
        <4> QED
          BY <2>1, <4>1 DEF OthersRest
      <3>2. CASE d = MemoryEvent(c)
        BY <2>1, <3>2 DEF MemoryEvent
      <3> QED
        BY <3>1, <3>2
    <2>3. \A d \in Calls : stage'[d] = "changed" => DidChange(d)'
      BY <1>2 DEF MemoryInv, DoneByCalls, OthersRest
    <2> QED
      BY <2>2, <2>3 DEF DoneByCalls
  <1>6. TrailIsDone'
    <2>1. \A e \in trail : e.by \in Calls \ {c} /\ stage[e.by] = "answered"
      BY <1>1, MemoryTypes DEF MemoryInv, TrailIsDone
    <2> QED
      BY <2>1 DEF MemoryInv, TrailIsDone, OthersRest
  <1> QED
    BY <1>3, <1>4, <1>5, <1>6

LEMMA MemoryGoesOn == MemoryInv /\ [MemoryNext \/ MemoryTick]_memoryAll => MemoryInv'
  <1> SUFFICES ASSUME MemoryInv, [MemoryNext \/ MemoryTick]_memoryAll
               PROVE  MemoryInv'
    OBVIOUS
  <1>t. /\ MemoryType /\ Unanswered /\ Unbegun /\ OneProposer /\ NewIdsAreFree
        /\ ChangesShow /\ ChangedOnce /\ DoneByCalls /\ TrailIsDone /\ Told
    BY DEF MemoryInv
  <1>y. /\ now \in Nat
        /\ stage \in [Calls -> {"admitted", "begun", "changed", "answered"}]
        /\ who \in [Calls -> Subjects] /\ status \in [Calls -> Int]
        /\ op \in [Calls -> [name : Changes \cup {"recall"}, item : Items, clock : Nat,
                             expires : Nat]]
        /\ table \in [Items -> [status : {"none", "proposed", "active", "deleted"},
                                owner : Subjects, expires : Nat]]
        /\ done \subseteq [action : Changes, item : Items, by : Calls]
        /\ trail \subseteq [action : Changes, item : Items, by : Calls]
        /\ shown \in [Calls -> SUBSET Items]
    BY MemoryTypes
  \* A call ends without a change, in a failure or with what it recalled.
  <1>e. ASSUME NEW c \in Calls, NEW code \in Int, stage[c] # "answered", Answer(c, code),
               code = 500 \/ (stage[c] # "changed" /\ (code # 200 \/ op[c].name \notin Changes)),
               UNCHANGED <<now, who, op, table, done, trail>>, shown' \in [Calls -> SUBSET Items]
        PROVE  MemoryInv'
    <2>1. /\ stage' = [stage EXCEPT ![c] = "answered"] /\ status' = [status EXCEPT ![c] = code]
          /\ stage'[c] = "answered" /\ status'[c] = code /\ OthersRest(c)
      BY <1>y, <1>e DEF Answer, OthersRest
    <2>2. MemoryType'
      BY <1>y, <1>e, <2>1 DEF MemoryType, MemoryTypeOK
    <2>3. Unanswered' /\ Unbegun' /\ OneProposer' /\ NewIdsAreFree'
      BY <1>t, <1>e, <2>1 DEF Unanswered, Unbegun, OneProposer, NewIdsAreFree, Doing, OthersRest
    <2>4. Told'
      <3>1. \A d \in Calls : (DidChange(d)' <=> DidChange(d)) /\ (HasEvent(d)' <=> HasEvent(d))
        BY <1>e DEF DidChange, HasEvent, MemoryEvent
      <3>2. stage[c] # "changed" => ~DidChange(c)
        BY <1>e, NoEventYet
      <3> QED
        BY <1>t, <1>e, <2>1, <3>1, <3>2 DEF Told, OthersRest
    <2> QED
      BY <1>e, <2>1, <2>2, <2>3, <2>4, NothingChanged DEF MemoryInv
  \* A call changes the row of its memory.
  <1>c. ASSUME NEW c \in Calls, stage[c] = "begun", stage'[c] = "changed", OthersRest(c),
               stage' = [stage EXCEPT ![c] = "changed"], UNCHANGED <<now, who, status, op, trail, shown>>,
               done' = done \cup {MemoryEvent(c)}, op[c].name \in Changes,
               NEW row \in [status : {"none", "proposed", "active", "deleted"},
                            owner : Subjects, expires : Nat],
               table' = [table EXCEPT ![op[c].item] = row],
               ChangesShow' /\ ChangedOnce' /\ DoneByCalls' /\ TrailIsDone',
               \A d \in Calls \ {c} : Doing(d, "propose") => op[d].item # op[c].item
        PROVE  MemoryInv'
    <2>0. MemoryEvent(c) \in [action : Changes, item : Items, by : Calls]
      BY <1>y, <1>c DEF MemoryEvent
    <2>1. MemoryType'
      BY <1>y, <1>c, <2>0 DEF MemoryType, MemoryTypeOK
    <2>2. Unanswered' /\ Unbegun' /\ OneProposer'
      BY <1>t, <1>c DEF Unanswered, Unbegun, OneProposer, OthersRest
    <2>3. NewIdsAreFree'
      BY <1>t, <1>y, <1>c DEF NewIdsAreFree, Doing, OthersRest
    <2>4. Told'
      <3>1. \A d \in Calls : /\ DidChange(d)' <=> (d = c \/ DidChange(d))
                             /\ HasEvent(d)' <=> HasEvent(d)
        BY <1>c DEF DidChange, HasEvent, MemoryEvent
      <3>2. status[c] = 0
        BY <1>c, NoEventYet
      <3> QED
        BY <1>t, <1>c, <3>1, <3>2 DEF Told, OthersRest
    <2> QED
      BY <1>c, <2>1, <2>2, <2>3, <2>4 DEF MemoryInv
  <1>1. ASSUME NEW c \in Calls, NEW i \in Items, NEW e \in 1 .. Horizon + Year,
               BeginProposal(c, i, e)
        PROVE  MemoryInv'
    <2>1. /\ stage[c] = "admitted" /\ table[i].status = "none"
          /\ \A d \in Calls : op[d].name = "propose" => op[d].item # i
          /\ UNCHANGED <<now, who, table, done, trail, shown>>
      BY <1>1 DEF BeginProposal
    <2>2. CASE Reach(c, "begun") /\ op' = [op EXCEPT ![c] =
                 [name |-> "propose", item |-> i, clock |-> now, expires |-> e]]
      <3>1. /\ stage' = [stage EXCEPT ![c] = "begun"] /\ status' = status
            /\ stage'[c] = "begun" /\ op'[c].name = "propose" /\ op'[c].item = i
            /\ OthersRest(c)
        BY <1>y, <2>2 DEF Reach, OthersRest
      <3>2. e \in Nat
        BY MemoryAssumption, CallsAssumption
      <3>3. MemoryType'
        BY <1>y, <2>1, <2>2, <3>1, <3>2 DEF MemoryType, MemoryTypeOK, Changes
      <3>4. Unanswered' /\ Unbegun'
        BY <1>t, <2>1, <3>1 DEF Unanswered, Unbegun, OthersRest
      <3>5. OneProposer'
        BY <1>t, <2>1, <3>1 DEF OneProposer, OthersRest
      <3>6. NewIdsAreFree'
        BY <1>t, <2>1, <3>1 DEF NewIdsAreFree, OthersRest, Doing
      <3>7. Told'
        <4>1. status'[c] = 0 /\ ~DidChange(c)'
          <5>1. status[c] = 0 /\ \A d \in done : d.by # c
            BY <2>1, NoEventYet
          <5> QED
            BY <2>1, <3>1, <5>1 DEF DidChange, MemoryEvent
        <4>2. \A d \in Calls \ {c} : (DidChange(d)' <=> DidChange(d)) /\ (HasEvent(d)' <=> HasEvent(d))
          BY <2>1, <3>1 DEF OthersRest, DidChange, HasEvent, MemoryEvent
        <4> QED
          BY <1>t, <3>1, <4>1, <4>2 DEF Told, OthersRest
      <3> QED
        BY <2>1, <3>1, <3>3, <3>4, <3>5, <3>6, <3>7, NothingChanged DEF MemoryInv
    <2>3. CASE Refuse(c, "memory_sensitive_content_or_invalid_expiry") /\ UNCHANGED op
      <3>1. Answer(c, 400) /\ UNCHANGED <<now, who, op, table, done, trail>>
        BY <2>1, <2>3, RefusalStatus DEF Refuse
      <3>2. /\ 400 # 200 /\ 400 \in Int
            /\ stage[c] # "answered" /\ stage[c] # "changed"
            /\ shown' \in [Calls -> SUBSET Items]
        BY <1>y, <2>1
      <3> QED
        BY <1>e, <3>1, <3>2
    <2> QED
      BY <1>1, <2>2, <2>3 DEF BeginProposal
  <1>2. ASSUME NEW c \in Calls, NEW i \in Items, NEW name \in {"confirm", "delete", "recall"},
               BeginMemory(c, name, i)
        PROVE  MemoryInv'
    <2>1. /\ stage[c] = "admitted" /\ UNCHANGED <<now, who, table, done, trail, shown>>
          /\ op' = [op EXCEPT ![c] = [name |-> name, item |-> i, clock |-> now, expires |-> 0]]
          /\ stage' = [stage EXCEPT ![c] = "begun"] /\ status' = status
      BY <1>2 DEF BeginMemory, Reach
    <2>2. /\ stage'[c] = "begun" /\ op'[c].name # "propose"
          /\ OthersRest(c)
      BY <1>y, <2>1 DEF OthersRest
    <2>3. MemoryType'
      BY <1>y, <2>1 DEF MemoryType, MemoryTypeOK, Changes
    <2>4. Unanswered' /\ Unbegun'
      BY <1>t, <2>1, <2>2 DEF Unanswered, Unbegun, OthersRest
    <2>5. OneProposer' /\ NewIdsAreFree'
      BY <1>t, <2>1, <2>2 DEF OneProposer, NewIdsAreFree, OthersRest, Doing
    <2>6. Told'
      <3>1. status'[c] = 0 /\ ~DidChange(c)'
        <4>1. status[c] = 0 /\ \A d \in done : d.by # c
          BY <2>1, NoEventYet
        <4> QED
          BY <2>1, <4>1 DEF DidChange, MemoryEvent
      <3>2. \A d \in Calls \ {c} : (DidChange(d)' <=> DidChange(d)) /\ (HasEvent(d)' <=> HasEvent(d))
        BY <2>1, <2>2 DEF OthersRest, DidChange, HasEvent, MemoryEvent
      <3> QED
        BY <1>t, <2>2, <3>1, <3>2 DEF Told, OthersRest
    <2> QED
      BY <2>1, <2>2, <2>3, <2>4, <2>5, <2>6, NothingChanged DEF MemoryInv
  <1>3. ASSUME NEW c \in Calls, InsertMemory(c)
        PROVE  MemoryInv'
    <2>1. /\ stage[c] = "begun" /\ op[c].name = "propose" /\ UNCHANGED <<now, who, op, trail, shown>>
          /\ stage' = [stage EXCEPT ![c] = "changed"] /\ status' = status
          /\ done' = done \cup {MemoryEvent(c)}
          /\ table' = [table EXCEPT ![op[c].item] =
               [status |-> "proposed", owner |-> who[c], expires |-> op[c].expires]]
      BY <1>3 DEF InsertMemory, Commit, Doing, Reach
    <2>2. table[op[c].item].status = "none"
      BY <1>t, <2>1 DEF NewIdsAreFree, Doing
    <2>3. \A d \in Calls : DidChange(d) => op[d].item # op[c].item
      BY <1>t, <2>2 DEF ChangesShow, After, Changes
    <2>4. stage'[c] = "changed" /\ OthersRest(c)
      BY <1>y, <2>1 DEF OthersRest
    <2> DEFINE row == [status |-> "proposed", owner |-> who[c], expires |-> op[c].expires]
    <2>5. /\ row \in [status : {"none", "proposed", "active", "deleted"}, owner : Subjects,
                     expires : Nat]
          /\ row.owner = who[c] /\ row.status \in After(op[c].name) /\ op[c].name \in Changes
      BY <1>y, <2>1 DEF After, Changes
    <2>6. table' = [table EXCEPT ![op[c].item] = row]
      BY <2>1
    <2> HIDE DEF row
    <2>7. ChangesShow' /\ ChangedOnce' /\ DoneByCalls' /\ TrailIsDone'
      <3>1. \A d \in Calls : DidChange(d) /\ op[d].item = op[c].item =>
              op[d].name # op[c].name /\ row.owner = who[d] /\ row.status \in After(op[d].name)
        BY <2>3
      <3>2. /\ UNCHANGED <<who, op, trail>> /\ stage[c] = "begun"
            /\ done' = done \cup {MemoryEvent(c)}
        BY <2>1
      <3> QED
        BY <2>4, <2>5, <2>6, <3>1, <3>2, OneChanged
    <2>8. \A d \in Calls \ {c} : Doing(d, "propose") => op[d].item # op[c].item
      BY <1>t, <2>1 DEF OneProposer, Doing
    <2> QED
      BY <1>c, <2>1, <2>4, <2>5, <2>6, <2>7, <2>8
  <1>4. ASSUME NEW c \in Calls, UpdateConfirmed(c)
        PROVE  MemoryInv'
    <2>1. /\ stage[c] = "begun" /\ op[c].name = "confirm" /\ UNCHANGED <<now, who, op, trail, shown>>
      BY <1>4 DEF UpdateConfirmed, UpdateMemory, Doing
    <2>2. CASE /\ op[c].item \in Confirmable(c) /\ Commit(c)
               /\ table' = [table EXCEPT ![op[c].item].status = "active"]
      <3>1. /\ stage' = [stage EXCEPT ![c] = "changed"] /\ status' = status
            /\ stage'[c] = "changed" /\ OthersRest(c) /\ done' = done \cup {MemoryEvent(c)}
        BY <1>y, <2>1, <2>2 DEF Commit, Reach, OthersRest
      <3>2. table[op[c].item].status = "proposed" /\ table[op[c].item].status # "none" /\ table[op[c].item].owner = who[c]
        BY <2>2 DEF Confirmable, OwnMemories
      <3> DEFINE row == [table[op[c].item] EXCEPT !.status = "active"]
      <3>3. /\ table' = [table EXCEPT ![op[c].item] = row]
            /\ row \in [status : {"none", "proposed", "active", "deleted"}, owner : Subjects,
                       expires : Nat]
            /\ row.status = "active" /\ row.owner = who[c]
        BY <1>y, <2>2, <3>2
      <3> HIDE DEF row
      <3>4. \A d \in Calls : DidChange(d) /\ op[d].item = op[c].item =>
              op[d].name # op[c].name /\ row.owner = who[d] /\ row.status \in After(op[d].name)
        <4> SUFFICES ASSUME NEW d \in Calls, DidChange(d), op[d].item = op[c].item
                     PROVE  /\ op[d].name # op[c].name
                            /\ row.owner = who[d] /\ row.status \in After(op[d].name)
          OBVIOUS
        <4>1. /\ op[d].name \in Changes /\ table[op[c].item].owner = who[d]
              /\ table[op[c].item].status \in After(op[d].name)
          BY <1>t DEF ChangesShow
        <4>2. op[d].name \in {"propose"}
          BY <3>2, <4>1 DEF After, Changes
        <4> QED
          BY <2>1, <3>2, <3>3, <4>1, <4>2 DEF After
      <3>5. ChangesShow' /\ ChangedOnce' /\ DoneByCalls' /\ TrailIsDone'
        <4>1. op[c].name \in Changes /\ row.status \in After(op[c].name)
          BY <2>1, <3>3 DEF Changes, After
        <4> QED
          BY <2>1, <3>1, <3>3, <3>4, <4>1, OneChanged
      <3>6. \A d \in Calls : Doing(d, "propose") => op[d].item # op[c].item
        BY <1>t, <3>2 DEF NewIdsAreFree
      <3>7. op[c].name \in Changes
        BY <2>1 DEF Changes
      <3> QED
        BY <1>c, <2>1, <3>1, <3>3, <3>5, <3>6, <3>7
    <2>3. CASE Refuse(c, "resource_not_found") /\ UNCHANGED <<table, done>>
      <3>1. Answer(c, 404) /\ UNCHANGED <<now, who, op, table, done, trail>>
        BY <2>1, <2>3, RefusalStatus DEF Refuse
      <3> QED
        BY <1>e, <1>y, <2>1, <3>1
    <2> QED
      BY <1>4, <2>2, <2>3 DEF UpdateConfirmed, UpdateMemory
  <1>5. ASSUME NEW c \in Calls, UpdateDeleted(c)
        PROVE  MemoryInv'
    <2>1. /\ stage[c] = "begun" /\ op[c].name = "delete" /\ UNCHANGED <<now, who, op, trail, shown>>
      BY <1>5 DEF UpdateDeleted, UpdateMemory, Doing
    <2>2. CASE /\ op[c].item \in Deletable(c) /\ Commit(c)
               /\ table' = [table EXCEPT ![op[c].item].status = "deleted"]
      <3>1. /\ stage' = [stage EXCEPT ![c] = "changed"] /\ status' = status
            /\ stage'[c] = "changed" /\ OthersRest(c) /\ done' = done \cup {MemoryEvent(c)}
        BY <1>y, <2>1, <2>2 DEF Commit, Reach, OthersRest
      <3>2. table[op[c].item].status # "deleted" /\ table[op[c].item].status # "none" /\ table[op[c].item].owner = who[c]
        BY <2>2 DEF Deletable, OwnMemories
      <3> DEFINE row == [table[op[c].item] EXCEPT !.status = "deleted"]
      <3>3. /\ table' = [table EXCEPT ![op[c].item] = row]
            /\ row \in [status : {"none", "proposed", "active", "deleted"}, owner : Subjects,
                       expires : Nat]
            /\ row.status = "deleted" /\ row.owner = who[c]
        BY <1>y, <2>2, <3>2
      <3> HIDE DEF row
      <3>4. \A d \in Calls : DidChange(d) /\ op[d].item = op[c].item =>
              op[d].name # op[c].name /\ row.owner = who[d] /\ row.status \in After(op[d].name)
        <4> SUFFICES ASSUME NEW d \in Calls, DidChange(d), op[d].item = op[c].item
                     PROVE  /\ op[d].name # op[c].name
                            /\ row.owner = who[d] /\ row.status \in After(op[d].name)
          OBVIOUS
        <4>1. /\ op[d].name \in Changes /\ table[op[c].item].owner = who[d]
              /\ table[op[c].item].status \in After(op[d].name)
          BY <1>t DEF ChangesShow
        <4>2. op[d].name \in {"propose", "confirm"}
          BY <3>2, <4>1 DEF After, Changes
        <4> QED
          BY <2>1, <3>2, <3>3, <4>1, <4>2 DEF After
      <3>5. ChangesShow' /\ ChangedOnce' /\ DoneByCalls' /\ TrailIsDone'
        <4>1. op[c].name \in Changes /\ row.status \in After(op[c].name)
          BY <2>1, <3>3 DEF Changes, After
        <4> QED
          BY <2>1, <3>1, <3>3, <3>4, <4>1, OneChanged
      <3>6. \A d \in Calls : Doing(d, "propose") => op[d].item # op[c].item
        BY <1>t, <3>2 DEF NewIdsAreFree
      <3>7. op[c].name \in Changes
        BY <2>1 DEF Changes
      <3> QED
        BY <1>c, <2>1, <3>1, <3>3, <3>5, <3>6, <3>7
    <2>3. CASE Refuse(c, "resource_not_found") /\ UNCHANGED <<table, done>>
      <3>1. Answer(c, 404) /\ UNCHANGED <<now, who, op, table, done, trail>>
        BY <2>1, <2>3, RefusalStatus DEF Refuse
      <3> QED
        BY <1>e, <1>y, <2>1, <3>1
    <2> QED
      BY <1>5, <2>2, <2>3 DEF UpdateDeleted, UpdateMemory
  <1>6. ASSUME NEW c \in Calls, SelectMemories(c)
        PROVE  MemoryInv'
    <2>1. /\ stage[c] = "begun" /\ op[c].name = "recall" /\ Answer(c, 200)
          /\ UNCHANGED <<now, who, op, table, done, trail>>
      BY <1>6 DEF SelectMemories, Doing
    <2>2. shown' \in [Calls -> SUBSET Items]
      BY <1>y, <1>6 DEF SelectMemories, OwnMemories
    <2> QED
      BY <1>e, <2>1, <2>2 DEF Changes
  <1>7. ASSUME NEW c \in Calls, RecordMemory(c)
        PROVE  MemoryInv'
    <2>1. PICK code \in {200, 500} :
            /\ stage[c] = "changed" /\ trail' = trail \cup {MemoryEvent(c)}
            /\ stage' = [stage EXCEPT ![c] = "answered"] /\ status' = [status EXCEPT ![c] = code]
            /\ UNCHANGED <<now, who, op, table, done, shown>>
      BY <1>7 DEF RecordMemory, Answer
    <2>2. stage'[c] = "answered" /\ status'[c] = code /\ OthersRest(c)
      BY <1>y, <2>1 DEF OthersRest
    <2>3. DidChange(c) /\ op[c].name \in Changes
      BY <1>t, <2>1 DEF DoneByCalls, ChangesShow
    <2>4. MemoryEvent(c) \in [action : Changes, item : Items, by : Calls]
      BY <1>y, <2>3 DEF MemoryEvent
    <2>5. MemoryType'
      BY <1>y, <2>1, <2>4 DEF MemoryType, MemoryTypeOK
    <2>6. \A d \in Calls : /\ MemoryEvent(d)' = MemoryEvent(d)
                           /\ HasEvent(d)' <=> (d = c \/ HasEvent(d))
                           /\ DidChange(d)' <=> DidChange(d)
      BY <2>1 DEF MemoryEvent, HasEvent, DidChange
    <2>7. ChangesShow' /\ ChangedOnce'
      BY <1>t, <2>1, <2>6 DEF ChangesShow, ChangedOnce
    <2>8. DoneByCalls'
      <3>1. \A d \in done : d.by \in Calls
        BY <1>y
      <3> QED
        BY <1>t, <2>1, <2>2, <2>6, <3>1 DEF DoneByCalls, OthersRest
    <2>9. TrailIsDone'
      <3>1. \A e \in trail : e.by \in Calls /\ stage[e.by] = "answered"
        BY <1>t, <1>y DEF TrailIsDone
      <3>2. MemoryEvent(c) \in done /\ MemoryEvent(c).by = c
        BY <2>3 DEF DidChange, MemoryEvent
      <3> QED
        BY <1>t, <2>1, <2>2, <3>1, <3>2 DEF TrailIsDone, OthersRest
    <2>10. Told'
      BY <1>t, <2>1, <2>2, <2>6 DEF Told, OthersRest
    <2>11. Unanswered' /\ Unbegun' /\ OneProposer' /\ NewIdsAreFree'
      BY <1>t, <2>1, <2>2 DEF Unanswered, Unbegun, OneProposer, NewIdsAreFree, Doing, OthersRest
    <2> QED
      BY <2>5, <2>7, <2>8, <2>9, <2>10, <2>11 DEF MemoryInv
  <1>8. ASSUME NEW c \in Calls, MemoryFails(c)
        PROVE  MemoryInv'
    <2>1. /\ stage[c] \in {"begun", "changed"} /\ Answer(c, 500)
          /\ UNCHANGED <<now, who, op, table, done, trail, shown>>
      BY <1>8 DEF MemoryFails, memoryVars
    <2> QED
      BY <1>e, <1>y, <2>1
  <1>9. CASE MemoryTick
    BY <1>t, <1>9 DEF MemoryTick, memoryVars, MemoryInv, MemoryType, MemoryTypeOK, Unanswered,
       Unbegun, OneProposer, NewIdsAreFree, Doing, ChangesShow, ChangedOnce, DidChange, HasEvent,
       MemoryEvent, DoneByCalls, TrailIsDone, Told
  <1>10. CASE UNCHANGED memoryAll
    BY <1>t, <1>10 DEF memoryAll, memoryVars, MemoryInv, MemoryType, MemoryTypeOK, Unanswered,
       Unbegun, OneProposer, NewIdsAreFree, Doing, ChangesShow, ChangedOnce, DidChange, HasEvent,
       MemoryEvent, DoneByCalls, TrailIsDone, Told
  <1> QED
    BY <1>1, <1>2, <1>3, <1>4, <1>5, <1>6, <1>7, <1>8, <1>9, <1>10 DEF MemoryNext

LEMMA MemoryInvHolds == MemorySpec => []MemoryInv
  BY MemoryStarts, MemoryGoesOn, PTL DEF MemorySpec

\* Whatever calls overlap and wherever the process stops between a change and
\* its event, the trail tells only of changes that were committed, of each once,
\* by a call of the memory's owner and borne by the memory still, and of every
\* one that was answered with success; what it leaves out is answered with an
\* error or about to be told (adapters/postgres.py).
THEOREM TrailIsFaithful == MemorySpec => []AuditIsFaithful
  <1>1. MemoryInv => AuditIsFaithful
    <2> SUFFICES ASSUME MemoryInv
                 PROVE  AuditIsFaithful
      OBVIOUS
    <2>1. \A d \in done : d.by \in Calls /\ d = MemoryEvent(d.by) /\ DidChange(d.by)
      BY MemoryTypes DEF MemoryInv, DoneByCalls, DidChange
    <2>2. \A d, e \in done : d.action = e.action /\ d.item = e.item => d = e
      BY <2>1 DEF MemoryInv, ChangedOnce, MemoryEvent
    <2>3. \A d \in done : table[d.item].owner = who[d.by] /\ table[d.item].status \in After(d.action)
      BY <2>1 DEF MemoryInv, ChangesShow, MemoryEvent
    <2>4. \A d \in done : d \notin trail => stage[d.by] = "changed" \/ status[d.by] = 500
      BY <2>1 DEF MemoryInv, Told, HasEvent
    <2>5. \A c \in Calls : status[c] = 200 /\ op[c].name \in Changes => MemoryEvent(c) \in trail
      BY DEF MemoryInv, Told, HasEvent
    <2>6. trail \subseteq done
      BY DEF MemoryInv, TrailIsDone
    <2> QED
      BY <2>1, <2>2, <2>3, <2>4, <2>5, <2>6 DEF AuditIsFaithful, After
  <1> QED
    BY <1>1, MemoryInvHolds, PTL

\* The memory's states and owners, as its lifecycle sees them.
State == [i \in Items |-> table[i].status]
Owned == [i \in Items |-> table[i].owner]

\* What one row's change is to the lifecycle.
LEMMA RowChanges ==
    ASSUME MemoryInv, NEW i \in Items,
           NEW row \in [status : {"none", "proposed", "active", "deleted"}, owner : Subjects,
                        expires : Nat],
           table' = [table EXCEPT ![i] = row]
    PROVE  /\ State' = [State EXCEPT ![i] = row.status]
           /\ Owned' = [Owned EXCEPT ![i] = row.owner]
           /\ row.owner = table[i].owner => Owned' = Owned
  <1>1. table \in [Items -> [status : {"none", "proposed", "active", "deleted"},
                             owner : Subjects, expires : Nat]]
    BY MemoryTypes
  <1>2. table'[i] = row /\ \A j \in Items : j # i => table'[j] = table[j]
    BY <1>1
  <1>3. /\ State' = [j \in Items |-> table'[j].status] /\ State = [j \in Items |-> table[j].status]
        /\ Owned' = [j \in Items |-> table'[j].owner] /\ Owned = [j \in Items |-> table[j].owner]
    BY DEF State, Owned
  <1>4. State' = [j \in Items |-> IF j = i THEN row.status ELSE table[j].status]
    BY <1>2, <1>3
  <1>5. Owned' = [j \in Items |-> IF j = i THEN row.owner ELSE table[j].owner]
    BY <1>2, <1>3
  <1>6. State' = [State EXCEPT ![i] = row.status]
    BY <1>3, <1>4
  <1>7. Owned' = [Owned EXCEPT ![i] = row.owner]
    BY <1>3, <1>5
  <1>8. row.owner = table[i].owner => Owned' = Owned
    BY <1>3, <1>5
  <1> QED
    BY <1>6, <1>7, <1>8

\* Every step of the store is one of the lifecycle or none: a change is the
\* call's own, of a memory of its subject.
LEMMA MemoryImplements ==
    ASSUME MemoryInv, [MemoryNext \/ MemoryTick]_memoryAll
    PROVE  Lifecycle!LifecycleNext \/ UNCHANGED <<who, State, Owned, done, shown>>
  <1>y. /\ who \in [Calls -> Subjects]
        /\ op \in [Calls -> [name : Changes \cup {"recall"}, item : Items, clock : Nat,
                             expires : Nat]]
        /\ table \in [Items -> [status : {"none", "proposed", "active", "deleted"},
                                owner : Subjects, expires : Nat]]
    BY MemoryTypes
  <1>s. UNCHANGED <<who, table, done, shown>> => UNCHANGED <<who, State, Owned, done, shown>>
    BY DEF State, Owned
  <1>1. ASSUME NEW c \in Calls, NEW i \in Items, NEW e \in 1 .. Horizon + Year,
               BeginProposal(c, i, e)
        PROVE  UNCHANGED <<who, table, done, shown>>
    BY <1>1 DEF BeginProposal
  <1>2. ASSUME NEW c \in Calls, NEW i \in Items, NEW name \in {"confirm", "delete", "recall"},
               BeginMemory(c, name, i)
        PROVE  UNCHANGED <<who, table, done, shown>>
    BY <1>2 DEF BeginMemory
  <1>3. ASSUME NEW c \in Calls, InsertMemory(c)
        PROVE  Lifecycle!LifecycleNext
    <2>0. PICK i \in Items : i = op[c].item
      BY <1>y
    <2> DEFINE row == [status |-> "proposed", owner |-> who[c], expires |-> op[c].expires]
    <2>1. /\ Doing(c, "propose") /\ UNCHANGED <<who, shown>>
          /\ done' = done \cup {[action |-> "propose", item |-> i, by |-> c]}
          /\ table' = [table EXCEPT ![i] = row]
      BY <1>3, <2>0 DEF InsertMemory, Commit, MemoryEvent, Doing
    <2>2. row \in [status : {"none", "proposed", "active", "deleted"}, owner : Subjects,
                    expires : Nat]
      BY <1>y
    <2>3. row.status = "proposed" /\ row.owner = who[c]
      OBVIOUS
    <2>4. State[i] = "none"
      BY <2>0, <2>1 DEF MemoryInv, NewIdsAreFree, State
    <2> HIDE DEF row
    <2>5. State' = [State EXCEPT ![i] = row.status] /\ Owned' = [Owned EXCEPT ![i] = row.owner]
      BY <2>1, <2>2, RowChanges
    <2>6. Lifecycle!Propose(c, i)
      BY <2>1, <2>3, <2>4, <2>5 DEF Lifecycle!Propose, Lifecycle!Change, State, Owned
    <2> QED
      BY <2>6 DEF Lifecycle!LifecycleNext
  <1>4. ASSUME NEW c \in Calls, UpdateConfirmed(c)
        PROVE  Lifecycle!LifecycleNext \/ UNCHANGED <<who, table, done, shown>>
    <2>1. CASE /\ op[c].item \in Confirmable(c) /\ UNCHANGED <<who, shown>> /\ Commit(c)
               /\ table' = [table EXCEPT ![op[c].item].status = "active"]
      <3>0. PICK i \in Items : i = op[c].item
        BY <1>y
      <3> DEFINE row == [table[i] EXCEPT !.status = "active"]
      <3>1. State[i] = "proposed" /\ Owned[i] = who[c]
        BY <1>y, <2>1, <3>0 DEF Confirmable, OwnMemories, State, Owned
      <3>2. /\ table' = [table EXCEPT ![i] = row]
            /\ row \in [status : {"none", "proposed", "active", "deleted"}, owner : Subjects,
                       expires : Nat]
            /\ row.status = "active" /\ row.owner = table[i].owner
        BY <1>y, <2>1, <3>0
      <3> HIDE DEF row
      <3>3. State' = [State EXCEPT ![i] = row.status] /\ Owned' = Owned
        BY <3>2, RowChanges
      <3>4. done' = done \cup {[action |-> "confirm", item |-> i, by |-> c]}
        BY <1>4, <2>1, <3>0 DEF Commit, MemoryEvent, UpdateConfirmed, UpdateMemory, Doing
      <3>5. Lifecycle!Confirm(c, i)
        BY <2>1, <3>1, <3>2, <3>3, <3>4
           DEF Lifecycle!Confirm, Lifecycle!Owns, Lifecycle!Change, State, Owned
      <3> QED
        BY <3>5 DEF Lifecycle!LifecycleNext
    <2>2. CASE UNCHANGED <<who, table, done, shown>>
      BY <2>2
    <2> QED
      BY <1>4, <2>1, <2>2 DEF UpdateConfirmed, UpdateMemory
  <1>5. ASSUME NEW c \in Calls, UpdateDeleted(c)
        PROVE  Lifecycle!LifecycleNext \/ UNCHANGED <<who, table, done, shown>>
    <2>1. CASE /\ op[c].item \in Deletable(c) /\ UNCHANGED <<who, shown>> /\ Commit(c)
               /\ table' = [table EXCEPT ![op[c].item].status = "deleted"]
      <3>0. PICK i \in Items : i = op[c].item
        BY <1>y
      <3> DEFINE row == [table[i] EXCEPT !.status = "deleted"]
      <3>1. State[i] # "none" /\ Owned[i] = who[c]
        BY <1>y, <2>1, <3>0 DEF Deletable, OwnMemories, State, Owned
      <3>2. /\ table' = [table EXCEPT ![i] = row]
            /\ row \in [status : {"none", "proposed", "active", "deleted"}, owner : Subjects,
                       expires : Nat]
            /\ row.status = "deleted" /\ row.owner = table[i].owner
        BY <1>y, <2>1, <3>0
      <3> HIDE DEF row
      <3>3. State' = [State EXCEPT ![i] = row.status] /\ Owned' = Owned
        BY <3>2, RowChanges
      <3>4. done' = done \cup {[action |-> "delete", item |-> i, by |-> c]}
        BY <1>5, <2>1, <3>0 DEF Commit, MemoryEvent, UpdateDeleted, UpdateMemory, Doing
      <3>5. Lifecycle!Forget(c, i)
        BY <2>1, <3>1, <3>2, <3>3, <3>4
           DEF Lifecycle!Forget, Lifecycle!Owns, Lifecycle!Change, State, Owned
      <3> QED
        BY <3>5 DEF Lifecycle!LifecycleNext
    <2>2. CASE UNCHANGED <<who, table, done, shown>>
      BY <2>2
    <2> QED
      BY <1>5, <2>1, <2>2 DEF UpdateDeleted, UpdateMemory
  <1>6. ASSUME NEW c \in Calls, SelectMemories(c)
        PROVE  Lifecycle!LifecycleNext
    <2>1. PICK rows \in SUBSET {i \in OwnMemories(c) : /\ table[i].status = "active"
                                                       /\ table[i].expires > op[c].clock} :
            shown' = [shown EXCEPT ![c] = rows]
      BY <1>6 DEF SelectMemories
    <2>2. UNCHANGED <<who, table, done>>
      BY <1>6 DEF SelectMemories
    <2>3. rows \in SUBSET {i \in Items : /\ State[i] # "none" /\ Owned[i] = who[c]
                                        /\ State[i] = "active"}
      BY <2>1 DEF OwnMemories, State, Owned
    <2>4. UNCHANGED <<State, Owned>>
      BY <2>2 DEF State, Owned
    <2>5. Lifecycle!RecallSome(c)
      BY <2>1, <2>2, <2>3, <2>4 DEF Lifecycle!RecallSome, Lifecycle!Owns, State, Owned
    <2> QED
      BY <2>5 DEF Lifecycle!LifecycleNext
  <1>7. ASSUME NEW c \in Calls, RecordMemory(c)
        PROVE  UNCHANGED <<who, table, done, shown>>
    BY <1>7 DEF RecordMemory
  <1>8. ASSUME NEW c \in Calls, MemoryFails(c)
        PROVE  UNCHANGED <<who, table, done, shown>>
    BY <1>8 DEF MemoryFails, memoryVars
  <1>9. CASE MemoryTick \/ UNCHANGED memoryAll
    BY <1>s, <1>9 DEF MemoryTick, memoryAll, memoryVars
  <1> QED
    BY <1>s, <1>1, <1>2, <1>3, <1>4, <1>5, <1>6, <1>7, <1>8, <1>9 DEF MemoryNext

\* Whatever calls overlap, the table keeps the lifecycle: a memory is proposed,
\* confirmed and deleted, in that order and for good, by calls of its owner
\* alone, and a call recalls confirmed memories of its own subject
\* (adapters/postgres.py).
THEOREM MemoryKeepsLifecycle == MemorySpec => KeepsLifecycle
  <1>1. CallsInit([c \in Calls |-> "admitted"]) /\ MemoryInit => Lifecycle!LifecycleInit
    <2> SUFFICES ASSUME CallsInit([c \in Calls |-> "admitted"]), MemoryInit
                 PROVE  Lifecycle!LifecycleInit
      OBVIOUS
    <2>1. \A i \in Items : table[i].status = "none" /\ table[i].owner \in Subjects
      BY CallsAssumption DEF MemoryInit
    <2>2. shown = [c \in Calls |-> {}] /\ done = {} /\ who \in [Calls -> Subjects]
      BY DEF MemoryInit, CallsInit
    <2> QED
      BY <2>1, <2>2 DEF Lifecycle!LifecycleInit
  <1>2. MemoryInv /\ [MemoryNext \/ MemoryTick]_memoryAll =>
          [Lifecycle!LifecycleNext]_<<who, [i \in Items |-> table[i].status],
                                      [i \in Items |-> table[i].owner], done, shown>>
    BY MemoryImplements DEF State, Owned
  <1> QED
    BY <1>1, <1>2, MemoryInvHolds, PTL
       DEF MemorySpec, KeepsLifecycle, Lifecycle!LifecycleSpec, Lifecycle!lifecycleVars

-----------------------------------------------------------------------------
(* Feedback *)

RowType == [rating : Ratings, reviewed : BOOLEAN]

FeedbackType ==
    /\ who \in [Calls -> Subjects]
    /\ FeedbackTypeOK
    /\ dataset = [exists |-> dataset.exists, rows |-> dataset.rows]

\* What was reviewed of a row is what it says, and what it is marked for.
ReviewedStand == \A f \in reviewed : <<f.owner, f.run>> \in Rows /\ f = Fact(<<f.owner, f.run>>)
MarkedIsReviewed == \A k \in Rows : feedback[k].reviewed => Fact(k) \in reviewed

\* Nothing else is on its way out.
OnTheWayOut == file \cup dataset.rows \cup export.rows \subseteq reviewed

FeedbackInv == FeedbackType /\ ReviewedStand /\ MarkedIsReviewed /\ OnTheWayOut

\* Rows are only added, and what a row says stays.
RowsStay == Rows \subseteq Rows' /\ \A k \in Rows : Fact(k)' = Fact(k)

LEMMA FeedbackStarts ==
    CallsInit([c \in Calls |-> "admitted"]) /\ FeedbackInit => FeedbackInv
  <1> SUFFICES ASSUME CallsInit([c \in Calls |-> "admitted"]), FeedbackInit
               PROVE  FeedbackInv
    OBVIOUS
  <1>1. Rows = {}
    BY DEF FeedbackInit, Rows
  <1>2. NoPost \in [name : {"none", "submit", "review"}, owner : Subjects, run : Runs,
                    rating : Ratings]
    BY CallsAssumption, FeedbackAssumption DEF NoPost
  <1>3. FeedbackType
    <2>1. feedback \in [Rows -> RowType]
      BY <1>1 DEF FeedbackInit
    <2> QED
      BY <1>1, <1>2, <2>1 DEF CallsInit, FeedbackInit, FeedbackType, FeedbackTypeOK, RowType
  <1> QED
    BY <1>1, <1>3 DEF FeedbackInit, FeedbackInv, ReviewedStand, MarkedIsReviewed, OnTheWayOut

\* The invariant follows from a step's rows: those that stay, those it marks and
\* those it exports.
LEMMA ReviewsStand ==
    ASSUME FeedbackInv, FeedbackType', RowsStay,
           NEW new \in SUBSET {Fact(k) : k \in Rows}, reviewed' = reviewed \cup new,
           \A k \in Rows' : feedback'[k].reviewed => Fact(k)' \in reviewed',
           OnTheWayOut'
    PROVE  FeedbackInv'
  <1>1. Rows \subseteq Subjects \X Runs
    BY DEF FeedbackInv, FeedbackType, FeedbackTypeOK
  <1>2. ASSUME NEW f \in reviewed'
        PROVE  <<f.owner, f.run>> \in Rows' /\ f = Fact(<<f.owner, f.run>>)'
    <2>1. CASE f \in reviewed
      BY <2>1 DEF FeedbackInv, ReviewedStand, RowsStay
    <2>2. CASE f \in new
      <3>1. PICK k \in Rows : f = Fact(k)
        BY <2>2
      <3>2. k = <<f.owner, f.run>>
        BY <1>1, <3>1 DEF Fact
      <3> QED
        BY <3>1, <3>2 DEF RowsStay
    <2> QED
      BY <1>2, <2>1, <2>2
  <1> QED
    BY <1>2 DEF FeedbackInv, ReviewedStand, MarkedIsReviewed

LEMMA FeedbackGoesOn ==
    FeedbackInv /\ [FeedbackNext]_<<now, stage, who, status, feedbackVars>> => FeedbackInv'
  <1> SUFFICES ASSUME FeedbackInv, [FeedbackNext]_<<now, stage, who, status, feedbackVars>>
               PROVE  FeedbackInv'
    OBVIOUS
  <1>t. /\ FeedbackType /\ ReviewedStand /\ MarkedIsReviewed /\ OnTheWayOut
        /\ who \in [Calls -> Subjects]
        /\ post \in [Calls -> [name : {"none", "submit", "review"}, owner : Subjects,
                               run : Runs, rating : Ratings]]
        /\ Rows \subseteq Subjects \X Runs
        /\ feedback \in [Rows -> RowType]
        /\ given \in [Calls -> SUBSET Ratings]
        /\ export.step \in {"idle", "read", "written", "created"}
        /\ dataset = [exists |-> dataset.exists, rows |-> dataset.rows]
    BY DEF FeedbackInv, FeedbackType, FeedbackTypeOK, RowType
  \* Steps that leave the rows and their reviews as they are.
  <1>s. ASSUME UNCHANGED <<feedback, reviewed>>, FeedbackType', OnTheWayOut'
        PROVE  FeedbackInv'
    BY <1>t, <1>s DEF FeedbackInv, ReviewedStand, MarkedIsReviewed, Fact, Rows
  <1>1. ASSUME NEW c \in Calls, NEW p \in [name : {"submit", "review"}, owner : Subjects,
                                           run : Runs, rating : Ratings], Post(c, p)
        PROVE  FeedbackInv'
    <2>1. /\ post' = [post EXCEPT ![c] = p]
          /\ UNCHANGED <<who, feedback, given, reviewed, export, file, dataset>>
      BY <1>1 DEF Post
    <2> QED
      BY <1>t, <1>s, <2>1 DEF FeedbackType, FeedbackTypeOK, Rows, RowType, OnTheWayOut
  <1>2. ASSUME NEW c \in Calls, NEW r \in Runs, NEW v \in Ratings, BeginSubmit(c, r, v)
        PROVE  FeedbackInv'
    <2>1. [name |-> "submit", owner |-> who[c], run |-> r, rating |-> v] \in
            [name : {"submit", "review"}, owner : Subjects, run : Runs, rating : Ratings]
      BY <1>t
    <2> QED
      BY <1>1, <1>2, <2>1 DEF BeginSubmit
  <1>3. ASSUME NEW c \in Calls, NEW s \in Subjects, NEW r \in Runs, BeginReview(c, s, r)
        PROVE  FeedbackInv'
    <2>1. [name |-> "review", owner |-> s, run |-> r, rating |-> NoPost.rating] \in
            [name : {"submit", "review"}, owner : Subjects, run : Runs, rating : Ratings]
      BY FeedbackAssumption DEF NoPost
    <2> QED
      BY <1>1, <1>3, <2>1 DEF BeginReview
  <1>4. ASSUME NEW c \in Calls, ReviewDenied(c) \/ FeedbackFails(c)
        PROVE  FeedbackInv'
    <2>1. UNCHANGED <<who, post, feedback, given, reviewed, export, file, dataset>>
      BY <1>4 DEF ReviewDenied, FeedbackFails, feedbackVars
    <2> QED
      BY <1>t, <1>s, <2>1 DEF FeedbackType, FeedbackTypeOK, Rows, RowType, OnTheWayOut
  <1>5. ASSUME NEW c \in Calls, InsertFeedback(c)
        PROVE  FeedbackInv'
    <2>1. /\ feedback' = [k \in Rows \cup {Row(c)} |-> IF k = Row(c) THEN Kept(c) ELSE feedback[k]]
          /\ UNCHANGED given \/ given' = [given EXCEPT ![c] = {Kept(c).rating}]
          /\ UNCHANGED <<who, post, reviewed, export, file, dataset>>
      BY <1>5 DEF InsertFeedback
    <2>2. Row(c) \in Subjects \X Runs /\ Kept(c) \in RowType /\ Kept(c).rating \in Ratings
      BY <1>t DEF Row, Kept, RowType
    <2>3. Rows' = Rows \cup {Row(c)} /\ \A k \in Rows : feedback'[k] = feedback[k]
      BY <2>1 DEF Rows, Kept
    <2>4. FeedbackType'
      BY <1>t, <2>1, <2>2, <2>3 DEF FeedbackType, FeedbackTypeOK, RowType
    <2>5. RowsStay
      BY <2>3 DEF RowsStay, Fact
    <2>6. \A k \in Rows' : feedback'[k].reviewed => Fact(k)' \in reviewed'
      <3>1. ASSUME NEW k \in Rows' \ Rows
            PROVE  ~feedback'[k].reviewed
        BY <2>1, <2>3, <3>1 DEF Kept
      <3>2. \A k \in Rows : feedback'[k].reviewed => Fact(k)' \in reviewed'
        BY <1>t, <2>1, <2>3, <2>5 DEF MarkedIsReviewed, RowsStay
      <3> QED
        BY <3>1, <3>2
    <2>7. reviewed' = reviewed \cup {} /\ {} \in SUBSET {Fact(k) : k \in Rows}
      BY <2>1
    <2>8. OnTheWayOut'
      BY <1>t, <2>1 DEF OnTheWayOut
    <2> QED
      BY <2>4, <2>5, <2>6, <2>7, <2>8, ReviewsStand
  <1>6. ASSUME NEW c \in Calls, UpdateReviewed(c)
        PROVE  FeedbackInv'
    <2>1. UNCHANGED <<who, post, given, export, file, dataset>>
      BY <1>6 DEF UpdateReviewed
    <2>2. CASE /\ Row(c) \in Rows /\ reviewed' = reviewed \cup {Fact(Row(c))}
               /\ feedback' = [feedback EXCEPT ![Row(c)].reviewed = TRUE]
      <3>1. /\ Rows' = Rows
            /\ feedback'[Row(c)] = [feedback[Row(c)] EXCEPT !.reviewed = TRUE]
            /\ \A k \in Rows : k # Row(c) => feedback'[k] = feedback[k]
        BY <1>t, <2>2 DEF Rows
      <3>2. feedback' \in [Rows' -> RowType]
        <4>1. [feedback[Row(c)] EXCEPT !.reviewed = TRUE] \in RowType
          BY <1>t, <2>2 DEF RowType
        <4> QED
          BY <1>t, <2>2, <3>1, <4>1
      <3>3. FeedbackType'
        BY <1>t, <2>1, <3>1, <3>2 DEF FeedbackType, FeedbackTypeOK, RowType
      <3>4. feedback'[Row(c)].rating = feedback[Row(c)].rating
        BY <1>t, <2>2, <3>1 DEF RowType
      <3>5. RowsStay
        BY <3>1, <3>4 DEF RowsStay, Fact
      <3>6. \A k \in Rows' : feedback'[k].reviewed => Fact(k)' \in reviewed'
        BY <1>t, <2>2, <3>1, <3>5 DEF MarkedIsReviewed, RowsStay
      <3> QED
        BY <1>t, <2>1, <2>2, <3>3, <3>5, <3>6, ReviewsStand DEF OnTheWayOut
    <2>3. CASE UNCHANGED <<feedback, reviewed>>
      BY <1>t, <1>s, <2>1, <2>3 DEF FeedbackType, FeedbackTypeOK, Rows, RowType, OnTheWayOut
    <2> QED
      BY <1>6, <2>2, <2>3 DEF UpdateReviewed
  <1>7. CASE ExportRead
    <2>1. PICK rows \in SUBSET ReadReviewed : Exporting("read", rows)
      BY <1>7 DEF ExportRead
    <2>2. UNCHANGED <<who, post, feedback, given, reviewed, file, dataset>>
      BY <1>7 DEF ExportRead
    <2>3. ReadReviewed \subseteq reviewed
      BY <1>t DEF ReadReviewed, MarkedIsReviewed
    <2> QED
      BY <1>t, <1>s, <2>1, <2>2, <2>3
         DEF Exporting, FeedbackType, FeedbackTypeOK, Rows, RowType, OnTheWayOut
  <1>8. CASE ExportWrite \/ ExportCreate \/ ExportUpload \/ ExportStops
    <2>1. UNCHANGED <<who, post, feedback, given, reviewed>>
      BY <1>8 DEF ExportWrite, ExportCreate, ExportUpload, ExportStops
    <2>2. /\ export'.step \in {"idle", "read", "written", "created"}
          /\ export'.rows \subseteq export.rows
      BY <1>8 DEF ExportWrite, ExportCreate, ExportUpload, ExportStops, Exporting
    <2>3. file' \subseteq file \cup export.rows
      BY <1>8 DEF ExportWrite, ExportCreate, ExportUpload, ExportStops
    <2>4. /\ dataset' = [exists |-> dataset'.exists, rows |-> dataset'.rows]
          /\ dataset'.rows \subseteq dataset.rows \cup export.rows
      <3>1. CASE UNCHANGED dataset
        BY <1>t, <3>1
      <3>2. CASE dataset' = [dataset EXCEPT !.exists = TRUE]
        BY <1>t, <3>2
      <3>3. CASE dataset' = [dataset EXCEPT !.rows = export.rows]
        BY <1>t, <3>3
      <3> QED
        BY <1>8, <3>1, <3>2, <3>3 DEF ExportWrite, ExportCreate, ExportUpload, ExportStops
    <2>5. OnTheWayOut'
      BY <1>t, <2>1, <2>2, <2>3, <2>4 DEF OnTheWayOut
    <2> QED
      BY <1>t, <1>s, <2>1, <2>2, <2>4, <2>5 DEF FeedbackType, FeedbackTypeOK, Rows, RowType
  <1>9. CASE UNCHANGED <<now, stage, who, status, feedbackVars>>
    <2>1. UNCHANGED <<who, post, feedback, given, reviewed, export, file, dataset>>
      BY <1>9 DEF feedbackVars
    <2> QED
      BY <1>t, <1>s, <2>1 DEF FeedbackType, FeedbackTypeOK, Rows, RowType, OnTheWayOut
  <1> QED
    BY <1>2, <1>3, <1>4, <1>5, <1>6, <1>7, <1>8, <1>9 DEF FeedbackNext

\* However often feedback is submitted again, and wherever an export stops, the
\* file and the dataset say what rows said when they were reviewed, and say
\* still (adapters/postgres_controls.py, feedback/export.py).
THEOREM ExportIsReviewed == FeedbackSpec => []OnlyReviewedIsExported
  <1>1. FeedbackInv => OnlyReviewedIsExported
    BY DEF FeedbackInv, ReviewedStand, OnTheWayOut, OnlyReviewedIsExported
  <1> QED
    BY <1>1, FeedbackStarts, FeedbackGoesOn, PTL DEF FeedbackSpec
=============================================================================
