--------------------------- MODULE MemoryLifecycle ---------------------------
(***************************************************************************)
(* What the memory of a user promises (memory/in_memory.py, whose every     *)
(* operation is one step under a lock): a memory is proposed, confirmed and *)
(* deleted, in that order and for good, by calls of its owner alone, and a  *)
(* recall shows a caller its own memories that are confirmed at that        *)
(* moment.  Every change is kept with the call that made it.                *)
(***************************************************************************)
CONSTANTS Items, Subjects, Callers

VARIABLES
    who,      \* the subject that a caller's token names
    state,    \* "none", "proposed", "active" or "deleted"
    ownedBy,  \* the subject that proposed a memory
    done,     \* the changes made: action, memory and caller
    recalled  \* the memories a caller was shown

LifecycleInit ==
    /\ who \in [Callers -> Subjects]
    /\ state = [i \in Items |-> "none"]
    /\ ownedBy \in [Items -> Subjects]
    /\ done = {}
    /\ recalled = [r \in Callers |-> {}]

\* A change and its audit event, which names the caller.
Change(r, action, i, to) ==
    /\ done' = done \cup {[action |-> action, item |-> i, by |-> r]}
    /\ state' = [state EXCEPT ![i] = to]
    /\ UNCHANGED <<who, recalled>>

Propose(r, i) ==
    /\ state[i] = "none"
    /\ ownedBy' = [ownedBy EXCEPT ![i] = who[r]]
    /\ Change(r, "propose", i, "proposed")

(* _owned: a memory of anybody else is not found.                           *)
Owns(r, i) == state[i] # "none" /\ ownedBy[i] = who[r]

Confirm(r, i) ==
    /\ Owns(r, i) /\ state[i] = "proposed"
    /\ Change(r, "confirm", i, "active")
    /\ UNCHANGED ownedBy

Forget(r, i) ==
    /\ Owns(r, i)  \* also if it is deleted
    /\ Change(r, "delete", i, "deleted")
    /\ UNCHANGED ownedBy

\* Some are left out: those that have expired, and those beyond the limit.
RecallSome(r) ==
    /\ \E shown \in SUBSET {i \in Items : Owns(r, i) /\ state[i] = "active"} :
         recalled' = [recalled EXCEPT ![r] = shown]
    /\ UNCHANGED <<who, state, ownedBy, done>>

LifecycleNext == \E r \in Callers :
    \/ \E i \in Items : Propose(r, i) \/ Confirm(r, i) \/ Forget(r, i)
    \/ RecallSome(r)

lifecycleVars == <<who, state, ownedBy, done, recalled>>
LifecycleSpec == LifecycleInit /\ [][LifecycleNext]_lifecycleVars
=============================================================================
