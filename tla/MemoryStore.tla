----------------------------- MODULE MemoryStore -----------------------------
(***************************************************************************)
(* Calls of the memory endpoints over PostgreSQL (adapters/postgres.py): a  *)
(* call reads the API's clock, later changes or reads the table in one      *)
(* statement, and a change is recorded in the audit trail by a transaction  *)
(* of its own.  The database may fail, and the process stop, in between.    *)
(***************************************************************************)
EXTENDS ApiCalls

CONSTANTS
    Items,  \* memory ids
    Year    \* the longest life of a memory

ASSUME MemoryAssumption == Year \in Nat /\ Items # {}

VARIABLES
    op,     \* what a call does, to which memory, and the time it read
    table,  \* memory_items: status, owner and expiry
    done,   \* history: the changes committed: action, memory and call
    trail,  \* audit_events: the changes recorded
    shown   \* what a call recalled

memoryVars == <<op, table, done, trail, shown>>

Changes == {"propose", "confirm", "delete"}
NoOp == [name |-> "recall", item |-> CHOOSE i \in Items : TRUE, clock |-> 0, expires |-> 0]

MemoryInit ==
    /\ op = [c \in Calls |-> NoOp]
    /\ table = [i \in Items |-> [status |-> "none", owner |-> CHOOSE s \in Subjects : TRUE,
                               expires |-> 0]]
    /\ done = {} /\ trail = {}
    /\ shown = [c \in Calls |-> {}]

(* A new memory has a fresh id; validate_memory_content looks at its text    *)
(* and its expiry.                                                          *)
BeginProposal(c, i, expires) ==
    /\ stage[c] = "admitted"
    /\ table[i].status = "none"
    /\ \A d \in Calls : op[d].name = "propose" => op[d].item # i
    /\ \/ /\ expires \in now + 1 .. now + Year
          /\ op' = [op EXCEPT ![c] =
                      [name |-> "propose", item |-> i, clock |-> now, expires |-> expires]]
          /\ Reach(c, "begun")
       \/ /\ Refuse(c, "memory_sensitive_content_or_invalid_expiry")
          /\ UNCHANGED op
    /\ UNCHANGED <<now, who, table, done, trail, shown>>

\* The time is read before the database is connected to.
BeginMemory(c, name, i) ==
    /\ stage[c] = "admitted"
    /\ op' = [op EXCEPT ![c] = [name |-> name, item |-> i, clock |-> now, expires |-> 0]]
    /\ Reach(c, "begun")
    /\ UNCHANGED <<now, who, table, done, trail, shown>>

Doing(c, name) == stage[c] = "begun" /\ op[c].name = name

\* The rows that the caller may touch.
OwnMemoriesOfAll(c) == {i \in Items : table[i].status # "none"}  \* mutant: whoever's
OwnMemories(c) == {i \in Items : table[i].status # "none" /\ table[i].owner = who[c]}

\* The statement's transaction commits; whether the call learns of it or not,
\* it goes on or fails as one that made this change.
MemoryEvent(c) == [action |-> op[c].name, item |-> op[c].item, by |-> c]
Commit(c) == done' = done \cup {MemoryEvent(c)} /\ Reach(c, "changed")

InsertMemory(c) ==
    /\ Doing(c, "propose")
    /\ table' = [table EXCEPT ![op[c].item] =
                   [status |-> "proposed", owner |-> who[c], expires |-> op[c].expires]]
    /\ Commit(c)
    /\ UNCHANGED <<now, who, op, trail, shown>>

(* UPDATE ... WHERE: the rows that a confirmation and a deletion match.      *)
Confirmable(c) ==
    {i \in OwnMemories(c) : table[i].status = "proposed" /\ table[i].expires > op[c].clock}
DeletableAgain(c) == OwnMemories(c)                    \* mutant: also if it is deleted
Deletable(c) == {i \in OwnMemories(c) : table[i].status # "deleted"}

UpdateMemory(c, name, matched, status_) ==
    /\ Doing(c, name)
    /\ \/ /\ op[c].item \in matched
          /\ table' = [table EXCEPT ![op[c].item].status = status_]
          /\ Commit(c)
       \/ /\ op[c].item \notin matched
          /\ Refuse(c, "resource_not_found")
          /\ UNCHANGED <<table, done>>
    /\ UNCHANGED <<now, who, op, trail, shown>>

UpdateConfirmed(c) == UpdateMemory(c, "confirm", Confirmable(c), "active")
UpdateDeleted(c) == UpdateMemory(c, "delete", Deletable(c), "deleted")

\* ORDER BY ... LIMIT: any of them may be beyond the limit.
SelectMemories(c) ==
    /\ Doing(c, "recall")
    /\ \E rows \in SUBSET {i \in OwnMemories(c) : /\ table[i].status = "active"
                                           /\ table[i].expires > op[c].clock} :
         shown' = [shown EXCEPT ![c] = rows]
    /\ Answer(c, 200)
    /\ UNCHANGED <<now, who, op, table, done, trail>>

(* record: the event is inserted, then the call answered; it fails although *)
(* its event is stored if the commit is not acknowledged.                   *)
RecordMemory(c) ==
    /\ stage[c] = "changed"
    /\ trail' = trail \cup {MemoryEvent(c)}
    /\ \E code \in {200, 500} : Answer(c, code)
    /\ UNCHANGED <<now, who, op, table, done, shown>>

\* The database fails, before or after the change, or the process stops.
MemoryFails(c) ==
    /\ stage[c] \in {"begun", "changed"}
    /\ Answer(c, 500)
    /\ UNCHANGED <<now, who, memoryVars>>

MemoryNext == \E c \in Calls :
    \/ \E i \in Items :
         \/ \E e \in 1 .. Horizon + Year : BeginProposal(c, i, e)
         \/ \E name \in {"confirm", "delete", "recall"} : BeginMemory(c, name, i)
    \/ InsertMemory(c) \/ UpdateConfirmed(c) \/ UpdateDeleted(c) \/ SelectMemories(c)
    \/ RecordMemory(c) \/ MemoryFails(c)

MemoryTick ==
    /\ now < Horizon
    /\ now' = now + 1
    /\ UNCHANGED <<stage, who, status, memoryVars>>

memoryAll == <<now, stage, who, status, memoryVars>>

MemorySpec ==
    /\ CallsInit([c \in Calls |-> "admitted"]) /\ MemoryInit
    /\ [][MemoryNext \/ MemoryTick]_memoryAll
-----------------------------------------------------------------------------
(* Properties *)

MemoryTypeOK ==
    /\ op \in [Calls -> [name : Changes \cup {"recall"}, item : Items, clock : Nat, expires : Nat]]
    /\ table \in [Items -> [status : {"none", "proposed", "active", "deleted"},
                            owner : Subjects, expires : Nat]]
    /\ done \subseteq [action : Changes, item : Items, by : Calls]
    /\ trail \subseteq [action : Changes, item : Items, by : Calls]
    /\ shown \in [Calls -> SUBSET Items]

\* The table keeps the lifecycle of MemoryLifecycle, whatever calls overlap: a
\* memory that was deleted is never confirmed or recalled again, not even by a
\* call that began before; each change is made by a call of the memory's owner,
\* and a call is shown memories of its own subject only.
Lifecycle == INSTANCE MemoryLifecycle WITH
    Callers <- Calls, recalled <- shown,
    state <- [i \in Items |-> table[i].status],
    ownedBy <- [i \in Items |-> table[i].owner]
KeepsLifecycle == Lifecycle!LifecycleSpec

\* The trail tells only of changes that were committed, none twice, and each of
\* them by a call of the memory's owner and still borne by the memory.  A change
\* it does not tell of is one whose call has yet to record it or was answered
\* with an error: the answer 200 is never given for an untold change.
AuditIsFaithful ==
    /\ trail \subseteq done
    /\ \A d, e \in done : d.action = e.action /\ d.item = e.item => d = e
    /\ \A d \in done :
         /\ d = MemoryEvent(d.by)
         /\ table[d.item].owner = who[d.by]
         /\ table[d.item].status \in CASE d.action = "propose" -> {"proposed", "active", "deleted"}
                                       [] d.action = "confirm" -> {"active", "deleted"}
                                       [] d.action = "delete" -> {"deleted"}
         /\ d \notin trail => stage[d.by] = "changed" \/ status[d.by] = 500
    /\ \A c \in Calls : status[c] = 200 /\ op[c].name \in Changes => MemoryEvent(c) \in trail

\* "lifecycle changes are audited" (docs/adrs/0007-persistence-memory.md): when
\* the owner of a deleted memory is told that there is none, the deletion is on
\* the trail, or the call that made it is about to record it.
DeletionIsAudited ==
    \A c \in Calls :
        /\ status[c] = 404 /\ op[c].name = "delete"
        /\ table[op[c].item].status = "deleted" /\ table[op[c].item].owner = who[c]
        => \E d \in done : /\ d.action = "delete" /\ d.item = op[c].item
                           /\ d \in trail \/ stage[d.by] = "changed"
=============================================================================
