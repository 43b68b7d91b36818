------------------------------ MODULE Approvals ------------------------------
(***************************************************************************)
(* The approval proposals kept in PostgreSQL (adapters/postgres_controls.py, *)
(* class PostgresApprovalRepository).  Every call of decide is a process of  *)
(* its own: it reads the row, checks what it read in the API process, writes *)
(* the row in the same transaction and records an audit event in another    *)
(* one.  Two statements of a call are two steps here; a write and its commit *)
(* are one, because no other call sees the row between them.                *)
(*                                                                         *)
(* The columns a call compares after its read (the token's hash, the        *)
(* action's hash, the expiry) are written once, so a call keeps no copy.     *)
(***************************************************************************)
EXTENDS Integers, Sequences

CONSTANTS
    Proposals,  \* proposal ids
    Requests,   \* calls of decide
    Subjects,   \* verified principals (tenant and subject)
    Admins,     \* those with the administrator role
    Lifetime,   \* ticks a proposal may be decided for
    MaxTime     \* bound of the clock

ASSUME ApprovalsAssumption ==
    /\ Admins \subseteq Subjects
    /\ Lifetime \in Nat
    /\ MaxTime \in Nat

VARIABLES
    clock,       \* the wall clock
    status,      \* row: "absent", or the status column
    requester,   \* row: requester_subject and tenant_id, as a set of at most one
    expires,     \* row: expires_at
    decidedAt,   \* row: decided_at
    executedAt,  \* row: executed_at
    trail,       \* the audit events of a proposal, in order
    stage,       \* where a call of decide is, or what its caller was told
    form,        \* what the call says: who, on what, which token, confirm
    stamp,       \* the call's `now`
    winner       \* the call that decided a proposal (history)

row == <<status, requester, expires, decidedAt, executedAt>>
approvalVars == <<clock, row, trail, stage, form, stamp, winner>>

Never == -1
Time == 0..MaxTime
Statuses == {"absent", "pending", "approved", "denied", "expired"}
Told == {"approved", "denied", "refused", "lost"}
Open == {"idle", "reading", "checking", "expiring", "updating", "auditing"}

\* right: the call carries the token of the proposal it names.
Forms == [by : Subjects, on : Proposals, right : BOOLEAN, confirm : BOOLEAN]

Verdict(q) == IF form[q].confirm THEN "approved" ELSE "denied"

ApprovalsInit ==
    /\ clock = 0
    /\ status = [p \in Proposals |-> "absent"]
    /\ requester = [p \in Proposals |-> {}]
    /\ expires = [p \in Proposals |-> 0]
    /\ decidedAt = [p \in Proposals |-> Never]
    /\ executedAt = [p \in Proposals |-> Never]
    /\ trail = [p \in Proposals |-> <<>>]
    /\ stage = [q \in Requests |-> "idle"]
    /\ form \in [Requests -> Forms]
    /\ stamp = [q \in Requests |-> 0]
    /\ winner = [p \in Proposals |-> {}]

-----------------------------------------------------------------------------
(* _require_admin, the first thing either method does.                      *)
RequireAnyone(s) == s \in Subjects                      \* mutant: no role
RequireAdmin(s) == s \in Admins

(* propose: the row is committed, then the audit event; only then does the  *)
(* caller get the token.  A call that fails between them does nothing more. *)

Insert(p, s) ==
    /\ RequireAdmin(s)
    /\ status[p] = "absent"
    /\ status' = [status EXCEPT ![p] = "pending"]
    /\ requester' = [requester EXCEPT ![p] = {s}]
    /\ expires' = [expires EXCEPT ![p] = clock + Lifetime]
    /\ UNCHANGED <<clock, decidedAt, executedAt, trail, stage, form, stamp, winner>>

HandOut(p) ==
    /\ status[p] # "absent"
    /\ trail[p] = <<>>
    /\ trail' = [trail EXCEPT ![p] = <<"pending">>]
    /\ UNCHANGED <<clock, row, stage, form, stamp, winner>>

\* The proposals whose token may be out: the requester was given it, unless its
\* call was lost behind the audit event.
Ticketed == {p \in Proposals : trail[p] # <<>>}

-----------------------------------------------------------------------------
(* decide                                                                  *)

Goto(q, l) == stage' = [stage EXCEPT ![q] = l]

\* A token cannot be guessed.
Arrive(q) ==
    /\ stage[q] = "idle"
    /\ form[q].right => form[q].on \in Ticketed
    /\ Goto(q, IF RequireAdmin(form[q].by) THEN "reading" ELSE "refused")
    /\ UNCHANGED <<clock, row, trail, form, stamp, winner>>

\* The WHERE clause of the SELECT.
Visible(q) == requester[form[q].on] = {form[q].by}

Read(q) ==
    /\ stage[q] = "reading"
    /\ Goto(q, IF Visible(q) /\ status[form[q].on] = "pending"
               THEN "checking" ELSE "refused")
    /\ UNCHANGED <<clock, row, trail, form, stamp, winner>>

ElapsedLate(p) == clock > expires[p]                    \* mutant: off by one
Elapsed(p) == clock >= expires[p]

Check(q) ==
    /\ stage[q] = "checking"
    /\ Goto(q, IF Elapsed(form[q].on) THEN "expiring"
               ELSE IF form[q].right THEN "updating" ELSE "refused")
    /\ stamp' = [stamp EXCEPT ![q] = clock]
    /\ UNCHANGED <<clock, row, trail, form, winner>>

(* The UPDATE of an expired proposal names the proposal and no status; its   *)
(* commit, like that of the audit event, may go unacknowledged.             *)
Expire(q) ==
    /\ stage[q] = "expiring"
    /\ status' = [status EXCEPT ![form[q].on] = "expired"]
    /\ \E answer \in {"refused", "lost"} : Goto(q, answer)
    /\ UNCHANGED <<clock, requester, expires, decidedAt, executedAt, trail, form,
                   stamp, winner>>

\* The WHERE clause of the deciding UPDATE.
TakeableByAny(p) == status[p] # "absent"                \* mutant: no status
TakeableTwice(p) == status[p] \in {"pending", "expired"} \* mutant: revives
Takeable(p) == status[p] = "pending"

Update(q) ==
    /\ stage[q] = "updating"
    /\ LET p == form[q].on IN
       IF Takeable(p)
       THEN /\ status' = [status EXCEPT ![p] = Verdict(q)]
            /\ decidedAt' = [decidedAt EXCEPT ![p] = stamp[q]]
            /\ executedAt' = [executedAt EXCEPT ![p] =
                                 IF form[q].confirm THEN stamp[q] ELSE Never]
            /\ winner' = [winner EXCEPT ![p] = {q}]
            /\ Goto(q, "auditing")
       ELSE /\ Goto(q, "refused")
            /\ UNCHANGED <<status, decidedAt, executedAt, winner>>
    /\ UNCHANGED <<clock, requester, expires, trail, form, stamp>>

Audit(q) ==
    /\ stage[q] = "auditing"
    /\ trail' = [trail EXCEPT ![form[q].on] = Append(@, Verdict(q))]
    /\ \E answer \in {Verdict(q), "lost"} : Goto(q, answer)
    /\ UNCHANGED <<clock, row, form, stamp, winner>>

(* The process stops, the database refuses or the caller goes away.  What   *)
(* was committed stays, acknowledged or not; what was not is rolled back.    *)
Lose(q) ==
    /\ stage[q] \in Open \ {"idle"}
    /\ Goto(q, "lost")
    /\ UNCHANGED <<clock, row, trail, form, stamp, winner>>

Tick ==
    /\ clock < MaxTime
    /\ clock' = clock + 1
    /\ UNCHANGED <<row, trail, stage, form, stamp, winner>>

ApprovalsNext ==
    \/ Tick
    \/ \E p \in Proposals : HandOut(p) \/ \E s \in Subjects : Insert(p, s)
    \/ \E q \in Requests :
         \/ Arrive(q) \/ Read(q) \/ Check(q) \/ Expire(q) \/ Update(q)
         \/ Audit(q) \/ Lose(q)

ApprovalsSpec == ApprovalsInit /\ [][ApprovalsNext]_approvalVars
-----------------------------------------------------------------------------
(* Properties *)

\* Every variable has its type; only administrators own proposals.
ApprovalsTypeOK ==
    /\ clock \in Time
    /\ status \in [Proposals -> Statuses]
    /\ requester \in [Proposals -> SUBSET Admins]
    /\ expires \in [Proposals -> Nat]
    /\ decidedAt \in [Proposals -> Time \cup {Never}]
    /\ executedAt \in [Proposals -> Time \cup {Never}]
    /\ trail \in [Proposals -> Seq({"pending", "approved", "denied"})]
    /\ stage \in [Requests -> Open \cup Told]
    /\ form \in [Requests -> Forms]
    /\ stamp \in [Requests -> Time]
    /\ winner \in [Proposals -> SUBSET Requests]

Decided(p) == decidedAt[p] # Never
Executed(p) == executedAt[p] # Never

\* An action is executed only for the administrator who asked for it, with the
\* token, with confirmation, in time, by the one call that won: denial, expiry,
\* replay and mismatch execute nothing whatever the calls' interleaving.
ExecutionAuthorised ==
    \A p \in Proposals : Executed(p) =>
        /\ executedAt[p] < expires[p]
        /\ \E q \in Requests :
             /\ winner[p] = {q}
             /\ form[q].on = p /\ form[q].right /\ form[q].confirm
             /\ requester[p] = {form[q].by} /\ form[q].by \in Admins

\* A caller is told a verdict only if its own call decided and the verdict is
\* the one that was carried out; so no two callers are.
AnswerIsTheDecision ==
    \A q \in Requests : stage[q] \in {"approved", "denied"} =>
        /\ winner[form[q].on] = {q}
        /\ stage[q] = "approved" <=> Executed(form[q].on)

\* The trail of a proposal is its proposal, then its one decision; only a call
\* that is about to record the decision, or was lost, owes it.
TrailTellsTheStory ==
    \A p \in Proposals :
        /\ trail[p] \in {<<>>, <<"pending">>, <<"pending", "approved">>,
                         <<"pending", "denied">>}
        /\ trail[p] = <<"pending", "approved">> => Executed(p)
        /\ trail[p] = <<"pending", "denied">> => Decided(p) /\ ~Executed(p)
        /\ Decided(p) /\ trail[p] = <<"pending">> =>
             \E q \in winner[p] : stage[q] \in {"auditing", "lost"}

\* A proposal that was recorded as expired is never decided afterwards, not even
\* by a call that had found it pending and in time.
ExpiredIsFinal ==
    [][\A p \in Proposals : status[p] = "expired" =>
          status'[p] = "expired" /\ decidedAt'[p] = decidedAt[p]
                                 /\ executedAt'[p] = executedAt[p]]_approvalVars

\* The store is a one-shot decision: decided_at and executed_at hold it.
DecisionOf(p) ==
    IF ~Decided(p) THEN "open" ELSE IF Executed(p) THEN "approved" ELSE "denied"
ToldTo(q) == IF stage[q] \in Told THEN stage[q] ELSE "nothing"
OneShot == INSTANCE OneShotDecision WITH
    decision <- [p \in Proposals |-> DecisionOf(p)],
    told <- [q \in Requests |-> ToldTo(q)]
DecidesOnce == OneShot!Spec

\* "denial, expiry, replay, and identity mismatch do not execute the action"
\* (README.md): a proposal whose record says expired was not executed.
ExpiredNeverExecuted ==
    \A p \in Proposals : status[p] = "expired" => ~Executed(p)
=============================================================================
