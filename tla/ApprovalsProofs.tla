--------------------------- MODULE ApprovalsProofs ---------------------------
(***************************************************************************)
(* Proofs about Approvals for every number of proposals, calls, principals  *)
(* and ticks.                                                               *)
(***************************************************************************)
EXTENDS Approvals, SequenceTheorems, TLAPS

\* The type invariant is inductive: no step takes a variable out of its type.
LEMMA TypeInit == ApprovalsInit => ApprovalsTypeOK
BY ApprovalsAssumption DEF ApprovalsInit, ApprovalsTypeOK, Time, Never, Statuses, Told, Open, ApprovalsAssumption

LEMMA TypeStep == ApprovalsTypeOK /\ [ApprovalsNext]_approvalVars => ApprovalsTypeOK'
<1> SUFFICES ASSUME ApprovalsTypeOK, [ApprovalsNext]_approvalVars PROVE ApprovalsTypeOK'
    OBVIOUS
<1> USE ApprovalsAssumption DEF ApprovalsAssumption, ApprovalsTypeOK, Time, Never, Goto, row
<1>1. CASE Tick
    BY <1>1 DEF Tick
<1>2. ASSUME NEW p \in Proposals, NEW s \in Subjects, Insert(p, s) PROVE ApprovalsTypeOK'
    BY <1>2 DEF Insert, RequireAdmin, Statuses
<1>3. ASSUME NEW p \in Proposals, HandOut(p) PROVE ApprovalsTypeOK'
    BY <1>3 DEF HandOut
<1>4. ASSUME NEW q \in Requests, Arrive(q) PROVE ApprovalsTypeOK'
    BY <1>4 DEF Arrive, Open, Told
<1>5. ASSUME NEW q \in Requests, Read(q) PROVE ApprovalsTypeOK'
    BY <1>5 DEF Read, Open, Told
<1>6. ASSUME NEW q \in Requests, Check(q) PROVE ApprovalsTypeOK'
    BY <1>6 DEF Check, Open, Told
<1>7. ASSUME NEW q \in Requests, Expire(q) PROVE ApprovalsTypeOK'
    BY <1>7 DEF Expire, Open, Told, Statuses
<1>8. ASSUME NEW q \in Requests, Update(q) PROVE ApprovalsTypeOK'
    <2>1. form[q].on \in Proposals
        BY DEF Forms
    <2>2. CASE Takeable(form[q].on)
        <3>1. Verdict(q) \in Statuses /\ stamp[q] \in Time \cup {Never}
            BY DEF Verdict, Statuses
        <3>2. status' \in [Proposals -> Statuses]
            BY <1>8, <2>1, <2>2, <3>1 DEF Update
        <3>3. /\ decidedAt' \in [Proposals -> Time \cup {Never}]
              /\ executedAt' \in [Proposals -> Time \cup {Never}]
            BY <1>8, <2>1, <2>2, <3>1 DEF Update
        <3>4. stage' \in [Requests -> Open \cup Told]
            <4>1. stage' = [stage EXCEPT ![q] = "auditing"]
                BY <1>8, <2>2, Zenon DEF Update, Goto
            <4> QED BY <4>1 DEF Open
        <3>5. winner' \in [Proposals -> SUBSET Requests]
            <4>1. winner' = [winner EXCEPT ![form[q].on] = {q}]
                BY <1>8, <2>2 DEF Update
            <4>2. {q} \in SUBSET Requests
                OBVIOUS
            <4> HIDE DEF ApprovalsTypeOK
            <4>3. winner \in [Proposals -> SUBSET Requests]
                BY DEF ApprovalsTypeOK
            <4> QED BY <4>1, <4>2, <4>3
        <3> QED BY <1>8, <3>2, <3>3, <3>4, <3>5 DEF Update
    <2>3. CASE ~Takeable(form[q].on)
        BY <1>8, <2>3 DEF Update, Told
    <2> QED BY <2>2, <2>3
<1>9. ASSUME NEW q \in Requests, Audit(q) PROVE ApprovalsTypeOK'
    BY <1>9 DEF Audit, Verdict, Told, Forms
<1>10. ASSUME NEW q \in Requests, Lose(q) PROVE ApprovalsTypeOK'
    BY <1>10 DEF Lose, Told
<1>11. CASE UNCHANGED approvalVars
    BY <1>11 DEF approvalVars
<1> QED
    BY <1>1, <1>2, <1>3, <1>4, <1>5, <1>6, <1>7, <1>8, <1>9, <1>10, <1>11 DEF ApprovalsNext

\* Every reachable state has its types.
THEOREM TypeCorrect == ApprovalsSpec => []ApprovalsTypeOK
BY TypeInit, TypeStep, PTL DEF ApprovalsSpec

-----------------------------------------------------------------------------
(* The inductive invariant.  ExecutionAuthorised is not inductive: the call  *)
(* that executes compared the row in earlier steps, so what it found must be *)
(* known to hold still when it writes.                                      *)

\* What a call knows at each of its statements.
Knows(q) ==
    LET p == form[q].on IN
    /\ stage[q] = "reading" => form[q].by \in Admins
    /\ stage[q] \in {"checking", "expiring", "updating"} =>
         /\ form[q].by \in Admins
         /\ requester[p] = {form[q].by}
         /\ status[p] # "absent"
    /\ stage[q] = "updating" => form[q].right /\ stamp[q] < expires[p]
    /\ stage[q] \in {"auditing", "approved", "denied"} =>
         /\ winner[p] = {q}
         /\ Executed(p) <=> form[q].confirm
    /\ stage[q] \in {"approved", "denied"} => stage[q] = Verdict(q)

\* How the call that decided a proposal relates to it.
WonBy(p, q) ==
    /\ winner[p] = {q}
    /\ form[q].on = p
    /\ stage[q] \in {"auditing", "approved", "denied", "lost"}
    /\ Executed(p) <=> form[q].confirm
    /\ Executed(p) => /\ form[q].right /\ form[q].confirm
                      /\ requester[p] = {form[q].by} /\ form[q].by \in Admins
                      /\ executedAt[p] < expires[p]

\* What the row of a proposal says of its decision.
Recorded(p) ==
    /\ status[p] \in {"absent", "pending"} => ~Decided(p)
    /\ status[p] = "absent" => requester[p] = {}
    /\ Executed(p) => Decided(p)
    /\ ~Decided(p) => winner[p] = {}
    /\ Decided(p) => \E q \in Requests : WonBy(p, q)

IInv ==
    /\ ApprovalsTypeOK
    /\ \A q \in Requests : Knows(q)
    /\ \A p \in Proposals : Recorded(p)

\* Nothing is decided and no call has begun.
LEMMA InvInit == ApprovalsInit => IInv
BY TypeInit DEF ApprovalsInit, IInv, Knows, Recorded, WonBy, Decided, Executed, Never, ApprovalsTypeOK

\* A step that leaves the decision of a proposal and its winner alone keeps what
\* its row records, whatever it does to an undecided status.
LEMMA RecordedFrame ==
    ASSUME NEW o \in Proposals, Recorded(o), form' = form, expires' = expires,
           decidedAt'[o] = decidedAt[o], executedAt'[o] = executedAt[o],
           winner'[o] = winner[o], requester'[o] = requester[o],
           status'[o] = status[o] \/ status'[o] \notin {"absent", "pending"},
           \A q \in Requests : stage[q] \in {"auditing", "approved", "denied", "lost"} =>
                                stage'[q] \in {"auditing", "approved", "denied", "lost"}
    PROVE  Recorded(o)'
<1>1. ASSUME NEW q \in Requests, WonBy(o, q) PROVE WonBy(o, q)'
    BY <1>1 DEF WonBy, Executed
<1> QED BY <1>1 DEF Recorded, Decided, Executed

LEMMA InvStep == IInv /\ [ApprovalsNext]_approvalVars => IInv'
<1> SUFFICES ASSUME IInv, [ApprovalsNext]_approvalVars PROVE IInv'
    OBVIOUS
<1>1. ApprovalsTypeOK'
    BY TypeStep DEF IInv
<1> USE ApprovalsAssumption DEF ApprovalsAssumption, IInv, Knows, Recorded, WonBy, Decided, Executed, ApprovalsTypeOK, Forms, Goto, row, Never, Time, Verdict
<1>2. CASE Tick \/ UNCHANGED approvalVars
    <2>1. UNCHANGED <<status, requester, expires, decidedAt, executedAt, stage, form, stamp, winner>>
        BY <1>2 DEF Tick, approvalVars
    <2>2. ASSUME NEW r \in Requests PROVE Knows(r)'
        BY <2>1, <2>2
    <2>3. ASSUME NEW o \in Proposals PROVE Recorded(o)'
        BY <2>1, <2>3
    <2> QED BY <1>1, <2>2, <2>3
<1>3. ASSUME NEW p \in Proposals, NEW s \in Subjects, Insert(p, s) PROVE IInv'
    <2>1. ASSUME NEW r \in Requests PROVE Knows(r)'
        BY <1>3, <2>1 DEF Insert, RequireAdmin
    <2>2. ASSUME NEW o \in Proposals PROVE Recorded(o)'
        <3>1. CASE o = p
            BY <1>3, <3>1 DEF Insert
        <3>2. CASE o # p
            <4>1. /\ expires'[o] = expires[o] /\ requester'[o] = requester[o]
                  /\ status'[o] = status[o]
                  /\ UNCHANGED <<decidedAt, executedAt, form, winner, stage>>
                BY <1>3, <3>2 DEF Insert
            <4>2. ASSUME NEW r \in Requests, WonBy(o, r) PROVE WonBy(o, r)'
                BY <4>1, <4>2
            <4>3. Recorded(o) => Recorded(o)'
                BY <4>1, <4>2
            <4> QED BY <4>3
        <3> QED BY <3>1, <3>2
    <2> QED BY <1>1, <2>1, <2>2
<1>4. ASSUME NEW p \in Proposals, HandOut(p) PROVE IInv'
    <2>1. ASSUME NEW r \in Requests PROVE Knows(r)'
        BY <1>4, <2>1 DEF HandOut
    <2>2. ASSUME NEW o \in Proposals PROVE Recorded(o)'
        BY <1>4, <2>2 DEF HandOut
    <2> QED BY <1>1, <2>1, <2>2
<1>5. ASSUME NEW q \in Requests, Arrive(q) PROVE IInv'
    <2>1. ASSUME NEW r \in Requests PROVE Knows(r)'
        BY <1>5, <2>1 DEF Arrive, RequireAdmin
    <2>2. ASSUME NEW o \in Proposals PROVE Recorded(o)'
        BY <1>5, <2>2 DEF Arrive, RequireAdmin
    <2> QED BY <1>1, <2>1, <2>2
<1>6. ASSUME NEW q \in Requests, Read(q) PROVE IInv'
    <2>1. ASSUME NEW r \in Requests PROVE Knows(r)'
        BY <1>6, <2>1 DEF Read, Visible
    <2>2. ASSUME NEW o \in Proposals PROVE Recorded(o)'
        BY <1>6, <2>2 DEF Read, Visible
    <2> QED BY <1>1, <2>1, <2>2
<1>7. ASSUME NEW q \in Requests, Check(q) PROVE IInv'
    <2>1. ASSUME NEW r \in Requests PROVE Knows(r)'
        BY <1>7, <2>1 DEF Check, Elapsed
    <2>2. ASSUME NEW o \in Proposals PROVE Recorded(o)'
        BY <1>7, <2>2 DEF Check, Elapsed
    <2> QED BY <1>1, <2>1, <2>2
<1>8. ASSUME NEW q \in Requests, Expire(q) PROVE IInv'
    <2>1. ASSUME NEW r \in Requests PROVE Knows(r)'
        BY <1>8, <2>1 DEF Expire
    <2>2. ASSUME NEW o \in Proposals PROVE Recorded(o)'
        <3>1. CASE o = form[q].on
            BY <1>8, <3>1 DEF Expire
        <3>2. CASE o # form[q].on
            <4>0. /\ \E answer \in {"refused", "lost"} :
                        stage' = [stage EXCEPT ![q] = answer]
                  /\ stage[q] = "expiring"
                <5> HIDE DEF IInv, Knows, Recorded, ApprovalsTypeOK
                <5> QED BY <1>8 DEF Expire
            <4>1. /\ status'[o] = status[o]
                  /\ UNCHANGED <<requester, expires, decidedAt, executedAt, form, winner>>
                BY <1>8, <3>2 DEF Expire
            <4>2. \A r \in Requests : stage[r] \in {"auditing", "approved", "denied", "lost"} =>
                                       stage'[r] \in {"auditing", "approved", "denied", "lost"}
                BY <4>0
            <4>3. Recorded(o)
                BY DEF IInv
            <4> HIDE DEF Recorded, IInv, Knows, ApprovalsTypeOK
            <4> QED BY <4>1, <4>2, <4>3, RecordedFrame
        <3> QED BY <3>1, <3>2
    <2> QED BY <1>1, <2>1, <2>2
<1>9. ASSUME NEW q \in Requests, Update(q) PROVE IInv'
    <2> DEFINE p == form[q].on
    <2>1. /\ stage[q] = "updating" /\ p \in Proposals
          /\ requester[p] = {form[q].by} /\ form[q].by \in Admins
          /\ form[q].right /\ stamp[q] < expires[p] /\ stamp[q] # Never
        BY <1>9 DEF Update
    <2>2. UNCHANGED <<clock, requester, expires, trail, form, stamp>>
        BY <1>9 DEF Update
    <2>3. CASE ~Takeable(p)
        <3>1. stage' = [stage EXCEPT ![q] = "refused"] /\ UNCHANGED <<status, decidedAt, executedAt, winner>>
            BY <1>9, <2>3 DEF Update
        <3>2. ASSUME NEW r \in Requests PROVE Knows(r)'
            BY <2>2, <3>1, <3>2
        <3>3. ASSUME NEW o \in Proposals PROVE Recorded(o)'
            BY <2>1, <2>2, <3>1, <3>3
        <3> QED BY <1>1, <3>2, <3>3
    <2>4. CASE Takeable(p)
        <3>1. /\ status' = [status EXCEPT ![p] = Verdict(q)]
              /\ decidedAt' = [decidedAt EXCEPT ![p] = stamp[q]]
              /\ executedAt' = [executedAt EXCEPT ![p] =
                                    IF form[q].confirm THEN stamp[q] ELSE Never]
              /\ winner' = [winner EXCEPT ![p] = {q}]
              /\ stage' = [stage EXCEPT ![q] = "auditing"]
            BY <1>9, <2>4 DEF Update
        <3>2. winner[p] = {}
            BY <2>1, <2>4 DEF Takeable
        <3>3. ASSUME NEW r \in Requests PROVE Knows(r)'
            <4>1. CASE r = q
                BY <2>1, <2>2, <3>1, <4>1
            <4>2. CASE r # q /\ form[r].on # p
                BY <2>2, <3>1, <4>2
            <4>3. CASE r # q /\ form[r].on = p
                <5>1. stage[r] \notin {"auditing", "approved", "denied"}
                    <6>1. Knows(r)
                        BY DEF IInv
                    <6> HIDE DEF IInv, ApprovalsTypeOK, Recorded
                    <6> QED BY <3>2, <4>3, <6>1
                <5>2. stage'[r] = stage[r] /\ status'[p] # "absent"
                    BY <2>1, <3>1, <4>3
                <5> QED BY <2>2, <4>3, <5>1, <5>2
            <4> QED BY <4>1, <4>2, <4>3
        <3>4. ASSUME NEW o \in Proposals PROVE Recorded(o)'
            <4>1. CASE o = p
                <5>1. decidedAt'[o] # Never /\ status'[o] \notin {"absent", "pending"}
                    BY <2>1, <3>1, <4>1
                <5>2. /\ winner'[o] = {q} /\ stage'[q] = "auditing" /\ form'[q].on = o
                      /\ executedAt'[o] # Never <=> form[q].confirm
                      /\ executedAt'[o] # Never => executedAt'[o] = stamp[q]
                    BY <2>1, <2>2, <3>1, <4>1
                <5>3. WonBy(o, q)'
                    BY <2>1, <2>2, <4>1, <5>2
                <5>4. executedAt'[o] # Never => decidedAt'[o] # Never
                    BY <5>1
                <5> HIDE DEF IInv, ApprovalsTypeOK, WonBy, Knows
                <5> QED BY <5>1, <5>3, <5>4
            <4>2. CASE o # p
                <5>1. /\ status'[o] = status[o] /\ decidedAt'[o] = decidedAt[o]
                      /\ executedAt'[o] = executedAt[o] /\ winner'[o] = winner[o]
                    BY <3>1, <4>2
                <5>2. \A r \in Requests : stage[r] \in {"auditing", "approved", "denied", "lost"} =>
                                           stage'[r] \in {"auditing", "approved", "denied", "lost"}
                    BY <3>1
                <5>3. Recorded(o)
                    BY DEF IInv
                <5> HIDE DEF Recorded, IInv, Knows, ApprovalsTypeOK
                <5> QED BY <2>2, <5>1, <5>2, <5>3, RecordedFrame
            <4> QED BY <4>1, <4>2
        <3> QED BY <1>1, <3>3, <3>4
    <2> QED BY <2>3, <2>4
<1>10. ASSUME NEW q \in Requests, Audit(q) PROVE IInv'
    <2>1. ASSUME NEW r \in Requests PROVE Knows(r)'
        BY <1>10, <2>1 DEF Audit
    <2>2. ASSUME NEW o \in Proposals PROVE Recorded(o)'
        <3>1. /\ \E answer \in {"approved", "denied", "lost"} :
                    stage' = [stage EXCEPT ![q] = answer]
              /\ UNCHANGED <<status, requester, expires, decidedAt, executedAt, form, winner>>
            <4> HIDE DEF IInv, Knows, Recorded, ApprovalsTypeOK
            <4> QED BY <1>10 DEF Audit
        <3>2. \A r \in Requests : stage[r] \in {"auditing", "approved", "denied", "lost"} =>
                                   stage'[r] \in {"auditing", "approved", "denied", "lost"}
            BY <3>1
        <3>3. Recorded(o)
            BY DEF IInv
        <3> HIDE DEF IInv, Knows, Recorded, ApprovalsTypeOK
        <3> QED BY <3>1, <3>2, <3>3, RecordedFrame
    <2> QED BY <1>1, <2>1, <2>2
<1>11. ASSUME NEW q \in Requests, Lose(q) PROVE IInv'
    <2>1. ASSUME NEW r \in Requests PROVE Knows(r)'
        BY <1>11, <2>1 DEF Lose, Open
    <2>2. ASSUME NEW o \in Proposals PROVE Recorded(o)'
        BY <1>11, <2>2 DEF Lose, Open
    <2> QED BY <1>1, <2>1, <2>2
<1> QED
    BY <1>2, <1>3, <1>4, <1>5, <1>6, <1>7, <1>8, <1>9, <1>10, <1>11 DEF ApprovalsNext

LEMMA InvHolds == ApprovalsSpec => []IInv
BY InvInit, InvStep, PTL DEF ApprovalsSpec

\* The action is executed only for its requester, with token, confirmation and
\* in time, by the one call that won.
THEOREM Authorised == ApprovalsSpec => []ExecutionAuthorised
<1>1. IInv => ExecutionAuthorised
    BY DEF IInv, Recorded, WonBy, ExecutionAuthorised, Executed, Decided
<1> QED BY <1>1, InvHolds, PTL

\* A verdict that is told is the verdict that was carried out.
THEOREM AnswersAgree == ApprovalsSpec => []AnswerIsTheDecision
<1>1. IInv => AnswerIsTheDecision
    BY DEF IInv, Knows, AnswerIsTheDecision, Verdict
<1> QED BY <1>1, InvHolds, PTL

\* A proposal recorded as expired is never decided afterwards.
THEOREM ExpiredStays == ApprovalsSpec => ExpiredIsFinal
<1> DEFINE Stays == \A p \in Proposals : status[p] = "expired" =>
        status'[p] = "expired" /\ decidedAt'[p] = decidedAt[p]
                               /\ executedAt'[p] = executedAt[p]
<1>1. IInv /\ [ApprovalsNext]_approvalVars => [Stays]_approvalVars
    <2> SUFFICES ASSUME IInv, ApprovalsNext, NEW p \in Proposals, status[p] = "expired"
                 PROVE  /\ status'[p] = "expired" /\ decidedAt'[p] = decidedAt[p]
                        /\ executedAt'[p] = executedAt[p]
        OBVIOUS
    <2>1. CASE \E o \in Proposals, s \in Subjects : Insert(o, s)
        BY <2>1 DEF Insert, IInv, ApprovalsTypeOK
    <2>2. CASE \E q \in Requests : Expire(q)
        BY <2>2 DEF Expire, IInv, ApprovalsTypeOK
    <2>3. CASE \E q \in Requests : Update(q)
        BY <2>3 DEF Update, Takeable, IInv, ApprovalsTypeOK
    <2>4. CASE \/ Tick \/ \E o \in Proposals : HandOut(o)
               \/ \E q \in Requests : Arrive(q) \/ Read(q) \/ Check(q) \/ Audit(q) \/ Lose(q)
        BY <2>4 DEF Tick, HandOut, Arrive, Read, Check, Audit, Lose, row
    <2> QED BY <2>1, <2>2, <2>3, <2>4 DEF ApprovalsNext
<1> QED BY <1>1, InvHolds, PTL DEF ApprovalsSpec, ExpiredIsFinal

-----------------------------------------------------------------------------
(* The store implements the one-shot decision.                              *)

\* A call that has not decided and is told nothing new about is a stutter or a
\* refusal of the abstract store.
LEMMA StepImplements == IInv /\ [ApprovalsNext]_approvalVars =>
    [OneShot!Next]_<<[p \in Proposals |-> DecisionOf(p)], winner,
                     [q \in Requests |-> ToldTo(q)]>>
<1> DEFINE dec == [p \in Proposals |-> DecisionOf(p)]
           told == [q \in Requests |-> ToldTo(q)]
<1> SUFFICES ASSUME IInv, [ApprovalsNext]_approvalVars
             PROVE  OneShot!Next \/ UNCHANGED <<dec, winner, told>>
    OBVIOUS
<1>0. ApprovalsTypeOK
    BY DEF IInv
<1>1. UNCHANGED <<decidedAt, executedAt>> => UNCHANGED dec
    BY DEF DecisionOf, Decided, Executed
<1>2. ASSUME NEW q \in Requests, NEW l \in Told, stage[q] \notin Told, stage' = [stage EXCEPT ![q] = l]
      PROVE  told' = [told EXCEPT ![q] = l] /\ told[q] = "nothing"
    BY <1>0, <1>2 DEF ToldTo, Told, ApprovalsTypeOK
<1>3. ASSUME NEW q \in Requests, NEW l \in Open, stage[q] \notin Told, stage' = [stage EXCEPT ![q] = l]
      PROVE  UNCHANGED told
    BY <1>0, <1>3 DEF ToldTo, Told, ApprovalsTypeOK, Open
<1>4. ASSUME NEW q \in Requests, stage[q] \in Open \ {"auditing"},
             stage' = [stage EXCEPT ![q] = "refused"], UNCHANGED <<decidedAt, executedAt, winner>>
      PROVE  OneShot!Refuse(q)
    <2>1. ASSUME NEW p \in Proposals PROVE winner[p] # {q}
        <3>1. Recorded(p) /\ stage[q] \notin {"auditing", "approved", "denied", "lost"}
            BY <1>4, <2>1 DEF IInv, Open
        <3> QED BY <3>1 DEF Recorded, WonBy
    <2>2. stage[q] \notin Told
        BY <1>4 DEF Open, Told
    <2>3. told' = [told EXCEPT ![q] = "refused"] /\ told[q] = "nothing"
        BY <1>2, <1>4, <2>2 DEF Told
    <2> QED BY <1>1, <1>4, <2>1, <2>3 DEF OneShot!Refuse, OneShot!Wins
<1>lose. ASSUME NEW q \in Requests, stage[q] \in Open,
                stage' = [stage EXCEPT ![q] = "lost"], UNCHANGED <<decidedAt, executedAt, winner>>
         PROVE  OneShot!Lose(q)
    <2>1. told' = [told EXCEPT ![q] = "lost"] /\ told[q] = "nothing"
        BY <1>2, <1>lose DEF Open, Told
    <2> QED BY <1>1, <1>lose, <2>1 DEF OneShot!Lose
<1>5. CASE UNCHANGED <<stage, decidedAt, executedAt, winner>>
    BY <1>1, <1>5 DEF ToldTo
<1>6. CASE Tick \/ \E p \in Proposals : HandOut(p) \/ \E s \in Subjects : Insert(p, s)
    BY <1>5, <1>6 DEF Tick, HandOut, Insert, row
<1>7. ASSUME NEW q \in Requests, Arrive(q) \/ Read(q) \/ Check(q) \/ Expire(q)
      PROVE  OneShot!Next \/ UNCHANGED <<dec, winner, told>>
    <2>1. stage[q] \in Open \ {"auditing"} /\ UNCHANGED <<decidedAt, executedAt, winner>>
        BY <1>7 DEF Arrive, Read, Check, Expire, Open, row
    <2>2. \/ stage' = [stage EXCEPT ![q] = "refused"]
          \/ stage' = [stage EXCEPT ![q] = "lost"]
          \/ \E l \in Open : stage' = [stage EXCEPT ![q] = l]
        BY <1>7 DEF Arrive, Read, Check, Expire, Open, Goto
    <2>3. CASE stage' = [stage EXCEPT ![q] = "refused"]
        BY <1>4, <2>1, <2>3 DEF OneShot!Next
    <2>4. CASE \E l \in Open : stage' = [stage EXCEPT ![q] = l]
        BY <1>1, <1>3, <2>1, <2>4 DEF Open, Told
    <2>5. CASE stage' = [stage EXCEPT ![q] = "lost"]
        BY <1>lose, <2>1, <2>5 DEF OneShot!Next
    <2> QED BY <2>2, <2>3, <2>4, <2>5
<1>8. ASSUME NEW q \in Requests, Update(q)
      PROVE  OneShot!Next
    <2>p. form[q].on \in Proposals
        BY <1>0 DEF ApprovalsTypeOK, Forms
    <2> SUFFICES ASSUME NEW p \in Proposals, p = form[q].on PROVE OneShot!Next
        BY <2>p
    <2>1. /\ stage[q] = "updating" /\ p \in Proposals /\ stamp[q] \in Time
        BY <1>0, <1>8 DEF Update, ApprovalsTypeOK, Forms
    <2>2. CASE ~Takeable(p)
        <3>1. stage' = [stage EXCEPT ![q] = "refused"] /\ UNCHANGED <<decidedAt, executedAt, winner>>
            BY <1>8, <2>2 DEF Update, Goto
        <3> QED BY <1>4, <2>1, <3>1 DEF OneShot!Next, Open
    <2>3. CASE Takeable(p)
        <3>1. /\ decidedAt' = [decidedAt EXCEPT ![p] = stamp[q]]
              /\ executedAt' = [executedAt EXCEPT ![p] =
                                    IF form[q].confirm THEN stamp[q] ELSE Never]
              /\ winner' = [winner EXCEPT ![p] = {q}]
              /\ stage' = [stage EXCEPT ![q] = "auditing"]
            BY <1>8, <2>3 DEF Update, Goto
        <3>2. UNCHANGED told /\ told[q] = "nothing"
            BY <1>3, <2>1, <3>1 DEF Open, Told, ToldTo
        <3>3. dec[p] = "open"
            BY <2>1, <2>3 DEF IInv, Recorded, Takeable, DecisionOf
        <3>4. ASSUME NEW o \in Proposals PROVE winner[o] # {q}
            <4>1. Recorded(o)
                BY DEF IInv
            <4> QED BY <2>1, <4>1 DEF Recorded, WonBy
        <3>5. dec' = [dec EXCEPT ![p] = Verdict(q)]
            <4>1. stamp[q] # Never
                BY <2>1, ApprovalsAssumption DEF Time, Never, ApprovalsAssumption
            <4>2. DecisionOf(p)' = Verdict(q)
                <5>1. decidedAt'[p] = stamp[q]
                    BY <1>0, <3>1 DEF ApprovalsTypeOK
                <5>2. executedAt'[p] = IF form[q].confirm THEN stamp[q] ELSE Never
                    BY <1>0, <3>1 DEF ApprovalsTypeOK
                <5> QED BY <4>1, <5>1, <5>2 DEF DecisionOf, Decided, Executed, Verdict
            <4>3. \A o \in Proposals : o # p => DecisionOf(o)' = DecisionOf(o)
                BY <1>0, <3>1 DEF DecisionOf, Decided, Executed, ApprovalsTypeOK
            <4> QED BY <4>2, <4>3
        <3>6. Verdict(q) \in OneShot!Verdicts
            BY DEF Verdict, OneShot!Verdicts
        <3>7. OneShot!Decide(q, p)
            BY <3>1, <3>2, <3>3, <3>4, <3>5, <3>6 DEF OneShot!Decide, OneShot!Wins
        <3> QED BY <2>1, <3>7 DEF OneShot!Next
    <2> QED BY <2>2, <2>3
<1>9. ASSUME NEW q \in Requests, Audit(q) PROVE OneShot!Next
    <2> DEFINE p == form[q].on
    <2>0. /\ stage[q] = "auditing" /\ p \in Proposals
          /\ \E answer \in {Verdict(q), "lost"} : stage' = [stage EXCEPT ![q] = answer]
          /\ UNCHANGED <<decidedAt, executedAt, winner>>
        BY <1>0, <1>9 DEF Audit, ApprovalsTypeOK, Forms, Goto, row
    <2>lost. CASE stage' = [stage EXCEPT ![q] = "lost"]
        BY <1>lose, <2>0, <2>lost DEF OneShot!Next, Open
    <2> SUFFICES ASSUME stage' = [stage EXCEPT ![q] = Verdict(q)] PROVE OneShot!Next
        BY <2>0, <2>lost
    <2>1. /\ stage[q] = "auditing" /\ p \in Proposals /\ stage' = [stage EXCEPT ![q] = Verdict(q)]
          /\ UNCHANGED <<decidedAt, executedAt, winner>>
        BY <2>0
    <2>2. winner[p] = {q} /\ (Executed(p) <=> form[q].confirm)
        BY <2>1 DEF IInv, Knows
    <2>3. dec[p] = Verdict(q)
        <3>1. Recorded(p)
            BY <2>1 DEF IInv
        <3> QED BY <2>1, <2>2, <3>1 DEF Recorded, DecisionOf, Verdict
    <2>4. told' = [told EXCEPT ![q] = Verdict(q)] /\ told[q] = "nothing"
        BY <1>2, <2>1 DEF Verdict, Told
    <2>5. OneShot!Tell(q, p)
        BY <1>1, <2>1, <2>2, <2>3, <2>4 DEF OneShot!Tell, OneShot!Wins
    <2> QED BY <2>1, <2>5 DEF OneShot!Next
<1>10. ASSUME NEW q \in Requests, Lose(q) PROVE OneShot!Next
    <2>1. stage[q] \in Open /\ stage' = [stage EXCEPT ![q] = "lost"]
          /\ UNCHANGED <<decidedAt, executedAt, winner>>
        BY <1>10 DEF Lose, Goto, row
    <2> QED BY <1>lose, <2>1 DEF OneShot!Next
<1>11. CASE UNCHANGED approvalVars
    BY <1>5, <1>11 DEF approvalVars, row
<1> QED BY <1>6, <1>7, <1>8, <1>9, <1>10, <1>11 DEF ApprovalsNext

\* Whatever the calls, their interleaving, their losses and the clock, the rows
\* behave as a store in which every proposal is decided once.
THEOREM StoreDecidesOnce == ApprovalsSpec => DecidesOnce
<1>1. ApprovalsInit => OneShot!Init
    BY DEF ApprovalsInit, OneShot!Init, DecisionOf, Decided, Executed, ToldTo, Told, Never
<1> QED BY <1>1, StepImplements, InvHolds, PTL DEF ApprovalsSpec, DecidesOnce, OneShot!Spec


-----------------------------------------------------------------------------
(* The audit trail.  An event is appended in a transaction of its own, so    *)
(* what the trail says of a decision rests on where its call is.            *)

Stories == {<<>>, <<"pending">>, <<"pending", "approved">>, <<"pending", "denied">>}

\* Who carries the token of a proposal was given it, and a decision needs it.
Carries(q) ==
    /\ stage[q] # "idle" /\ form[q].right => trail[form[q].on] # <<>>
    /\ stage[q] \in {"updating", "auditing"} => form[q].right

\* The decision is the last event once its call was answered, or was lost behind
\* the event, and only then.
Story(p) ==
    /\ trail[p] \in Stories
    /\ \A v \in {"approved", "denied"} : trail[p] = <<"pending", v>> =>
           \E q \in Requests : winner[p] = {q} /\ stage[q] \in {v, "lost"} /\ Verdict(q) = v
    /\ Decided(p) => trail[p] # <<>>
    /\ Decided(p) /\ trail[p] = <<"pending">> =>
           \E q \in winner[p] : stage[q] \in {"auditing", "lost"}

Trails == (\A q \in Requests : Carries(q)) /\ (\A p \in Proposals : Story(p))

\* A list of one with another behind it.
LEMMA AppendOne ==
    ASSUME NEW S, NEW a \in S, NEW b \in S
    PROVE  Append(<<a>>, b) = <<a, b>>
<1> DEFINE s == Append(<<a>>, b)
           t == <<a, b>>
<1>1. <<a>> \in Seq(S) /\ Len(<<a>>) = 1
    OBVIOUS
<1>2. t \in Seq(S) /\ Len(t) = 2 /\ t[1] = a /\ t[2] = b
    OBVIOUS
<1>3. s \in Seq(S) /\ Len(s) = 2 /\ s[1] = a /\ s[2] = b
    BY <1>1, AppendProperties
<1> HIDE DEF s, t
<1>4. \A i \in 1..Len(s) : s[i] = t[i]
    BY <1>2, <1>3
<1>5. s = t
    BY <1>2, <1>3, <1>4, SeqEqual
<1> QED BY <1>5 DEF s, t

\* What leaves the trail, the decision and the calls on their way where they
\* are leaves the story what it is.
LEMMA StoryFrame ==
    ASSUME NEW p \in Proposals, Story(p), winner[p] \subseteq Requests, form' = form,
           trail'[p] = trail[p], winner'[p] = winner[p], decidedAt'[p] = decidedAt[p],
           \A q \in Requests : stage[q] \in {"approved", "denied", "lost"} => stage'[q] = stage[q],
           \A q \in Requests : stage[q] = "auditing" => stage'[q] \in {"auditing", "lost"}
    PROVE  Story(p)'
<1>1. ASSUME NEW v \in {"approved", "denied"}, NEW q \in Requests, stage[q] \in {v, "lost"}
      PROVE  stage'[q] \in {v, "lost"}
    BY <1>1
<1>2. \A q : Verdict(q)' = Verdict(q)
    BY DEF Verdict
<1> QED BY <1>1, <1>2 DEF Story, Decided

LEMMA TrailStep == IInv /\ Trails /\ [ApprovalsNext]_approvalVars => Trails'
<1> SUFFICES ASSUME IInv, Trails, [ApprovalsNext]_approvalVars PROVE Trails'
    OBVIOUS
<1>0. /\ ApprovalsTypeOK /\ \A q \in Requests : form[q].on \in Proposals
      /\ stage \in [Requests -> Open \cup Told] /\ winner \in [Proposals -> SUBSET Requests]
      /\ decidedAt \in [Proposals -> Time \cup {Never}]
      /\ trail \in [Proposals -> Seq({"pending", "approved", "denied"})]
    BY DEF IInv, ApprovalsTypeOK, Forms
<1>1. CASE Tick \/ (\E p \in Proposals, s \in Subjects : Insert(p, s)) \/ UNCHANGED approvalVars
    <2>1. UNCHANGED <<trail, stage, form, winner, decidedAt>>
        BY <1>1 DEF Tick, Insert, row, approvalVars
    <2> QED BY <2>1 DEF Trails, Carries, Story, Decided, Verdict
<1>2. ASSUME NEW p \in Proposals, HandOut(p) PROVE Trails'
    <2>1. /\ trail' = [trail EXCEPT ![p] = <<"pending">>] /\ trail[p] = <<>>
          /\ UNCHANGED <<stage, form, winner, decidedAt>>
        BY <1>2 DEF HandOut, row
    <2>2. ASSUME NEW q \in Requests PROVE Carries(q)'
        <3>1. trail'[form[q].on] = trail[form[q].on] \/ trail'[form[q].on] = <<"pending">>
            BY <1>0, <2>1
        <3>2. <<"pending">> # <<>>
            OBVIOUS
        <3> QED BY <2>1, <3>1, <3>2 DEF Trails, Carries
    <2>3. ASSUME NEW o \in Proposals PROVE Story(o)'
        <3>1. CASE o = p
            <4>1. ~Decided(p)' /\ trail'[p] = <<"pending">>
                BY <1>0, <2>1 DEF Trails, Story, Decided
            <4> QED BY <3>1, <4>1 DEF Story, Stories
        <3>2. CASE o # p
            <4>1. trail'[o] = trail[o] /\ Story(o) /\ winner[o] \subseteq Requests
                BY <1>0, <2>1, <3>2 DEF Trails
            <4> QED BY <2>1, <4>1, StoryFrame
        <3> QED BY <3>1, <3>2
    <2> QED BY <2>2, <2>3 DEF Trails
<1>3. ASSUME NEW q \in Requests,
             \/ Arrive(q) \/ Read(q) \/ Check(q) \/ Expire(q) \/ Lose(q)
             \/ Update(q) /\ ~Takeable(form[q].on)
      PROVE  Trails'
    <2>1. /\ UNCHANGED <<trail, form, winner, decidedAt>>
          /\ \E l \in Open \cup Told : stage' = [stage EXCEPT ![q] = l]
        BY <1>3 DEF Arrive, Read, Check, Expire, Lose, Update, Goto, row, Open, Told
    <2>2. /\ stage[q] \in Open /\ stage'[q] # "auditing"
          /\ stage'[q] \in {"reading", "checking", "expiring", "updating", "refused", "lost"}
          /\ stage[q] = "auditing" => stage'[q] = "lost"
          /\ stage[q] = "idle" /\ form[q].right => trail[form[q].on] # <<>>
          /\ stage'[q] = "updating" => form[q].right
        BY <1>0, <1>3
           DEF Arrive, Read, Check, Expire, Lose, Update, Goto, Open, Told, Ticketed
    <2>3. \A r \in Requests : r # q => stage'[r] = stage[r]
        BY <1>0, <2>1
    <2>4. ASSUME NEW r \in Requests PROVE Carries(r)'
        BY <2>1, <2>2, <2>3 DEF Trails, Carries
    <2>5. ASSUME NEW o \in Proposals PROVE Story(o)'
        <3>1. /\ Story(o) /\ winner[o] \subseteq Requests
              /\ trail'[o] = trail[o] /\ winner'[o] = winner[o] /\ decidedAt'[o] = decidedAt[o]
            BY <1>0, <2>1 DEF Trails
        <3>2. /\ \A r \in Requests : stage[r] \in {"approved", "denied", "lost"} => stage'[r] = stage[r]
              /\ \A r \in Requests : stage[r] = "auditing" => stage'[r] \in {"auditing", "lost"}
            BY <2>2, <2>3 DEF Open
        <3> QED BY <2>1, <3>1, <3>2, StoryFrame
    <2> QED BY <2>4, <2>5 DEF Trails
<1>4. ASSUME NEW q \in Requests, Update(q), Takeable(form[q].on) PROVE Trails'
    <2>0. PICK p \in Proposals : p = form[q].on
        BY <1>0
    <2>1. /\ stage[q] = "updating" /\ UNCHANGED <<trail, form>>
          /\ stage' = [stage EXCEPT ![q] = "auditing"]
          /\ winner' = [winner EXCEPT ![p] = {q}]
          /\ decidedAt' = [decidedAt EXCEPT ![p] = stamp[q]]
        BY <1>4, <2>0 DEF Update, Goto
    <2>2. winner[p] = {}
        BY <1>4, <2>0 DEF IInv, Recorded, Takeable
    <2>3. form[q].right /\ trail[p] # <<>>
        BY <2>0, <2>1 DEF Trails, Carries
    <2>4. trail[p] = <<"pending">>
        BY <2>2, <2>3 DEF Trails, Story, Stories
    <2>5. ASSUME NEW r \in Requests PROVE Carries(r)'
        BY <1>0, <2>0, <2>1, <2>3 DEF Trails, Carries
    <2>6. ASSUME NEW o \in Proposals PROVE Story(o)'
        <3>1. CASE o = p
            <4>1. trail'[p] = <<"pending">> /\ winner'[p] = {q} /\ stage'[q] = "auditing"
                BY <1>0, <2>1, <2>4
            <4> QED BY <3>1, <4>1 DEF Story, Stories
        <3>2. CASE o # p
            <4>1. /\ Story(o) /\ winner[o] \subseteq Requests
                  /\ trail'[o] = trail[o] /\ winner'[o] = winner[o]
                  /\ decidedAt'[o] = decidedAt[o]
                BY <1>0, <2>1, <3>2 DEF Trails
            <4>2. /\ \A r \in Requests :
                         stage[r] \in {"approved", "denied", "lost"} => stage'[r] = stage[r]
                  /\ \A r \in Requests : stage[r] = "auditing" => stage'[r] \in {"auditing", "lost"}
                BY <1>0, <2>1
            <4> QED BY <2>1, <4>1, <4>2, StoryFrame
        <3> QED BY <3>1, <3>2
    <2> QED BY <2>5, <2>6 DEF Trails
<1>5. ASSUME NEW q \in Requests, Audit(q) PROVE Trails'
    <2>0. PICK p \in Proposals : p = form[q].on
        BY <1>0
    <2> DEFINE v == Verdict(q)
    <2>1. /\ stage[q] = "auditing" /\ UNCHANGED <<form, winner, decidedAt>>
          /\ \E answer \in {v, "lost"} : stage' = [stage EXCEPT ![q] = answer]
          /\ trail' = [trail EXCEPT ![p] = Append(trail[p], v)]
        BY <1>5, <2>0 DEF Audit, Goto, row
    <2>2. v \in {"approved", "denied"}
        BY DEF Verdict
    <2>v. Verdict(q)' = v
        BY <2>1 DEF Verdict
    <2> HIDE DEF v
    <2>3. winner[p] = {q}
        BY <2>0, <2>1 DEF IInv, Knows
    <2>4. trail[p] = <<"pending">>
        <3>1. trail[p] # <<>> /\ trail[p] \in Stories
            BY <2>0, <2>1 DEF Trails, Carries, Story
        <3>2. ASSUME NEW w \in {"approved", "denied"} PROVE trail[p] # <<"pending", w>>
            <4>1. \A r \in Requests : winner[p] = {r} => stage[r] \notin {w, "lost"}
                BY <2>1, <2>3
            <4> QED BY <4>1 DEF Trails, Story
        <3>3. trail[p] # <<"pending", "approved">> /\ trail[p] # <<"pending", "denied">>
            BY <3>2
        <3> QED BY <3>1, <3>3 DEF Stories
    <2>5. trail'[p] = <<"pending", v>>
        <3>1. trail'[p] = Append(<<"pending">>, v)
            BY <1>0, <2>1, <2>4
        <3>2. /\ v \in {"pending", "approved", "denied"}
              /\ "pending" \in {"pending", "approved", "denied"}
            BY <2>2
        <3>3. Append(<<"pending">>, v) = <<"pending", v>>
            BY <3>2, AppendOne
        <3> QED BY <3>1, <3>3
    <2>6. ASSUME NEW r \in Requests PROVE Carries(r)'
        <3>1. trail'[form[r].on] = trail[form[r].on] \/ trail'[form[r].on] = <<"pending", v>>
            BY <1>0, <2>1, <2>5
        <3>2. <<"pending", v>> # <<>>
            OBVIOUS
        <3>3. CASE r = q
            <4>1. stage'[q] \notin {"updating", "auditing"} /\ stage[q] # "idle"
                BY <1>0, <2>1, <2>2
            <4> QED BY <2>1, <3>1, <3>2, <3>3, <4>1 DEF Trails, Carries
        <3>4. CASE r # q
            <4>1. stage'[r] = stage[r]
                BY <1>0, <2>1, <3>4
            <4> QED BY <2>1, <3>1, <3>2, <4>1 DEF Trails, Carries
        <3> QED BY <3>3, <3>4
    <2>7. ASSUME NEW o \in Proposals PROVE Story(o)'
        <3>1. CASE o = p
            <4>1. /\ winner'[p] = {q} /\ stage'[q] \in {v, "lost"}
                  /\ trail'[p] \in Stories /\ Verdict(q)' = v
                BY <1>0, <2>1, <2>2, <2>3, <2>5, <2>v DEF Stories
            <4>2. trail'[p] # <<>> /\ trail'[p] # <<"pending">>
                BY <2>5
            <4>3. \A w \in {"approved", "denied"} : trail'[p] = <<"pending", w>> => w = v
                BY <2>5
            <4> QED BY <3>1, <4>1, <4>2, <4>3 DEF Story
        <3>2. CASE o # p
            <4>1. /\ Story(o) /\ winner[o] \subseteq Requests /\ q \notin winner[o]
                  /\ trail'[o] = trail[o] /\ winner'[o] = winner[o]
                  /\ decidedAt'[o] = decidedAt[o]
                <5>1. Recorded(o)
                    BY DEF IInv
                <5>2. q \notin winner[o]
                    BY <2>0, <3>2, <5>1 DEF Recorded, WonBy
                <5> QED BY <1>0, <2>1, <3>2, <5>2 DEF Trails
            <4>2. \A r \in Requests : r # q => stage'[r] = stage[r]
                BY <1>0, <2>1
            <4>3. \A r \in winner[o] : stage'[r] = stage[r]
                BY <4>1, <4>2
            <4>4. /\ \A r \in Requests : winner[o] = {r} => r # q
                  /\ \A r \in Requests : Verdict(r)' = Verdict(r)
                BY <2>1, <4>1 DEF Verdict
            <4> QED BY <4>1, <4>2, <4>3, <4>4 DEF Story, Decided
        <3> QED BY <3>1, <3>2
    <2> QED BY <2>6, <2>7 DEF Trails
<1> QED BY <1>1, <1>2, <1>3, <1>4, <1>5 DEF ApprovalsNext

\* The trail of a proposal is the proposal and then its one decision, which only
\* a call that is still to record it, or was lost, owes: TrailTellsTheStory for
\* any proposals and calls, wherever they are lost.
THEOREM TrailIsTold == ApprovalsSpec => []TrailTellsTheStory
<1>1. ApprovalsInit => Trails
    BY DEF ApprovalsInit, Trails, Carries, Story, Stories, Decided
<1>2. ASSUME IInv, Trails PROVE TrailTellsTheStory
    <2> SUFFICES ASSUME NEW p \in Proposals
                 PROVE  /\ trail[p] \in Stories
                        /\ trail[p] = <<"pending", "approved">> => Executed(p)
                        /\ trail[p] = <<"pending", "denied">> => Decided(p) /\ ~Executed(p)
                        /\ Decided(p) /\ trail[p] = <<"pending">> =>
                               \E q \in winner[p] : stage[q] \in {"auditing", "lost"}
        BY DEF TrailTellsTheStory, Stories
    <2>1. Story(p) /\ Recorded(p)
        BY <1>2 DEF Trails, IInv
    <2>2. ASSUME NEW v \in {"approved", "denied"}, trail[p] = <<"pending", v>>
          PROVE  Decided(p) /\ (Executed(p) <=> v = "approved")
        <3>1. PICK q \in Requests : winner[p] = {q} /\ Verdict(q) = v
            BY <2>1, <2>2 DEF Story
        <3>2. Decided(p)
            BY <2>1, <3>1 DEF Recorded
        <3>3. Executed(p) <=> form[q].confirm
            BY <2>1, <3>1, <3>2 DEF Recorded, WonBy
        <3> QED BY <3>1, <3>2, <3>3 DEF Verdict
    <2> QED BY <2>1, <2>2 DEF Story
<1> QED BY <1>1, <1>2, TrailStep, InvHolds, PTL DEF ApprovalsSpec

=============================================================================
