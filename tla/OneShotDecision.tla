--------------------------- MODULE OneShotDecision ---------------------------
(***************************************************************************)
(* What an approval store promises: of all the requests that decide on a    *)
(* proposal at most one wins, its verdict stands for good, and no other     *)
(* request is ever told a verdict.  A caller may lose its answer.           *)
(***************************************************************************)
CONSTANTS Proposals, Requests

VARIABLES
    decision,  \* the verdict on a proposal, "open" before there is one
    winner,    \* the request that decided it: a set of at most one
    told       \* what a request was answered

Verdicts == {"approved", "denied"}

Init ==
    /\ decision = [p \in Proposals |-> "open"]
    /\ winner = [p \in Proposals |-> {}]
    /\ told = [q \in Requests |-> "nothing"]

Wins(q, p) == winner[p] = {q}

Decide(q, p) ==
    /\ told[q] = "nothing"
    /\ \A o \in Proposals : ~Wins(q, o)
    /\ decision[p] = "open"
    /\ \E v \in Verdicts : decision' = [decision EXCEPT ![p] = v]
    /\ winner' = [winner EXCEPT ![p] = {q}]
    /\ UNCHANGED told

Tell(q, p) ==
    /\ told[q] = "nothing"
    /\ Wins(q, p)
    /\ told' = [told EXCEPT ![q] = decision[p]]
    /\ UNCHANGED <<decision, winner>>

Refuse(q) ==
    /\ told[q] = "nothing"
    /\ \A p \in Proposals : ~Wins(q, p)
    /\ told' = [told EXCEPT ![q] = "refused"]
    /\ UNCHANGED <<decision, winner>>

Lose(q) ==
    /\ told[q] = "nothing"
    /\ told' = [told EXCEPT ![q] = "lost"]
    /\ UNCHANGED <<decision, winner>>

Next == \E q \in Requests :
    \/ Refuse(q)
    \/ Lose(q)
    \/ \E p \in Proposals : Decide(q, p) \/ Tell(q, p)

Spec == Init /\ [][Next]_<<decision, winner, told>>
=============================================================================
