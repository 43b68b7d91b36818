-------------------------------- MODULE MCApi --------------------------------
(***************************************************************************)
(* The stores and the graph that the API's handlers race over, on small     *)
(* instances: posts to one conversation, decisions on one proposal, sends   *)
(* of one request.  The parts share no state, so that a behaviour is of one *)
(* part at a time: the others keep their initial state.                     *)
(***************************************************************************)
EXTENDS Chat, Approvals, DirectGraph, TLC

VARIABLE part  \* the part that runs

apiVars == <<chatVars, approvalVars, vars, part>>

\* Posts are interchangeable, and so are calls, whose forms are chosen alike;
\* they bear the same names, so that one permutation is of both.
Alike == Permutations(Requests)

ApiInit ==
    /\ part \in {"chat", "approvals", "direct"}
    /\ ChatInit /\ ApprovalsInit /\ Init
    /\ part # "approvals" => form = [q \in Requests |-> CHOOSE f \in Forms : TRUE]

ApiNext ==
    /\ UNCHANGED part
    /\ \/ part = "chat" /\ ChatNext /\ UNCHANGED <<approvalVars, vars>>
       \/ part = "approvals" /\ ApprovalsNext /\ UNCHANGED <<chatVars, vars>>
       \/ part = "direct" /\ Next /\ UNCHANGED <<chatVars, approvalVars>>

ApiSpec == ApiInit /\ [][ApiNext]_apiVars
=============================================================================
