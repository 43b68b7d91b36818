----------------------------- MODULE MCApprovals -----------------------------
(***************************************************************************)
(* Approvals on small instances.  A request that was answered takes no      *)
(* further step, so the system may stop.                                    *)
(***************************************************************************)
EXTENDS Approvals, TLC

\* Calls are interchangeable: their forms are chosen alike.
Alike == Permutations(Requests)
=============================================================================
