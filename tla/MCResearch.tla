----------------------------- MODULE MCResearch -----------------------------
(***************************************************************************)
(* ResearchGraph on small instances.  The proportions of the program are    *)
(* kept: 1 + max_children < max_model_calls < 1 + 2 * max_children, as in   *)
(* 1 + 4 < 8 < 9, and the workers' window is shorter than the run's.        *)
(***************************************************************************)
EXTENDS ResearchGraph

\* Nothing is left to do once every run has ended for the last time; any other
\* state without a step is a deadlock.
Finished == \A r \in Runs : pc[r] \in Ended /\ sends[r] = MaxSends
Rest == Finished /\ UNCHANGED vars
MCNext == Next \/ Rest
MCSpec == Init /\ [][MCNext]_vars
MCFairSpec == MCSpec /\ Fairness
=============================================================================
