------------------------------- MODULE MCChat -------------------------------
(***************************************************************************)
(* Chat on small instances; 12 and 8 of the program shrink to 3 and 2, so   *)
(* that two requests already write more messages than are kept verbatim.    *)
(***************************************************************************)
EXTENDS Chat, TLC

Alike == Permutations(Posts)
=============================================================================
