------------------------------ MODULE MCDirect ------------------------------
(***************************************************************************)
(* DirectGraph on small instances: one document, two directory records of   *)
(* which one may be looked up, an id that no source has.                    *)
(***************************************************************************)
EXTENDS DirectGraph
=============================================================================
