---------------------------- MODULE MCApiServer -----------------------------
(* Finite instances of ApiServer. *)
EXTENDS ApiServer

CONSTANTS c1, c2
=============================================================================
