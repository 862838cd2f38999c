------------------------- MODULE MCIntentLifecycle -------------------------
(* Finite instances of IntentLifecycle. *)
EXTENDS IntentRefinement, TLC

CONSTANTS i1, i2, r1, r2, r3, r4, p

OneTarget  == [r \in Request |-> i1]
OnePayload == [i \in Intent |-> p]

RequestSymmetry == Permutations(Request)
=============================================================================
