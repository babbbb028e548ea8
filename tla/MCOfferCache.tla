---------------------------- MODULE MCOfferCache ----------------------------
(***************************************************************************)
(* Two requests at a time, on one process as under the local server or on  *)
(* two as under Cloud Run; one list, and one question that asks it.        *)
(***************************************************************************)
EXTENDS OfferCache, TLC

CONSTANTS j1, j2, i1, i2, l1, q1, x

MCListOf == [q \in Questions |-> l1]
MCWanted == [q \in Questions |-> {x}]
MCSymmetry == Permutations(Jobs) \union Permutations(Instances)

=============================================================================
