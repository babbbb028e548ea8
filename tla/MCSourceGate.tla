---------------------------- MODULE MCSourceGate ----------------------------
(* Small instances of SourceGate for TLC.                                  *)
EXTENDS SourceGate, TLC

CONSTANTS c1

(* c1 moves a session forward, which is never retried; the others fetch.   *)
OneSession == [c \in Calls |-> IF c = c1 THEN 1 ELSE 2]

Fetchers == Permutations(Calls \ {c1})

=============================================================================
