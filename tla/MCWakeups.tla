----------------------------- MODULE MCWakeups -----------------------------
(* Small instances of Wakeups for TLC.                                     *)
EXTENDS Wakeups

CONSTANTS s1, s2, c1

OneCard == [s \in Searches |-> 1]
TwoCards == [s \in Searches |-> 2]

(* One call opens each search.                                             *)
OneCallEach == [c \in Calls |-> IF c = c1 THEN s1 ELSE s2]

(* Every call carries the same key: one opens the search, others repeat it. *)
SameKey == [c \in Calls |-> s1]

NoDamage == {}
OneDamaged == {<<s1, 0>>}

=============================================================================
