--------------------------- MODULE MCSearchStore ---------------------------
(* Small instances of SearchStore for TLC.                                 *)
EXTENDS SearchStore, TLC

CONSTANTS s1, s2, short, long

MCCards == [p \in Payloads |-> IF p = short THEN 1 ELSE 2]
NoDamage == {}
OneDamaged == {<<s1, 0>>}

WorkerSymmetry == Permutations(Turns) \union Permutations(Owners)

=============================================================================
