------------------------------ MODULE MCOrders ------------------------------
(* Small instances of Orders for TLC.                                      *)
EXTENDS Orders, TLC

(* Nothing tells two ids, numbers, carts or processes of a kind apart.     *)
Interchangeable ==
    Permutations(OrderIds) \union Permutations(Numbers) \union Permutations(Carts)
        \union Permutations(Calls) \union Permutations(Hooks) \union Permutations(Reports)

=============================================================================
