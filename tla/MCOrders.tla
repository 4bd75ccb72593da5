------------------------------ MODULE MCOrders ------------------------------
(* Small shops for the Orders module. *)
EXTENDS Orders, TLC

CONSTANTS shirt, cap

\* A buyer of one unit and a buyer who takes them all.
OneProductSupply == shirt :> 2
OneProductCarts  == {shirt :> 1, shirt :> 2}

\* A two-line order, whose restock can stop half way, and one for more than there is.
TwoProductSupply == shirt :> 1 @@ cap :> 3
TwoProductCarts  == {shirt :> 1 @@ cap :> 2, shirt :> 2 @@ cap :> 0}

CallSymmetry == Permutations(Calls)
=============================================================================
