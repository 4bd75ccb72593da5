----------------------------- MODULE MCPayments -----------------------------
(* A one-shirt shop taking payments. *)
EXTENDS Payments, TLC

CONSTANT shirt

OneShirt == shirt :> 1
OneCart  == {shirt :> 1}

JobSymmetry == Permutations(Jobs)
=============================================================================
