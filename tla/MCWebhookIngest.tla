-------------------------- MODULE MCWebhookIngest --------------------------
(* Two deduped notices and one that is not, alone or together in a callback. *)
EXTENDS WebhookIngest, TLC

CONSTANTS first, second, status, k1, k2, none

AllNotices == {first, second, status}
OwnKeys    == first :> k1 @@ second :> k2 @@ status :> none

Mixed   == {<<first>>, <<status, second, first>>}
Singles == {<<first>>, <<second>>}

RequestSymmetry == Permutations(Requests)
=============================================================================
