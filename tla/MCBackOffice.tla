---------------------------- MODULE MCBackOffice ----------------------------
(***************************************************************************)
(* The services behind the desk, each on a small instance.  A behaviour    *)
(* follows one service; what others write of its tables is an action of    *)
(* its module (DeskMoves, CancelSale, Reconciles, OtherOrder).             *)
(***************************************************************************)
EXTENDS Sessions, Deliveries, Refunds, Idempotency, Responder, Campaigns, Outbound,
        OrderItems, Subscriptions, TLC

VARIABLE service  \* the service a behaviour follows

Services == {"sessions", "deliveries", "refunds", "idempotency", "responder", "campaigns",
             "outbound", "items", "subscriptions"}

backOfficeVars ==
  <<service, sessionVars, deliveryVars, refundVars, idempotencyVars, responderVars,
    campaignVars, outboundVars, itemVars, subscriptionVars>>

BackOfficeInit ==
  /\ service \in Services
  /\ SessionInit /\ DeliveryInit /\ RefundInit /\ IdempotencyInit /\ ResponderInit
  /\ CampaignInit /\ OutboundInit /\ ItemInit /\ SubscriptionInit
  /\ service # "campaigns" => campaign = "DRAFT"

Untouched(name, variables) == IF service = name THEN TRUE ELSE UNCHANGED variables

BackOfficeNext ==
  /\ \/ service = "sessions" /\ SessionNext
     \/ service = "deliveries" /\ DeliveryNext
     \/ service = "refunds" /\ RefundNext
     \/ service = "idempotency" /\ IdempotencyNext
     \/ service = "responder" /\ ResponderNext
     \/ service = "campaigns" /\ CampaignNext
     \/ service = "outbound" /\ OutboundNext
     \/ service = "items" /\ ItemNext
     \/ service = "subscriptions" /\ SubscriptionNext
  /\ Untouched("sessions", sessionVars)
  /\ Untouched("deliveries", deliveryVars)
  /\ Untouched("refunds", refundVars)
  /\ Untouched("idempotency", idempotencyVars)
  /\ Untouched("responder", responderVars)
  /\ Untouched("campaigns", campaignVars)
  /\ Untouched("outbound", outboundVars)
  /\ Untouched("items", itemVars)
  /\ Untouched("subscriptions", subscriptionVars)
  /\ UNCHANGED service

BackOfficeSpec == BackOfficeInit /\ [][BackOfficeNext]_backOfficeVars

\* Type correctness of every service (see the TypeOK of each module).
BackOfficeTypeOK ==
  /\ SessionTypeOK /\ DeliveryTypeOK /\ RefundTypeOK /\ IdempotencyTypeOK /\ ResponderTypeOK
  /\ CampaignTypeOK /\ OutboundTypeOK /\ ItemTypeOK /\ SubscriptionTypeOK

\* The two calls of a service are interchangeable, and so are its two rows, two carriers or
\* the first two of its three tokens or requests: a cfg names them alike.
BackOfficeSymmetry == Permutations(DeliveryCalls) \cup Permutations(RefundIds)
=============================================================================
