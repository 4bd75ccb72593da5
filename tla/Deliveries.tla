----------------------------- MODULE Deliveries -----------------------------
(***************************************************************************)
(* The delivery of one order: DeliveriesService of                         *)
(* apps/backend/src/services/deliveries.service.ts (quote and book) and    *)
(* DeliveryService of modules/deliveries/services/delivery.service.ts (the *)
(* tracking webhooks, and the desk's create, update, remove and cancel).   *)
(*                                                                         *)
(* deliveries.orderId is unique, so the order has at most one row at a     *)
(* time, and a row that was removed may be followed by another.  Handlers  *)
(* read the row, decide, and write it by id; book() calls the carrier      *)
(* between its read and its writes.  A tracking update commits the row     *)
(* and moves the order afterwards.  The webhook routes are public and      *)
(* verify nothing: whoever knows the row's tracking code may report any    *)
(* status, at any time and again.                                          *)
(***************************************************************************)
EXTENDS Naturals, FiniteSets, OrderMachine

CONSTANTS
  DeliveryIds,   \* deliveries rows a behaviour may insert
  Carriers,      \* configured logistics providers
  DeliveryCalls, \* calls of the service that may overlap
  NoDelivery,    \* no row, no carrier and no parcel
  MaxPicks       \* bound: times a carrier is chosen

Parcels == [carrier : Carriers, ref : DeliveryIds]

ASSUME DeliveryAssumption ==
  /\ MaxPicks \in Nat
  /\ NoDelivery \notin DeliveryIds \cup Carriers \cup Parcels

VARIABLES
  shipped,  \* status of the order
  delivery, \* the order's deliveries row, or NoDelivery
  used,     \* ids of rows inserted so far
  booked,   \* parcels a carrier accepted a booking for
  tracked,  \* history: PICKED_UP and DELIVERED, if the row took them for a parcel in booked
  picks,    \* history: times the row was given a carrier
  desk,     \* history: SHIPPED and DELIVERED, if the order desk set them itself
  courier   \* each call in flight

deliveryVars == <<shipped, delivery, used, booked, tracked, picks, desk, courier>>

DeliveryStatuses == {"QUOTED", "BOOKED", "PICKED_UP", "IN_TRANSIT", "DELIVERED",
                     "FAILED", "CANCELLED"}
Row(id, carrier) == [id |-> id, status |-> "QUOTED", carrier |-> carrier,
                     tracking |-> NoDelivery]
Courier(step, id, arg) == [step |-> step, id |-> id, arg |-> arg]
NoCourier == Courier("idle", NoDelivery, NoDelivery)

DeliveryInit ==
  /\ shipped = "PENDING_PAYMENT"
  /\ delivery = NoDelivery
  /\ used = {}
  /\ booked = {}
  /\ tracked = {}
  /\ picks = 0
  /\ desk = {}
  /\ courier = [c \in DeliveryCalls |-> NoCourier]

HasDelivery == delivery # NoDelivery
Serve(c, frame) == courier' = [courier EXCEPT ![c] = frame]
Doing(c, step) == courier[c].step = step
Idling(c) == Doing(c, "idle")
\* The row the call read is still there.
Owns(c) == HasDelivery /\ delivery.id = courier[c].id

Pick ==
  /\ picks < MaxPicks
  /\ picks' = picks + 1

-----------------------------------------------------------------------------
\* The order desk moves the order along its own machine, or records a cancellation.
DeskMoves(to) ==
  /\ \/ to \in ORDER_TRANSITIONS[shipped]
     \/ to = "CANCELLED" /\ shipped \in {"PAID", "PROCESSING"}
  /\ shipped' = to
  /\ desk' = desk \cup ({to} \cap {"SHIPPED", "DELIVERED"})
  /\ UNCHANGED <<delivery, used, booked, tracked, picks, courier>>

Insert(id, carrier) ==
  /\ id \notin used
  /\ used' = used \cup {id}
  /\ delivery' = Row(id, carrier)

\* The unique orderId decides between two calls that both found no row.
create(id, carrier) ==
  /\ ~HasDelivery
  /\ Pick
  /\ Insert(id, carrier)
  /\ UNCHANGED <<shipped, booked, tracked, desk, courier>>

\* The upsert takes the cheapest carrier and starts over, whatever the row's status.
quote(id, carrier) ==
  /\ Pick
  /\ IF HasDelivery
     THEN /\ delivery' = [delivery EXCEPT !.status = "QUOTED", !.carrier = carrier]
          /\ UNCHANGED used
     ELSE Insert(id, carrier)
  /\ UNCHANGED <<shipped, booked, tracked, desk, courier>>

Begin(c, step, statuses) ==
  /\ Idling(c)
  /\ HasDelivery /\ delivery.status \in statuses
  /\ Serve(c, Courier(step, delivery.id, NoDelivery))
  /\ UNCHANGED <<shipped, delivery, used, booked, tracked, picks, desk>>

update(c) == Begin(c, "change", {"QUOTED"})
remove(c) == Begin(c, "delete", {"QUOTED", "CANCELLED", "FAILED"})
cancel(c) == Begin(c, "cancel", DeliveryStatuses \ {"DELIVERED", "CANCELLED"})

ChangeCarrier(c, carrier) ==
  /\ Doing(c, "change")
  /\ Owns(c)
  /\ Pick
  /\ delivery' = [delivery EXCEPT !.carrier = carrier]
  /\ Serve(c, NoCourier)
  /\ UNCHANGED <<shipped, used, booked, tracked, desk>>

DeleteDelivery(c) ==
  /\ Doing(c, "delete")
  /\ Owns(c)
  /\ delivery' = NoDelivery
  /\ Serve(c, NoCourier)
  /\ UNCHANGED <<shipped, used, booked, tracked, picks, desk>>

CancelDelivery(c) ==
  /\ Doing(c, "cancel")
  /\ Owns(c)
  /\ delivery' = [delivery EXCEPT !.status = "CANCELLED"]
  /\ Serve(c, NoCourier)
  /\ UNCHANGED <<shipped, used, booked, tracked, picks, desk>>

-----------------------------------------------------------------------------
(* Booking.                                                                *)

\* A BOOKED row with a tracking code is the answer already.
book(c) ==
  /\ Idling(c)
  /\ HasDelivery
  /\ \/ delivery.status = "QUOTED"
     \/ delivery.status = "BOOKED" /\ delivery.tracking = NoDelivery
  /\ Serve(c, Courier("carrier", delivery.id, delivery.carrier))
  /\ UNCHANGED <<shipped, delivery, used, booked, tracked, picks, desk>>

\* psp.book(): "bookings are idempotent by clientRef".
AskCarrier(c) ==
  /\ Doing(c, "carrier")
  /\ LET p == [carrier |-> courier[c].arg, ref |-> courier[c].id] IN
       /\ booked' = booked \cup {p}
       /\ Serve(c, Courier("booked", courier[c].id, p))
  /\ UNCHANGED <<shipped, delivery, used, tracked, picks, desk>>

CommitById(c) ==                                               \* mutant
  /\ Doing(c, "booked")
  /\ Owns(c)
  /\ delivery' = [delivery EXCEPT !.status = "BOOKED", !.tracking = courier[c].arg]
  /\ shipped' = "PROCESSING"
  /\ Serve(c, NoCourier)
  /\ UNCHANGED <<used, booked, tracked, picks, desk>>
CommitBooking(c) ==
  /\ Doing(c, "booked")
  /\ Owns(c)
  /\ delivery' = [delivery EXCEPT !.status = "BOOKED", !.tracking = courier[c].arg]
  /\ shipped' = IF shipped = "PAID" THEN "PROCESSING" ELSE shipped
  /\ Serve(c, NoCourier)
  /\ UNCHANGED <<used, booked, tracked, picks, desk>>

-----------------------------------------------------------------------------
(* Tracking updates.                                                       *)

\* What the routes make of a body; a status they do not know is IN_TRANSIT.
Reported == DeliveryStatuses \ {"QUOTED"}

\* Finds the row by its tracking code.  The poster picks the route, and with it the carrier
\* the row is compared with.
handleTrackingUpdate(c, s) ==
  /\ Idling(c)
  /\ HasDelivery /\ delivery.tracking # NoDelivery
  /\ Serve(c, Courier("track", delivery.id, s))
  /\ UNCHANGED <<shipped, delivery, used, booked, tracked, picks, desk>>

TrackDelivery(c) ==
  /\ Doing(c, "track")
  /\ Owns(c)
  /\ delivery' = [delivery EXCEPT !.status = courier[c].arg]
  /\ IF courier[c].arg \in {"PICKED_UP", "DELIVERED"}
     THEN /\ tracked' = IF delivery.tracking \in booked
                        THEN tracked \cup {courier[c].arg} ELSE tracked
          /\ Serve(c, Courier("order", courier[c].id, courier[c].arg))
     ELSE UNCHANGED tracked /\ Serve(c, NoCourier)
  /\ UNCHANGED <<shipped, used, booked, picks, desk>>

PickedIsDelivered(s) == IF shipped \in {"PROCESSING", "SHIPPED"}
                        THEN "DELIVERED" ELSE shipped          \* mutant
Moved(s) ==
  IF s = "PICKED_UP" /\ shipped = "PROCESSING" THEN "SHIPPED"
  ELSE IF s = "DELIVERED" /\ shipped \in {"SHIPPED", "PROCESSING"} THEN "DELIVERED"
  ELSE shipped

MoveOrder(c) ==
  /\ Doing(c, "order")
  /\ shipped' = Moved(courier[c].arg)
  /\ Serve(c, NoCourier)
  /\ UNCHANGED <<delivery, used, booked, tracked, picks, desk>>

\* The process dies or a statement fails: the row is gone, or the five seconds of an
\* interactive transaction are over.  What was committed stays.
CourierFails(c) ==
  /\ ~Idling(c)
  /\ Serve(c, NoCourier)
  /\ UNCHANGED <<shipped, delivery, used, booked, tracked, picks, desk>>

-----------------------------------------------------------------------------
CourierStep(c) ==
  \/ update(c) \/ remove(c) \/ cancel(c) \/ book(c)
  \/ DeleteDelivery(c) \/ CancelDelivery(c) \/ AskCarrier(c) \/ CommitBooking(c)
  \/ TrackDelivery(c) \/ MoveOrder(c) \/ CourierFails(c)
  \/ \E carrier \in Carriers : ChangeCarrier(c, carrier)
  \/ \E s \in Reported : handleTrackingUpdate(c, s)

DeliveryNext ==
  \/ \E to \in Statuses : DeskMoves(to)
  \/ \E id \in DeliveryIds, carrier \in Carriers : create(id, carrier) \/ quote(id, carrier)
  \/ \E c \in DeliveryCalls : CourierStep(c)

DeliverySpec == DeliveryInit /\ [][DeliveryNext]_deliveryVars

-----------------------------------------------------------------------------
(* Properties.                                                             *)

Couriers ==
       {NoCourier}
  \cup [step : {"change", "delete", "cancel"}, id : DeliveryIds, arg : {NoDelivery}]
  \cup [step : {"carrier"}, id : DeliveryIds, arg : Carriers]
  \cup [step : {"booked"}, id : DeliveryIds, arg : Parcels]
  \cup [step : {"track", "order"}, id : DeliveryIds, arg : DeliveryStatuses]

\* Rows, bookings and frames have the shapes the service gives them.
DeliveryTypeOK ==
  /\ shipped \in Statuses
  /\ delivery \in {NoDelivery}
       \cup [id : DeliveryIds, status : DeliveryStatuses, carrier : Carriers,
             tracking : Parcels \cup {NoDelivery}]
  /\ used \subseteq DeliveryIds
  /\ booked \subseteq Parcels
  /\ tracked \subseteq {"PICKED_UP", "DELIVERED"}
  /\ picks \in Nat
  /\ desk \subseteq {"SHIPPED", "DELIVERED"}
  /\ courier \in [DeliveryCalls -> Couriers]

\* However bookings and tracking updates are repeated, delayed and reordered, the order
\* only moves forward in its machine: none comes back from CANCELLED, REFUNDED or DELIVERED.
CarrierMovesForward == [][shipped' # shipped =>
  shipped' \in Reachable[shipped] \cup {"CANCELLED"} /\ Reachable[shipped] # {}]_deliveryVars

\* An order the desk did not mark SHIPPED or DELIVERED itself is so only when its row took
\* PICKED_UP, or DELIVERED, for a parcel that a carrier accepted: across calls that overlap,
\* rows that are booked again and calls cut between the row and the order.
OrderFollowsRow ==
  \A pair \in {<<"SHIPPED", "PICKED_UP">>, <<"DELIVERED", "DELIVERED">>} :
    shipped = pair[1] /\ pair[1] \notin desk => pair[2] \in tracked
=============================================================================
