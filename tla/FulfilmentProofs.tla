-------------------------- MODULE FulfilmentProofs --------------------------
(***************************************************************************)
(* Proofs about what follows an order: deliveries, refunds, line items and *)
(* subscriptions, for any number of rows and calls; and, with AccessProofs *)
(* and WhatsAppProofs, the types of every service of the back office.      *)
(***************************************************************************)
EXTENDS MCBackOffice, AccessProofs, WhatsAppProofs, SumFacts, SequenceTheorems

-----------------------------------------------------------------------------
(* Deliveries.                                                             *)

LEMMA FramesTyped ==
  ASSUME NEW id \in DeliveryIds
  PROVE  /\ NoCourier \in Couriers
         /\ \A step \in {"change", "delete", "cancel"} : Courier(step, id, NoDelivery) \in Couriers
         /\ \A carrier \in Carriers : Courier("carrier", id, carrier) \in Couriers
         /\ \A p \in Parcels : Courier("booked", id, p) \in Couriers
         /\ \A s \in DeliveryStatuses : /\ Courier("track", id, s) \in Couriers
                                        /\ Courier("order", id, s) \in Couriers
BY DEF Couriers, Courier

LEMMA IdleTyped == NoCourier \in Couriers
BY DEF Couriers

LEMMA ServeTyped ==
  ASSUME DeliveryTypeOK, NEW c \in DeliveryCalls, NEW frame \in Couriers, Serve(c, frame)
  PROVE  courier' \in [DeliveryCalls -> Couriers]
BY DEF DeliveryTypeOK, Serve

LEMMA RowTyped ==
  ASSUME DeliveryTypeOK, HasDelivery
  PROVE  delivery \in [id : DeliveryIds, status : DeliveryStatuses, carrier : Carriers,
                       tracking : Parcels \cup {NoDelivery}]
BY DEF DeliveryTypeOK, HasDelivery

\* What a call holds at each step.
LEMMA DeliveryFrameShape ==
  ASSUME DeliveryTypeOK, NEW c \in DeliveryCalls
  PROVE  /\ ~Idling(c) => courier[c].id \in DeliveryIds
         /\ Doing(c, "carrier") => courier[c].arg \in Carriers
         /\ Doing(c, "booked") => courier[c].arg \in Parcels
         /\ Doing(c, "track") \/ Doing(c, "order") => courier[c].arg \in DeliveryStatuses
<1>1. courier[c] \in Couriers
  BY DEF DeliveryTypeOK
<1>2. QED
  BY <1>1 DEF Couriers, NoCourier, Courier, Doing, Idling

LEMMA DeliveryTypeStep ==
  ASSUME DeliveryTypeOK, [DeliveryNext]_deliveryVars
  PROVE  DeliveryTypeOK'
<1> USE DeliveryAssumption
<1>1. CASE UNCHANGED deliveryVars
  BY <1>1 DEF deliveryVars, DeliveryTypeOK
<1>2. ASSUME NEW to \in Statuses, DeskMoves(to)
      PROVE  DeliveryTypeOK'
  BY <1>2 DEF DeskMoves, DeliveryTypeOK
<1>3. ASSUME NEW id \in DeliveryIds, NEW carrier \in Carriers,
             create(id, carrier) \/ quote(id, carrier)
      PROVE  DeliveryTypeOK'
  <2>1. picks' \in Nat
    BY <1>3 DEF create, quote, Pick, DeliveryTypeOK
  <2>2. used' \subseteq DeliveryIds
    BY <1>3 DEF create, quote, Insert, DeliveryTypeOK
  <2>3. delivery' \in [id : DeliveryIds, status : DeliveryStatuses, carrier : Carriers,
                       tracking : Parcels \cup {NoDelivery}]
    <3>1. CASE HasDelivery /\ quote(id, carrier)
      BY <3>1, RowTyped DEF quote, DeliveryStatuses
    <3>2. CASE ~(HasDelivery /\ quote(id, carrier))
      BY <1>3, <3>2 DEF create, quote, Insert, Row, DeliveryStatuses
    <3>3. QED
      BY <3>1, <3>2
  <2>4. QED
    BY <1>3, <2>1, <2>2, <2>3 DEF create, quote, DeliveryTypeOK
<1>4. ASSUME NEW c \in DeliveryCalls, CourierStep(c)
      PROVE  DeliveryTypeOK'
  <2>1. CASE update(c) \/ remove(c) \/ cancel(c)
    <3>1. PICK step \in {"change", "delete", "cancel"} :
            /\ HasDelivery
            /\ Serve(c, Courier(step, delivery.id, NoDelivery))
            /\ UNCHANGED <<shipped, delivery, used, booked, tracked, picks, desk>>
      BY <2>1 DEF update, remove, cancel, Begin
    <3>2. courier' \in [DeliveryCalls -> Couriers]
      BY <3>1, RowTyped, FramesTyped, ServeTyped
    <3>3. QED
      BY <3>1, <3>2 DEF DeliveryTypeOK
  <2>2. CASE book(c)
    <3>1. courier' \in [DeliveryCalls -> Couriers]
      BY <2>2, RowTyped, FramesTyped, ServeTyped DEF book
    <3>2. QED
      BY <2>2, <3>1 DEF book, DeliveryTypeOK
  <2>3. CASE DeleteDelivery(c) \/ CancelDelivery(c) \/ CourierFails(c)
    <3>1. courier' \in [DeliveryCalls -> Couriers]
      BY <2>3, IdleTyped, ServeTyped DEF DeleteDelivery, CancelDelivery, CourierFails
    <3>2. delivery' \in {NoDelivery}
            \cup [id : DeliveryIds, status : DeliveryStatuses, carrier : Carriers,
                  tracking : Parcels \cup {NoDelivery}]
      <4>1. CASE DeleteDelivery(c)
        BY <4>1 DEF DeleteDelivery
      <4>2. CASE CancelDelivery(c)
        BY <4>2, RowTyped DEF CancelDelivery, Owns, DeliveryStatuses
      <4>3. CASE CourierFails(c)
        BY <4>3 DEF CourierFails, DeliveryTypeOK
      <4>4. QED
        BY <2>3, <4>1, <4>2, <4>3
    <3>3. UNCHANGED <<shipped, used, booked, tracked, picks, desk>>
      BY <2>3 DEF DeleteDelivery, CancelDelivery, CourierFails
    <3>4. QED
      BY <3>1, <3>2, <3>3 DEF DeliveryTypeOK
  <2>4. CASE AskCarrier(c)
    <3>1. courier[c].id \in DeliveryIds /\ courier[c].arg \in Carriers
      BY <2>4, DeliveryFrameShape DEF AskCarrier, Doing, Idling
    <3> DEFINE p == [carrier |-> courier[c].arg, ref |-> courier[c].id]
    <3>2. p \in Parcels
      BY <3>1 DEF Parcels
    <3>3. courier' \in [DeliveryCalls -> Couriers]
      BY <2>4, <3>1, <3>2, FramesTyped, ServeTyped DEF AskCarrier
    <3>4. booked' \subseteq Parcels
      BY <2>4, <3>2 DEF AskCarrier, DeliveryTypeOK
    <3>5. QED
      BY <2>4, <3>3, <3>4 DEF AskCarrier, DeliveryTypeOK
  <2>5. CASE CommitBooking(c)
    <3>1. courier' \in [DeliveryCalls -> Couriers]
      BY <2>5, IdleTyped, ServeTyped DEF CommitBooking
    <3>2. courier[c].arg \in Parcels
      BY <2>5, DeliveryFrameShape DEF CommitBooking
    <3>3. delivery' \in [id : DeliveryIds, status : DeliveryStatuses, carrier : Carriers,
                         tracking : Parcels \cup {NoDelivery}]
      BY <2>5, <3>2, RowTyped DEF CommitBooking, Owns, DeliveryStatuses
    <3>4. shipped' \in Statuses
      BY <2>5 DEF CommitBooking, DeliveryTypeOK, Statuses
    <3>5. QED
      BY <2>5, <3>1, <3>3, <3>4 DEF CommitBooking, DeliveryTypeOK
  <2>6. CASE TrackDelivery(c)
    <3>1. courier[c].id \in DeliveryIds /\ courier[c].arg \in DeliveryStatuses
      BY <2>6, DeliveryFrameShape DEF TrackDelivery, Doing, Idling
    <3>2. courier' \in [DeliveryCalls -> Couriers]
      BY <2>6, <3>1, IdleTyped, FramesTyped, ServeTyped DEF TrackDelivery
    <3>3. delivery' \in [id : DeliveryIds, status : DeliveryStatuses, carrier : Carriers,
                         tracking : Parcels \cup {NoDelivery}]
      BY <2>6, <3>1, RowTyped DEF TrackDelivery, Owns
    <3>4. tracked' \subseteq {"PICKED_UP", "DELIVERED"}
      BY <2>6 DEF TrackDelivery, DeliveryTypeOK
    <3>5. QED
      BY <2>6, <3>2, <3>3, <3>4 DEF TrackDelivery, DeliveryTypeOK
  <2>7. CASE MoveOrder(c)
    <3>1. courier' \in [DeliveryCalls -> Couriers]
      BY <2>7, IdleTyped, ServeTyped DEF MoveOrder
    <3>2. shipped' \in Statuses
      BY <2>7 DEF MoveOrder, Moved, DeliveryTypeOK, Statuses
    <3>3. QED
      BY <2>7, <3>1, <3>2 DEF MoveOrder, DeliveryTypeOK
  <2>8. ASSUME NEW carrier \in Carriers, ChangeCarrier(c, carrier)
        PROVE  DeliveryTypeOK'
    <3>1. courier' \in [DeliveryCalls -> Couriers]
      BY <2>8, IdleTyped, ServeTyped DEF ChangeCarrier
    <3>2. delivery' \in [id : DeliveryIds, status : DeliveryStatuses, carrier : Carriers,
                         tracking : Parcels \cup {NoDelivery}]
      BY <2>8, RowTyped DEF ChangeCarrier, Owns
    <3>3. picks' \in Nat
      BY <2>8 DEF ChangeCarrier, Pick, DeliveryTypeOK
    <3>4. QED
      BY <2>8, <3>1, <3>2, <3>3 DEF ChangeCarrier, DeliveryTypeOK
  <2>9. ASSUME NEW s \in DeliveryStatuses, handleTrackingUpdate(c, s)
        PROVE  DeliveryTypeOK'
    <3>1. courier' \in [DeliveryCalls -> Couriers]
      BY <2>9, RowTyped, FramesTyped, ServeTyped DEF handleTrackingUpdate
    <3>2. QED
      BY <2>9, <3>1 DEF handleTrackingUpdate, DeliveryTypeOK
  <2>10. QED
    BY <1>4, <2>1, <2>2, <2>3, <2>4, <2>5, <2>6, <2>7, <2>8, <2>9 DEF CourierStep, Reported
<1>5. QED
  BY <1>1, <1>2, <1>3, <1>4 DEF DeliveryNext

LEMMA DeliveryTypeInit == DeliveryInit => DeliveryTypeOK
BY IdleTyped DEF DeliveryInit, DeliveryTypeOK, Statuses

\* The row, the bookings and the calls keep their types.
THEOREM DeliveryTypeCorrect == DeliverySpec => []DeliveryTypeOK
BY DeliveryTypeInit, DeliveryTypeStep, PTL DEF DeliverySpec
-----------------------------------------------------------------------------
(* The order: what a booking or a tracking update makes of it.             *)

LEMMA DeskMovesForward ==
  ASSUME NEW from \in Statuses, NEW to \in ORDER_TRANSITIONS[from]
  PROVE  to \in Reachable[from]
BY DEF ORDER_TRANSITIONS, Reachable, Statuses

LEMMA LiveStatuses ==
  ASSUME NEW s \in {"PENDING_PAYMENT", "PAID", "PROCESSING", "SHIPPED"}
  PROVE  Reachable[s] # {}
BY DEF Reachable, Statuses

LEMMA ForwardStep ==
  ASSUME DeliveryTypeOK, [DeliveryNext]_deliveryVars, shipped' # shipped
  PROVE  shipped' \in Reachable[shipped] \cup {"CANCELLED"} /\ Reachable[shipped] # {}
<1>1. ASSUME NEW to \in Statuses, DeskMoves(to)
      PROVE  shipped' \in Reachable[shipped] \cup {"CANCELLED"} /\ Reachable[shipped] # {}
  <2>1. CASE to \in ORDER_TRANSITIONS[shipped]
    <3>1. to \in Reachable[shipped]
      BY <2>1, DeskMovesForward DEF DeliveryTypeOK
    <3>2. QED
      BY <1>1, <3>1 DEF DeskMoves
  <2>2. CASE to = "CANCELLED" /\ shipped \in {"PAID", "PROCESSING"}
    BY <1>1, <2>2, LiveStatuses DEF DeskMoves
  <2>3. QED
    BY <1>1, <2>1, <2>2 DEF DeskMoves
<1>2. ASSUME NEW c \in DeliveryCalls, CommitBooking(c)
      PROVE  shipped' \in Reachable[shipped] \cup {"CANCELLED"} /\ Reachable[shipped] # {}
  <2>1. shipped = "PAID" /\ shipped' = "PROCESSING"
    BY <1>2 DEF CommitBooking
  <2>2. QED
    BY <2>1 DEF Reachable
<1>3. ASSUME NEW c \in DeliveryCalls, MoveOrder(c)
      PROVE  shipped' \in Reachable[shipped] \cup {"CANCELLED"} /\ Reachable[shipped] # {}
  <2>1. \/ shipped = "PROCESSING" /\ shipped' \in {"SHIPPED", "DELIVERED"}
        \/ shipped = "SHIPPED" /\ shipped' = "DELIVERED"
    BY <1>3 DEF MoveOrder, Moved
  <2>2. QED
    BY <2>1 DEF Reachable
<1>4. \/ \E to \in Statuses : DeskMoves(to)
      \/ \E c \in DeliveryCalls : CommitBooking(c) \/ MoveOrder(c)
  BY DEF DeliveryNext, CourierStep, deliveryVars, create, quote, update, remove, cancel,
         Begin, book, DeleteDelivery, CancelDelivery, AskCarrier, TrackDelivery,
         CourierFails, ChangeCarrier, handleTrackingUpdate
<1>5. QED
  BY <1>1, <1>2, <1>3, <1>4

\* However bookings and updates interleave, the order only moves forward and never leaves a
\* final status.
THEOREM CarrierForwardCorrect == DeliverySpec => CarrierMovesForward
<1>1. DeliveryTypeOK /\ [DeliveryNext]_deliveryVars =>
        [shipped' # shipped =>
           shipped' \in Reachable[shipped] \cup {"CANCELLED"}
             /\ Reachable[shipped] # {}]_deliveryVars
  BY ForwardStep
<1>2. QED
  BY <1>1, DeliveryTypeInit, DeliveryTypeStep, PTL DEF DeliverySpec, CarrierMovesForward

-----------------------------------------------------------------------------
(* The row behind the order.  A row that a tracking update found has a     *)
(* parcel that was booked, whatever happens to it until the update is      *)
(* stored: a new row has a new id, and no row loses its tracking code.     *)

Taken  == "PICKED_UP" \in tracked
Handed == "DELIVERED" \in tracked

RowInv ==
  /\ HasDelivery => delivery.id \in used
  /\ HasDelivery /\ delivery.tracking # NoDelivery => delivery.tracking \in booked
  /\ \A c \in DeliveryCalls :
       /\ ~Idling(c) => courier[c].id \in used
       /\ Doing(c, "booked") => courier[c].arg \in booked
       /\ Doing(c, "track") /\ Owns(c) => delivery.tracking # NoDelivery
       /\ Doing(c, "order") => /\ courier[c].arg = "PICKED_UP" => Taken
                               /\ courier[c].arg = "DELIVERED" => Handed

LEMMA BooksGrow ==
  ASSUME [DeliveryNext]_deliveryVars
  PROVE  booked \subseteq booked' /\ tracked \subseteq tracked' /\ used \subseteq used'
BY DEF DeliveryNext, CourierStep, deliveryVars, create, quote, Insert, update, remove, cancel,
       Begin, book, DeleteDelivery, CancelDelivery, AskCarrier, CommitBooking, TrackDelivery,
       MoveOrder, CourierFails, ChangeCarrier, handleTrackingUpdate, DeskMoves

LEMMA TakenStays ==
  ASSUME [DeliveryNext]_deliveryVars
  PROVE  (Taken => Taken') /\ (Handed => Handed')
BY BooksGrow DEF Taken, Handed

\* What a step makes of the row.
RowRemoved == delivery' = NoDelivery
RowAdded == \E id \in DeliveryIds \ used, carrier \in Carriers :
              delivery' = Row(id, carrier) /\ used' = used \cup {id} /\ UNCHANGED courier
RowKept == HasDelivery /\ delivery'.id = delivery.id /\ delivery'.tracking = delivery.tracking
RowBooked == \E c \in DeliveryCalls :
               /\ Doing(c, "booked") /\ HasDelivery
               /\ delivery'.id = delivery.id /\ delivery'.tracking = courier[c].arg

LEMMA RowSteps ==
  ASSUME DeliveryTypeOK, [DeliveryNext]_deliveryVars
  PROVE  RowRemoved \/ RowAdded \/ RowKept \/ RowBooked
<1>1. delivery' = delivery => RowRemoved \/ RowKept
  BY DEF RowRemoved, RowKept, HasDelivery
<1>2. ASSUME NEW id \in DeliveryIds, NEW carrier \in Carriers, create(id, carrier)
      PROVE  RowAdded
  BY <1>2 DEF create, Insert, RowAdded
<1>3. ASSUME NEW id \in DeliveryIds, NEW carrier \in Carriers, quote(id, carrier)
      PROVE  RowAdded \/ RowKept
  <2>1. CASE HasDelivery
    BY <1>3, <2>1, RowTyped DEF quote, RowKept
  <2>2. CASE ~HasDelivery
    BY <1>3, <2>2 DEF quote, Insert, RowAdded
  <2>3. QED
    BY <2>1, <2>2
<1>4. ASSUME NEW c \in DeliveryCalls,
             CancelDelivery(c) \/ TrackDelivery(c) \/ \E k \in Carriers : ChangeCarrier(c, k)
      PROVE  RowKept
  <2>1. HasDelivery
    BY <1>4 DEF CancelDelivery, TrackDelivery, ChangeCarrier, Owns
  <2>2. \/ \E s : delivery' = [delivery EXCEPT !.status = s]
        \/ \E k : delivery' = [delivery EXCEPT !.carrier = k]
    <3>1. CASE CancelDelivery(c)
      BY <3>1 DEF CancelDelivery
    <3>2. CASE TrackDelivery(c)
      BY <3>2 DEF TrackDelivery
    <3>3. CASE \E k \in Carriers : ChangeCarrier(c, k)
      BY <3>3 DEF ChangeCarrier
    <3>4. QED
      BY <1>4, <3>1, <3>2, <3>3
  <2>3. QED
    BY <2>1, <2>2, RowTyped DEF RowKept
<1>5. ASSUME NEW c \in DeliveryCalls, CommitBooking(c)
      PROVE  RowBooked
  BY <1>5, RowTyped DEF CommitBooking, Owns, RowBooked
<1>6. ASSUME NEW c \in DeliveryCalls, DeleteDelivery(c)
      PROVE  RowRemoved
  BY <1>6 DEF DeleteDelivery, RowRemoved
<1>7. ASSUME NEW c \in DeliveryCalls, CourierStep(c)
      PROVE  RowRemoved \/ RowKept \/ RowBooked
  <2>1. CASE update(c) \/ remove(c) \/ cancel(c) \/ book(c)
    BY <1>1, <2>1 DEF update, remove, cancel, Begin, book
  <2>2. CASE AskCarrier(c) \/ MoveOrder(c) \/ CourierFails(c)
             \/ \E s \in Reported : handleTrackingUpdate(c, s)
    BY <1>1, <2>2 DEF AskCarrier, MoveOrder, CourierFails, handleTrackingUpdate
  <2>3. QED
    BY <1>4, <1>5, <1>6, <1>7, <2>1, <2>2 DEF CourierStep
<1>8. CASE UNCHANGED deliveryVars \/ \E to \in Statuses : DeskMoves(to)
  BY <1>1, <1>8 DEF deliveryVars, DeskMoves
<1>9. QED
  BY <1>2, <1>3, <1>7, <1>8 DEF DeliveryNext

\* What a step makes of a call.
CallBegins(c) ==
  /\ HasDelivery /\ delivery' = delivery /\ courier'[c].id = delivery.id
  /\ \/ courier'[c].step \in {"change", "delete", "cancel", "carrier"}
     \/ courier'[c].step = "track" /\ delivery.tracking # NoDelivery
CallBooks(c) ==
  /\ ~Idling(c) /\ courier'[c].id = courier[c].id
  /\ courier'[c].step = "booked" /\ courier'[c].arg \in booked'
CallTracks(c) ==
  /\ Doing(c, "track") /\ Owns(c) /\ courier'[c].id = courier[c].id
  /\ courier'[c].step = "order" /\ courier'[c].arg = courier[c].arg
  /\ delivery.tracking \in booked => courier[c].arg \in tracked'

LEMMA CallSteps ==
  ASSUME DeliveryTypeOK, [DeliveryNext]_deliveryVars, NEW c \in DeliveryCalls
  PROVE  \/ courier'[c] \in {courier[c], NoCourier}
         \/ CallBegins(c) \/ CallBooks(c) \/ CallTracks(c)
<1>1. CASE UNCHANGED courier
  BY <1>1
<1>2. ASSUME NEW d \in DeliveryCalls, NEW frame, Serve(d, frame)
      PROVE  courier'[c] = courier[c] \/ (c = d /\ courier'[c] = frame)
  BY <1>2 DEF Serve, DeliveryTypeOK
<1>3. ASSUME NEW d \in DeliveryCalls, update(d) \/ remove(d) \/ cancel(d) \/ book(d)
      PROVE  courier'[c] = courier[c] \/ CallBegins(c)
  <2>1. PICK step, arg :
          /\ step \in {"change", "delete", "cancel", "carrier"}
          /\ HasDelivery /\ delivery' = delivery
          /\ Serve(d, Courier(step, delivery.id, arg))
    BY <1>3 DEF update, remove, cancel, Begin, book
  <2>2. QED
    BY <1>2, <2>1 DEF Courier, CallBegins
<1>4. ASSUME NEW d \in DeliveryCalls, NEW s, handleTrackingUpdate(d, s)
      PROVE  courier'[c] = courier[c] \/ CallBegins(c)
  <2>1. /\ HasDelivery /\ delivery.tracking # NoDelivery /\ delivery' = delivery
        /\ Serve(d, Courier("track", delivery.id, s))
    BY <1>4 DEF handleTrackingUpdate
  <2>2. QED
    BY <1>2, <2>1 DEF Courier, CallBegins
<1>5. ASSUME NEW d \in DeliveryCalls, AskCarrier(d)
      PROVE  courier'[c] = courier[c] \/ CallBooks(c)
  <2>1. PICK p : /\ Doing(d, "carrier") /\ p \in booked'
                 /\ Serve(d, Courier("booked", courier[d].id, p))
    BY <1>5 DEF AskCarrier
  <2>2. QED
    BY <1>2, <2>1 DEF Courier, CallBooks, Doing, Idling
<1>6. ASSUME NEW d \in DeliveryCalls, TrackDelivery(d)
      PROVE  courier'[c] \in {courier[c], NoCourier} \/ CallTracks(c)
  <2>1. CASE courier[d].arg \in {"PICKED_UP", "DELIVERED"}
    <3>1. /\ Doing(d, "track") /\ Owns(d)
          /\ Serve(d, Courier("order", courier[d].id, courier[d].arg))
          /\ delivery.tracking \in booked => courier[d].arg \in tracked'
      BY <1>6, <2>1 DEF TrackDelivery
    <3>2. QED
      BY <1>2, <3>1 DEF Courier, CallTracks
  <2>2. CASE courier[d].arg \notin {"PICKED_UP", "DELIVERED"}
    BY <1>2, <1>6, <2>2 DEF TrackDelivery
  <2>3. QED
    BY <2>1, <2>2
<1>7. ASSUME NEW d \in DeliveryCalls,
             \/ DeleteDelivery(d) \/ CancelDelivery(d) \/ CommitBooking(d) \/ MoveOrder(d)
             \/ CourierFails(d) \/ \E carrier \in Carriers : ChangeCarrier(d, carrier)
      PROVE  courier'[c] \in {courier[c], NoCourier}
  <2>1. Serve(d, NoCourier)
    BY <1>7 DEF DeleteDelivery, CancelDelivery, CommitBooking, MoveOrder, CourierFails,
                ChangeCarrier
  <2>2. QED
    BY <1>2, <2>1
<1>8. CASE \E d \in DeliveryCalls : CourierStep(d)
  BY <1>3, <1>4, <1>5, <1>6, <1>7, <1>8 DEF CourierStep
<1>9. UNCHANGED courier \/ \E d \in DeliveryCalls : CourierStep(d)
  BY DEF DeliveryNext, deliveryVars, create, quote, DeskMoves
<1>10. QED
  BY <1>1, <1>8, <1>9

LEMMA RowInvStep ==
  ASSUME DeliveryTypeOK, RowInv, [DeliveryNext]_deliveryVars
  PROVE  RowInv'
<1> USE DeliveryAssumption
<1>1. booked \subseteq booked' /\ tracked \subseteq tracked' /\ used \subseteq used'
  BY BooksGrow
<1>2. RowAdded => \E id \in used' \ used : \E carrier : delivery' = Row(id, carrier)
  BY DEF RowAdded
<1>3. /\ HasDelivery => delivery.id \in used
      /\ HasDelivery /\ delivery.tracking # NoDelivery => delivery.tracking \in booked
      /\ \A c \in DeliveryCalls : Doing(c, "booked") => courier[c].arg \in booked
  BY DEF RowInv
<1>4. HasDelivery' => delivery'.id \in used'
  <2>1. CASE RowRemoved
    BY <2>1 DEF RowRemoved, HasDelivery
  <2>2. CASE RowAdded
    BY <1>2, <2>2 DEF Row
  <2>3. CASE RowKept \/ RowBooked
    BY <1>1, <1>3, <2>3 DEF RowKept, RowBooked
  <2>4. QED
    BY <2>1, <2>2, <2>3, RowSteps
<1>5. HasDelivery' /\ delivery'.tracking # NoDelivery => delivery'.tracking \in booked'
  <2>1. CASE RowRemoved
    BY <2>1 DEF RowRemoved, HasDelivery
  <2>2. CASE RowAdded
    BY <1>2, <2>2 DEF Row
  <2>3. CASE RowKept
    BY <1>1, <1>3, <2>3 DEF RowKept
  <2>4. CASE RowBooked
    BY <1>1, <1>3, <2>4 DEF RowBooked
  <2>5. QED
    BY <2>1, <2>2, <2>3, <2>4, RowSteps
<1>6. ASSUME NEW c \in DeliveryCalls
      PROVE  /\ ~Idling(c)' => courier'[c].id \in used'
             /\ Doing(c, "booked")' => courier'[c].arg \in booked'
             /\ Doing(c, "track")' /\ Owns(c)' => delivery'.tracking # NoDelivery
             /\ Doing(c, "order")' => /\ courier'[c].arg = "PICKED_UP" => Taken'
                                      /\ courier'[c].arg = "DELIVERED" => Handed'
  <2>1. /\ ~Idling(c) => courier[c].id \in used
        /\ Doing(c, "booked") => courier[c].arg \in booked
        /\ Doing(c, "track") /\ Owns(c) => delivery.tracking # NoDelivery
        /\ Doing(c, "order") => /\ courier[c].arg = "PICKED_UP" => Taken
                                /\ courier[c].arg = "DELIVERED" => Handed
    BY DEF RowInv
  <2>2. CASE courier'[c] = courier[c]
    <3>1. ASSUME Doing(c, "track"), HasDelivery', delivery'.id = courier[c].id
          PROVE  delivery'.tracking # NoDelivery
      <4>1. courier[c].id \in used
        BY <2>1, <3>1 DEF Doing, Idling
      <4>2. ~RowRemoved /\ ~RowAdded
        BY <1>2, <3>1, <4>1 DEF RowRemoved, HasDelivery, Row
      <4>3. CASE RowKept
        BY <2>1, <3>1, <4>3 DEF RowKept, Owns
      <4>4. CASE RowBooked
        <5>1. PICK d \in DeliveryCalls : Doing(d, "booked") /\ delivery'.tracking = courier[d].arg
          BY <4>4 DEF RowBooked
        <5>2. courier[d].arg \in Parcels
          BY <5>1, DeliveryFrameShape
        <5>3. QED
          BY <5>1, <5>2
      <4>5. QED
        BY <4>2, <4>3, <4>4, RowSteps
    <3>2. QED
      BY <1>1, <2>1, <2>2, <3>1, TakenStays DEF Idling, Doing, Owns
  <2>3. CASE courier'[c] = NoCourier
    BY <2>3 DEF NoCourier, Courier, Idling, Doing
  <2>4. CASE CallBegins(c)
    BY <1>1, <1>3, <2>4 DEF CallBegins, Idling, Doing, Owns, HasDelivery
  <2>5. CASE CallBooks(c)
    BY <1>1, <2>1, <2>5 DEF CallBooks, Idling, Doing
  <2>6. CASE CallTracks(c)
    <3>1. delivery.tracking \in booked
      BY <1>3, <2>1, <2>6 DEF CallTracks, Owns
    <3>2. /\ courier[c].arg = "PICKED_UP" => Taken'
          /\ courier[c].arg = "DELIVERED" => Handed'
      BY <2>6, <3>1 DEF CallTracks, Taken, Handed
    <3>3. courier[c].id \in used'
      BY <1>1, <2>1, <2>6 DEF CallTracks, Doing, Idling
    <3>4. QED
      BY <2>6, <3>2, <3>3 DEF CallTracks, Doing, Idling
  <2>7. QED
    BY <2>2, <2>3, <2>4, <2>5, <2>6, CallSteps
<1>7. QED
  BY <1>4, <1>5, <1>6 DEF RowInv

LEMMA StatusStep ==
  ASSUME DeliveryTypeOK, RowInv, OrderFollowsRow, [DeliveryNext]_deliveryVars
  PROVE  OrderFollowsRow'
<1>1. OrderFollowsRow <=> /\ shipped = "SHIPPED" /\ "SHIPPED" \notin desk => Taken
                          /\ shipped = "DELIVERED" /\ "DELIVERED" \notin desk => Handed
  BY DEF OrderFollowsRow, Taken, Handed
<1>2. OrderFollowsRow' <=>
        /\ shipped' = "SHIPPED" /\ "SHIPPED" \notin desk' => Taken'
        /\ shipped' = "DELIVERED" /\ "DELIVERED" \notin desk' => Handed'
  BY DEF OrderFollowsRow, Taken, Handed
<1>3. CASE UNCHANGED <<shipped, desk>>
  BY <1>1, <1>2, <1>3, TakenStays
<1>4. ASSUME NEW to \in Statuses, DeskMoves(to)
      PROVE  OrderFollowsRow'
  BY <1>2, <1>4 DEF DeskMoves
<1>5. ASSUME NEW c \in DeliveryCalls, CommitBooking(c)
      PROVE  OrderFollowsRow'
  <2>1. (shipped' = "PROCESSING" \/ shipped' = shipped) /\ UNCHANGED desk
    BY <1>5 DEF CommitBooking
  <2>2. QED
    BY <1>1, <1>2, <2>1, TakenStays
<1>6. ASSUME NEW c \in DeliveryCalls, MoveOrder(c)
      PROVE  OrderFollowsRow'
  <2>1. /\ \/ UNCHANGED shipped
           \/ courier[c].arg = "PICKED_UP" /\ shipped' = "SHIPPED"
           \/ courier[c].arg = "DELIVERED" /\ shipped' = "DELIVERED"
        /\ UNCHANGED desk
    BY <1>6 DEF MoveOrder, Moved
  <2>2. /\ courier[c].arg = "PICKED_UP" => Taken
        /\ courier[c].arg = "DELIVERED" => Handed
    BY <1>6 DEF MoveOrder, RowInv
  <2>3. QED
    BY <1>1, <1>2, <2>1, <2>2, TakenStays
<1>7. \/ UNCHANGED <<shipped, desk>>
      \/ \E to \in Statuses : DeskMoves(to)
      \/ \E c \in DeliveryCalls : CommitBooking(c) \/ MoveOrder(c)
  BY DEF DeliveryNext, CourierStep, deliveryVars, create, quote, update, remove, cancel,
         Begin, book, DeleteDelivery, CancelDelivery, AskCarrier, TrackDelivery,
         CourierFails, ChangeCarrier, handleTrackingUpdate
<1>8. QED
  BY <1>3, <1>4, <1>5, <1>6, <1>7

DeliveryInv == DeliveryTypeOK /\ RowInv /\ OrderFollowsRow

\* An order that its desk did not ship or deliver is SHIPPED or DELIVERED only when its row
\* took PICKED_UP, or DELIVERED, for a parcel a carrier accepted, whatever is reported, how
\* often and in which order.
THEOREM StatusCorrect == DeliverySpec => []OrderFollowsRow
<1>1. DeliveryInit => DeliveryInv
  <2>1. DeliveryInit => RowInv /\ OrderFollowsRow
    BY DEF DeliveryInit, RowInv, HasDelivery, Doing, Idling, NoCourier, Courier, OrderFollowsRow
  <2>2. QED
    BY <2>1, DeliveryTypeInit DEF DeliveryInv
<1>2. DeliveryInv /\ [DeliveryNext]_deliveryVars => DeliveryInv'
  BY DeliveryTypeStep, RowInvStep, StatusStep DEF DeliveryInv
<1>3. DeliveryInv => OrderFollowsRow
  BY DEF DeliveryInv
<1>4. QED
  BY <1>1, <1>2, <1>3, PTL DEF DeliverySpec

-----------------------------------------------------------------------------
(* Refunds of an order.                                                    *)

\* The steps that insert a row, those that write one that was read PENDING, and the others.
RowWriters == {"amend", "remove", "void", "claim", "settle", "push", "accepted"}
RefundSteps == Inserters \cup RowWriters \cup {"sum", "flip", "spend"}
RefundFrames == {NoFrame} \cup [step : RefundSteps, row : RefundIds, arg : 0 .. Total]

\* A call that works on a row names it.
LEMMA RefundFrameShape ==
  ASSUME RefundTypeOK, NEW c \in RefundCalls
  PROVE  /\ refunding[c] \in RefundFrames
         /\ refunding[c].step \in RefundSteps \cup {"idle"}
         /\ ~Step(c, "idle") => /\ RowOf(c) \in RefundIds
                                /\ refunding[c].arg \in 0 .. Total
                                /\ refunding[c].step \in RefundSteps
         /\ Step(c, "idle") => refunding[c] = NoFrame
<1>1. refunding[c] \in RefundFrames
  BY DEF RefundTypeOK, RefundFrames, RefundSteps, RowWriters
<1>2. QED
  BY <1>1 DEF RefundFrames, RefundSteps, RowWriters, Inserters, NoFrame, RefundFrame, Step, RowOf

LEMMA RefundFrameTyped ==
  ASSUME NEW r \in RefundIds, NEW arg \in 0 .. Total, NEW step \in RefundSteps
  PROVE  RefundFrame(step, r, arg) \in RefundFrames
  BY DEF RefundFrame, RefundFrames

LEMMA ResumeTyped ==
  ASSUME RefundTypeOK, NEW c \in RefundCalls, NEW frame \in RefundFrames, Resume(c, frame)
  PROVE  /\ refunding' \in [RefundCalls -> RefundFrames]
         /\ refunding'[c] = frame
         /\ \A d \in RefundCalls : d # c => refunding'[d] = refunding[d]
  BY DEF RefundTypeOK, RefundFrames, RefundSteps, RowWriters, Resume

LEMMA WriteTyped ==
  ASSUME RefundTypeOK, NEW c \in RefundCalls, NEW to \in RefundStatuses, Write(c, to)
  PROVE  refund' \in [RefundIds -> RefundStatuses] /\ undone' \in BOOLEAN
<1>1. refund' \in [RefundIds -> RefundStatuses]
  BY DEF RefundTypeOK, Write
<1>2. undone' \in BOOLEAN
  <2>1. undone \in BOOLEAN /\ undone' = (undone \/ (refund[RowOf(c)] = "SUCCEEDED" /\ to # "SUCCEEDED"))
    BY DEF RefundTypeOK, Write
  <2>2. QED
    BY <2>1, Zenon
<1>3. QED
  BY <1>1, <1>2

\* What a step of the services does to the calls in flight: it moves one of them on.
LEMMA OneRefundCallMoves ==
  ASSUME RefundTypeOK, NEW c \in RefundCalls, RefundStep(c)
  PROVE  \E frame \in RefundFrames : Resume(c, frame)
<1>1. NoFrame \in RefundFrames
  BY DEF RefundFrames
<1>2. Total \in Nat \ {0} /\ 0 \in 0 .. Total /\ 1 \in 0 .. Total /\ Amounts \subseteq 0 .. Total
  BY RefundAssumption DEF Amounts
<1>3. \A step \in RefundSteps : ~Step(c, "idle") => [refunding[c] EXCEPT !.step = step] \in RefundFrames
  <2>1. SUFFICES ASSUME NEW step \in RefundSteps, ~Step(c, "idle")
                 PROVE  [refunding[c] EXCEPT !.step = step] \in RefundFrames
    OBVIOUS
  <2>2. refunding[c] \in [step : RefundSteps, row : RefundIds, arg : 0 .. Total]
    BY <2>1, RefundFrameShape DEF RefundFrames, NoFrame, RefundFrame, Step
  <2>3. QED
    BY <2>2 DEF RefundFrames
<1>4. ASSUME NEW r \in RefundIds, NEW a \in Amounts, NEW step \in RefundSteps,
             AsksRefund(c, step, r, a)
      PROVE  \E frame \in RefundFrames : Resume(c, frame)
  BY <1>2, <1>4, RefundFrameTyped DEF AsksRefund
<1>5. ASSUME NEW r \in RefundIds, NEW a \in 0 .. Total, NEW step \in RefundSteps,
             assertMutable(c, r, step, a)
      PROVE  \E frame \in RefundFrames : Resume(c, frame)
  BY <1>5, RefundFrameTyped DEF assertMutable
<1>6. CASE \E r \in RefundIds :
             \/ removeRefund(c, r) \/ cancelRefund(c, r)
             \/ processOrderRefund(c, r) \/ processPaymentRefund(c, r)
             \/ \E a \in Amounts : \/ createOrderRefund(c, r, a) \/ createPaymentRefund(c, r, a)
                                   \/ updateRefund(c, r, a) \/ refundPayment(c, r, a)
  BY <1>2, <1>4, <1>5, <1>6
     DEF removeRefund, cancelRefund, processOrderRefund, processPaymentRefund,
         createOrderRefund, createPaymentRefund, updateRefund, refundPayment, RefundSteps,
         RowWriters, Inserters
<1>7. CASE InsertRefund(c) \/ AmendRefund(c) \/ RemoveRow(c) \/ VoidRefund(c)
  BY <1>1, <1>7 DEF InsertRefund, AmendRefund, RemoveRow, VoidRefund
<1>8. CASE ClaimRefund(c) \/ SettleRefund(c) \/ CheckCoverage(c) \/ TurnRefunded(c)
  BY <1>1, <1>3, <1>8
     DEF ClaimRefund, SettleRefund, CheckCoverage, TurnRefunded, Step, RefundSteps, RowWriters
<1>9. CASE PushToProvider(c) \/ RecordPush(c) \/ RefundCrash(c) \/ RefundGone(c)
  BY <1>1, <1>3, <1>9
     DEF PushToProvider, RecordPush, RefundCrash, RefundGone, Step, RefundSteps, RowWriters
<1>10. CASE CheckBalance(c) \/ AskProvider(c) \/ BookRefund(c) \/ MarkRefunded(c)
  BY <1>1, <1>3, <1>10
     DEF CheckBalance, AskProvider, BookRefund, MarkRefunded, Step, RefundSteps, RowWriters,
         Inserters
<1>11. QED
  BY <1>6, <1>7, <1>8, <1>9, <1>10 DEF RefundStep

LEMMA RefundTypeStep == RefundTypeOK /\ [RefundNext]_refundVars => RefundTypeOK'
<1> SUFFICES ASSUME RefundTypeOK, [RefundNext]_refundVars
             PROVE  RefundTypeOK'
  OBVIOUS
<1>1. CASE UNCHANGED refundVars
  BY <1>1 DEF refundVars, RefundTypeOK
<1>2. CASE CancelSale \/ Reconciles
  BY <1>2 DEF CancelSale, Reconciles, RefundTypeOK
<1>3. ASSUME NEW c \in RefundCalls, RefundStep(c)
      PROVE  RefundTypeOK'
  <2>1. refunding' \in [RefundCalls -> RefundFrames]
    BY <1>3, OneRefundCallMoves, ResumeTyped
  <2>2. /\ sale' \in {"PAID", "CANCELLED", "REFUNDED"} /\ payment' \in {"SUCCEEDED", "OTHER"}
        /\ direct' \subseteq RefundIds
        /\ amount' \in [RefundIds -> 0 .. Total]
        /\ pushes' \in [RefundIds -> Nat]
        /\ refundCrashes' \in Nat
    <3>1. CASE InsertRefund(c) \/ AmendRefund(c)
      <4>1. refunding[c].arg \in 0 .. Total
        BY <3>1, RefundFrameShape DEF InsertRefund, AmendRefund, Step
      <4>2. QED
        BY <3>1, <4>1 DEF InsertRefund, AmendRefund, RefundTypeOK
    <3>2. CASE RemoveRow(c) \/ VoidRefund(c) \/ ClaimRefund(c) \/ SettleRefund(c) \/ RecordPush(c)
      BY <3>2 DEF RemoveRow, VoidRefund, ClaimRefund, SettleRefund, RecordPush, RefundTypeOK
    <3>3. CASE CheckCoverage(c) \/ TurnRefunded(c) \/ RefundCrash(c) \/ RefundGone(c)
      BY <3>3 DEF CheckCoverage, TurnRefunded, RefundCrash, RefundGone, RefundTypeOK
    <3>4. CASE PushToProvider(c)
      BY <3>4 DEF PushToProvider, RefundTypeOK
    <3>5. CASE BookRefund(c)
      <4>1. refunding[c].arg \in 0 .. Total /\ RowOf(c) \in RefundIds
        BY <3>5, RefundFrameShape DEF BookRefund, Step
      <4>2. QED
        BY <3>5, <4>1 DEF BookRefund, RefundTypeOK
    <3>6. CASE CheckBalance(c) \/ AskProvider(c) \/ MarkRefunded(c)
      BY <3>6 DEF CheckBalance, AskProvider, MarkRefunded, RefundTypeOK
    <3>7. QED
      BY <1>3, <3>1, <3>2, <3>3, <3>4, <3>5, <3>6
         DEF RefundStep, RefundTypeOK, removeRefund, cancelRefund, processOrderRefund,
             processPaymentRefund, createOrderRefund, createPaymentRefund, updateRefund,
             refundPayment, AsksRefund, assertMutable
  <2>3. refund' \in [RefundIds -> RefundStatuses] /\ undone' \in BOOLEAN
    <3>1. {"PENDING", "PROCESSING", "SUCCEEDED", "FAILED", "removed"} \subseteq RefundStatuses
      BY DEF RefundStatuses, Open
    <3>2. CASE InsertRefund(c) \/ BookRefund(c)
      BY <3>1, <3>2 DEF InsertRefund, BookRefund, RefundTypeOK
    <3>3. CASE AmendRefund(c)
      <4>1. undone \in BOOLEAN /\ undone' = (undone \/ refund[RowOf(c)] = "SUCCEEDED")
            /\ refund' = refund
        BY <3>3 DEF AmendRefund, RefundTypeOK
      <4>2. undone' \in BOOLEAN
        BY <4>1, Zenon
      <4>3. QED
        BY <4>1, <4>2 DEF RefundTypeOK
    <3>4. CASE RemoveRow(c) \/ VoidRefund(c) \/ ClaimRefund(c) \/ SettleRefund(c) \/ RecordPush(c)
      BY <3>1, <3>4, WriteTyped
         DEF RemoveRow, VoidRefund, ClaimRefund, SettleRefund, RecordPush
    <3>5. CASE CheckCoverage(c) \/ TurnRefunded(c) \/ RefundCrash(c) \/ RefundGone(c)
               \/ PushToProvider(c) \/ CheckBalance(c) \/ AskProvider(c) \/ MarkRefunded(c)
      BY <3>5 DEF CheckCoverage, TurnRefunded, RefundCrash, RefundGone, PushToProvider,
                  CheckBalance, AskProvider, MarkRefunded, RefundTypeOK
    <3>6. QED
      BY <1>3, <3>2, <3>3, <3>4, <3>5
         DEF RefundStep, RefundTypeOK, removeRefund, cancelRefund, processOrderRefund,
             processPaymentRefund, createOrderRefund, createPaymentRefund, updateRefund,
             refundPayment, AsksRefund, assertMutable
  <2>4. QED
    BY <2>1, <2>2, <2>3 DEF RefundTypeOK, RefundFrames, RefundSteps, RowWriters
<1>4. QED
  BY <1>1, <1>2, <1>3 DEF RefundNext

LEMMA RefundInitType == RefundInit => RefundTypeOK
<1>1. 0 \in 0 .. Total
  BY RefundAssumption
<1>2. SUFFICES ASSUME RefundInit PROVE RefundTypeOK
  OBVIOUS
<1>3. refund \in [RefundIds -> RefundStatuses] /\ amount \in [RefundIds -> 0 .. Total]
  BY <1>1, <1>2 DEF RefundInit, RefundStatuses
<1>4. refunding \in [RefundCalls -> RefundFrames]
  BY <1>2 DEF RefundInit, RefundFrames
<1>5. QED
  BY <1>2, <1>3, <1>4 DEF RefundInit, RefundTypeOK, RefundFrames, RefundSteps, RowWriters

\* Rows and frames of the refund services keep their types.
THEOREM RefundTypeCorrect == RefundSpec => []RefundTypeOK
  BY RefundInitType, RefundTypeStep, PTL DEF RefundSpec

\* Two calls never insert the same row, and an inserted row was not there before.
InsertInv ==
  \A c \in RefundCalls : refunding[c].step \in Inserters =>
    /\ refund[RowOf(c)] = "none"
    /\ \A d \in RefundCalls : refunding[d].step \in Inserters /\ RowOf(d) = RowOf(c) => d = c

\* A row that PaymentsService.refund() inserted stays PROCESSING: no call that would write it
\* read it PENDING.
DirectInv ==
  /\ \A r \in direct : refund[r] = "PROCESSING"
  /\ \A c \in RefundCalls : refunding[c].step \in RowWriters =>
       refund[RowOf(c)] # "none" /\ RowOf(c) \notin direct

\* Once the sum of what succeeded covers the order it does so for good, unless undone; a call
\* that will turn the order REFUNDED saw it do so or inserted a row itself.
Backed == succeededTotal >= Total \/ direct # {}
BackedInv ==
  ~undone => /\ \A c \in RefundCalls : Step(c, "flip") => Backed
             /\ sale = "REFUNDED" => Backed
SpendInv == \A c \in RefundCalls : Step(c, "spend") => direct # {}

\* No row but the inserted one stops being "none" or becomes PENDING.
LEMMA RowsMove ==
  ASSUME RefundTypeOK, NEW c \in RefundCalls, RefundStep(c), NEW r \in RefundIds
  PROVE  /\ refund'[r] # refund[r] =>
              /\ r = RowOf(c) /\ ~Step(c, "idle")
              /\ refunding[c].step \in Inserters \cup RowWriters
         /\ refund[r] = "none" /\ refund'[r] # "none" => Step(c, "insert") \/ Step(c, "book")
         /\ refund'[r] = "none" => refund[r] = "none"
         /\ refund'[r] = "PENDING" /\ refund[r] # "PENDING" => Step(c, "insert")
<1> USE DEF RefundTypeOK
<1>1. CASE InsertRefund(c) \/ BookRefund(c)
  BY <1>1 DEF InsertRefund, BookRefund, Step, Inserters
<1>2. CASE RemoveRow(c) \/ VoidRefund(c)
  BY <1>2 DEF RemoveRow, VoidRefund, Write, Present, Step, RowWriters
<1>3. CASE ClaimRefund(c) \/ SettleRefund(c) \/ RecordPush(c)
  BY <1>3 DEF ClaimRefund, SettleRefund, RecordPush, Write, Present, Step, RowWriters
<1>4. CASE refund' = refund
  BY <1>4
<1>5. QED
  BY <1>1, <1>2, <1>3, <1>4
     DEF RefundStep, removeRefund, cancelRefund, processOrderRefund, processPaymentRefund,
         createOrderRefund, createPaymentRefund, updateRefund, refundPayment, AsksRefund,
         assertMutable, AmendRefund, CheckCoverage, TurnRefunded, PushToProvider, RefundCrash,
         RefundGone, CheckBalance, AskProvider, MarkRefunded

\* How the call that moves goes on, and what becomes of the direct rows.
LEMMA FramesMove ==
  ASSUME RefundTypeOK, NEW c \in RefundCalls, RefundStep(c)
  PROVE  /\ refunding'[c].step \in Inserters =>
              \/ \E r \in RefundIds, a \in Amounts, step \in Inserters : AsksRefund(c, step, r, a)
              \/ /\ refunding[c].step \in Inserters /\ RowOf(c)' = RowOf(c)
                 /\ refund' = refund
         /\ refunding'[c].step \in RowWriters =>
              \/ \E r \in RefundIds, a \in 0 .. Total : \E step : assertMutable(c, r, step, a)
              \/ refunding[c].step \in RowWriters /\ RowOf(c)' = RowOf(c)
         /\ Step(c, "spend")' => direct' # {}
         /\ Step(c, "flip")' => Step(c, "spend") \/ (Step(c, "sum") /\ succeededTotal >= Total)
         /\ direct' = direct \/ (Step(c, "book") /\ direct' = direct \cup {RowOf(c)}
                                  /\ refund' = [refund EXCEPT ![RowOf(c)] = "PROCESSING"]
                                  /\ Step(c, "spend")')
<1>1. /\ \A step \in RefundSteps : ~Step(c, "idle") =>
           /\ [refunding[c] EXCEPT !.step = step].step = step
           /\ [refunding[c] EXCEPT !.step = step].row = RowOf(c)
      /\ NoFrame.step = "idle"
      /\ \A step, r, a : RefundFrame(step, r, a).step = step /\ RefundFrame(step, r, a).row = r
  BY RefundFrameShape DEF RefundFrames, NoFrame, RefundFrame, Step, RowOf
<1>2. \A frame \in RefundFrames : Resume(c, frame) => refunding'[c] = frame
  BY ResumeTyped
<1>3. 0 \in 0 .. Total /\ 1 \in 0 .. Total /\ Amounts \subseteq 0 .. Total
  BY RefundAssumption DEF Amounts
<1>4. \A frame : Resume(c, frame) => refunding'[c] = frame
  BY DEF Resume, RefundTypeOK
<1>5. CASE \E r \in RefundIds, a \in Amounts :
             createOrderRefund(c, r, a) \/ createPaymentRefund(c, r, a) \/ refundPayment(c, r, a)
  <2>1. PICK r \in RefundIds, a \in Amounts, step \in Inserters : AsksRefund(c, step, r, a)
    BY <1>5 DEF createOrderRefund, createPaymentRefund, refundPayment, Inserters
  <2>2. refunding'[c].step = step /\ direct' = direct
    BY <1>1, <1>4, <2>1 DEF AsksRefund
  <2>3. QED
    BY <2>1, <2>2 DEF Inserters, RowWriters, Step
<1>6. CASE \E r \in RefundIds : \/ removeRefund(c, r) \/ cancelRefund(c, r)
                                \/ processOrderRefund(c, r) \/ processPaymentRefund(c, r)
                                \/ \E a \in Amounts : updateRefund(c, r, a)
  <2>1. PICK r \in RefundIds, a \in 0 .. Total, step \in RowWriters : assertMutable(c, r, step, a)
    BY <1>3, <1>6 DEF removeRefund, cancelRefund, processOrderRefund, processPaymentRefund,
                      updateRefund, RowWriters
  <2>2. refunding'[c].step = step /\ direct' = direct
    BY <1>1, <1>4, <2>1 DEF assertMutable
  <2>3. QED
    BY <2>1, <2>2 DEF Inserters, RowWriters, Step
<1>7. CASE \/ InsertRefund(c) \/ AmendRefund(c) \/ RemoveRow(c) \/ VoidRefund(c) \/ TurnRefunded(c)
           \/ RecordPush(c) \/ RefundCrash(c) \/ RefundGone(c)
  <2>1. refunding'[c].step = "idle" /\ direct' = direct
    BY <1>1, <1>4, <1>7 DEF InsertRefund, AmendRefund, RemoveRow, VoidRefund, TurnRefunded,
                            RecordPush, RefundCrash, RefundGone
  <2>2. QED
    BY <2>1 DEF Inserters, RowWriters, Step
<1>8. CASE ClaimRefund(c) \/ SettleRefund(c) \/ PushToProvider(c)
  <2>1. /\ refunding[c].step \in {"claim", "settle", "push"} /\ direct' = direct
        /\ \/ refunding'[c] = NoFrame
           \/ \E step \in {"settle", "sum", "accepted", "void"} :
                refunding'[c] = [refunding[c] EXCEPT !.step = step]
    BY <1>4, <1>8 DEF ClaimRefund, SettleRefund, PushToProvider, Step
  <2>2. ~Step(c, "idle") /\ {"settle", "sum", "accepted", "void"} \subseteq RefundSteps
    BY <2>1 DEF Step, RefundSteps, RowWriters
  <2>3. \/ refunding'[c].step = "idle"
        \/ refunding'[c].step \in {"settle", "sum", "accepted", "void"} /\ refunding'[c].row = RowOf(c)
    BY <1>1, <2>1, <2>2
  <2>4. QED
    BY <2>1, <2>3 DEF Inserters, RowWriters, Step, RowOf
<1>9. CASE CheckCoverage(c) \/ MarkRefunded(c)
  <2>1. /\ direct' = direct
        /\ \/ refunding'[c] = NoFrame
           \/ /\ refunding'[c] = [refunding[c] EXCEPT !.step = "flip"]
              /\ Step(c, "spend") \/ (Step(c, "sum") /\ succeededTotal >= Total)
    BY <1>4, <1>9 DEF CheckCoverage, MarkRefunded
  <2>2. ~Step(c, "idle") /\ "flip" \in RefundSteps
    BY <1>9 DEF CheckCoverage, MarkRefunded, Step, RefundSteps
  <2>3. \/ refunding'[c].step = "idle"
        \/ /\ refunding'[c].step = "flip"
           /\ Step(c, "spend") \/ (Step(c, "sum") /\ succeededTotal >= Total)
    BY <1>1, <2>1, <2>2
  <2>4. QED
    BY <2>1, <2>3 DEF Inserters, RowWriters, Step
<1>10. CASE CheckBalance(c) \/ AskProvider(c)
  <2>1. /\ refunding[c].step \in {"balance", "repay"} /\ direct' = direct /\ refund' = refund
        /\ \/ refunding'[c] = NoFrame
           \/ \E step \in {"insert", "book"} :
                refunding'[c] = [refunding[c] EXCEPT !.step = step]
    BY <1>4, <1>10 DEF CheckBalance, AskProvider, Step
  <2>2. ~Step(c, "idle") /\ {"insert", "book"} \subseteq RefundSteps
    BY <2>1 DEF Step, RefundSteps, Inserters
  <2>3. \/ refunding'[c].step = "idle"
        \/ refunding'[c].step \in {"insert", "book"} /\ refunding'[c].row = RowOf(c)
    BY <1>1, <2>1, <2>2
  <2>4. QED
    BY <2>1, <2>3 DEF Inserters, RowWriters, Step, RowOf
<1>11. CASE BookRefund(c)
  <2>1. /\ Step(c, "book") /\ direct' = direct \cup {RowOf(c)}
        /\ refund' = [refund EXCEPT ![RowOf(c)] = "PROCESSING"]
        /\ refunding'[c] = [refunding[c] EXCEPT !.step = "spend"]
    BY <1>4, <1>11 DEF BookRefund
  <2>2. refunding'[c].step = "spend"
    BY <1>1, <2>1 DEF Step, RefundSteps
  <2>3. QED
    BY <2>1, <2>2 DEF Inserters, RowWriters, Step
<1>12. QED
  BY <1>5, <1>6, <1>7, <1>8, <1>9, <1>10, <1>11 DEF RefundStep

LEMMA InsertStep ==
  RefundTypeOK /\ InsertInv /\ [RefundNext]_refundVars => InsertInv'
<1> SUFFICES ASSUME RefundTypeOK, InsertInv, [RefundNext]_refundVars
             PROVE  InsertInv'
  OBVIOUS
<1>1. CASE UNCHANGED <<refund, refunding>>
  BY <1>1 DEF InsertInv, RowOf
<1>2. ASSUME NEW c \in RefundCalls, RefundStep(c)
      PROVE  InsertInv'
  <2>1. \A d \in RefundCalls : d # c => refunding'[d] = refunding[d]
    BY <1>2, OneRefundCallMoves, ResumeTyped
  \* Another call's row stays its own.
  <2>2. ASSUME NEW d \in RefundCalls, d # c, refunding'[d].step \in Inserters
        PROVE  /\ refund'[RowOf(d)'] = "none"
               /\ refunding[d].step \in Inserters /\ RowOf(d)' = RowOf(d)
    <3>1. refunding'[d] = refunding[d] /\ RowOf(d)' = RowOf(d)
      BY <2>1, <2>2 DEF RowOf
    <3>2. refund[RowOf(d)] = "none" /\ RowOf(d) \in RefundIds
      BY <2>2, <3>1, RefundFrameShape DEF InsertInv, Step, Inserters
    <3>3. ~(refunding[c].step \in Inserters /\ RowOf(c) = RowOf(d))
      BY <2>2, <3>1 DEF InsertInv
    <3>4. RowOf(c) = RowOf(d) => ~Step(c, "insert") /\ ~Step(c, "book")
      BY <3>3 DEF Step, Inserters
    <3>5. QED
      BY <1>2, <2>2, <3>1, <3>2, <3>4, RowsMove
  <2>3. CASE refunding'[c].step \notin Inserters
    BY <2>1, <2>2, <2>3 DEF InsertInv
  <2>4. CASE \E r \in RefundIds, a \in Amounts, step \in Inserters : AsksRefund(c, step, r, a)
    <3>1. PICK r \in RefundIds, a \in Amounts, step \in Inserters : AsksRefund(c, step, r, a)
      BY <2>4
    <3>2. refund' = refund /\ refund[r] = "none" /\ RowOf(c)' = r
      BY <3>1 DEF AsksRefund, Resume, RefundFrame, RowOf, RefundTypeOK
    <3>3. \A d \in RefundCalls : refunding[d].step \in Inserters => RowOf(d) # r
      BY <3>1 DEF AsksRefund
    <3>4. QED
      BY <2>2, <3>2, <3>3 DEF InsertInv
  <2>5. CASE refunding[c].step \in Inserters /\ RowOf(c)' = RowOf(c) /\ refund' = refund
    BY <2>2, <2>5 DEF InsertInv
  <2>6. QED
    BY <1>2, <2>3, <2>4, <2>5, FramesMove
<1>3. QED
  BY <1>1, <1>2 DEF RefundNext, CancelSale, Reconciles, refundVars

LEMMA DirectStep ==
  RefundTypeOK /\ InsertInv /\ DirectInv /\ [RefundNext]_refundVars => DirectInv'
<1> SUFFICES ASSUME RefundTypeOK, InsertInv, DirectInv, [RefundNext]_refundVars
             PROVE  DirectInv'
  OBVIOUS
<1>1. CASE UNCHANGED <<refund, refunding, direct>>
  BY <1>1 DEF DirectInv, RowOf
<1>2. ASSUME NEW c \in RefundCalls, RefundStep(c)
      PROVE  DirectInv'
  <2>1. \A d \in RefundCalls : d # c => refunding'[d] = refunding[d]
    BY <1>2, OneRefundCallMoves, ResumeTyped
  <2>2. direct \subseteq RefundIds
    BY DEF RefundTypeOK
  <2>3. ASSUME NEW r \in direct
        PROVE  refund'[r] = "PROCESSING"
    <3>1. refund[r] = "PROCESSING" /\ r \in RefundIds
      BY <2>2 DEF DirectInv
    <3>2. refunding[c].step \in RowWriters => RowOf(c) # r
      BY DEF DirectInv
    <3>3. refunding[c].step \in Inserters => RowOf(c) # r
      BY <3>1 DEF InsertInv
    <3>4. QED
      BY <1>2, <3>1, <3>2, <3>3, RowsMove
  <2>4. \A r \in direct' : refund'[r] = "PROCESSING"
    <3>1. CASE direct' = direct
      BY <2>3, <3>1
    <3>2. CASE /\ Step(c, "book") /\ direct' = direct \cup {RowOf(c)}
               /\ refund' = [refund EXCEPT ![RowOf(c)] = "PROCESSING"]
      <4>1. RowOf(c) \in RefundIds
        BY <3>2, RefundFrameShape DEF Step
      <4>2. QED
        BY <2>3, <3>2, <4>1 DEF RefundTypeOK
    <3>3. QED
      BY <1>2, <3>1, <3>2, FramesMove
  \* A row that is there and not direct stays so.
  <2>5. ASSUME NEW r \in RefundIds, refund[r] # "none", r \notin direct
        PROVE  refund'[r] # "none" /\ r \notin direct'
    <3>1. refund'[r] # "none"
      BY <1>2, <2>5, RowsMove
    <3>2. Step(c, "book") => refund[RowOf(c)] = "none"
      BY DEF InsertInv, Step, Inserters
    <3>3. QED
      BY <1>2, <2>5, <3>1, <3>2, FramesMove
  <2>6. ASSUME NEW d \in RefundCalls, refunding'[d].step \in RowWriters
        PROVE  refund'[RowOf(d)'] # "none" /\ RowOf(d)' \notin direct'
    <3>1. CASE refunding[d].step \in RowWriters /\ RowOf(d)' = RowOf(d)
      <4>1. refund[RowOf(d)] # "none" /\ RowOf(d) \notin direct
        BY <3>1 DEF DirectInv
      <4>2. RowOf(d) \in RefundIds
        BY <3>1, RefundFrameShape DEF Step, RowWriters
      <4>3. QED
        BY <2>5, <3>1, <4>1, <4>2
    <3>2. CASE d # c
      BY <2>1, <2>6, <3>1, <3>2 DEF RowOf
    <3>3. CASE d = c /\ \E r \in RefundIds, a \in 0 .. Total : \E step : assertMutable(c, r, step, a)
      <4>1. PICK r \in RefundIds, a \in 0 .. Total : \E step : assertMutable(c, r, step, a)
        BY <3>3
      <4>2. refund[r] = "PENDING" /\ RowOf(c)' = r
        BY <4>1 DEF assertMutable, Resume, RefundFrame, RowOf, RefundTypeOK
      <4>3. r \notin direct
        BY <4>2 DEF DirectInv
      <4>4. QED
        BY <2>5, <3>3, <4>2, <4>3
    <3>4. QED
      BY <1>2, <2>6, <3>1, <3>2, <3>3, FramesMove
  <2>7. QED
    BY <2>4, <2>6 DEF DirectInv
<1>3. QED
  BY <1>1, <1>2 DEF RefundNext, CancelSale, Reconciles, refundVars

\* A step that leaves what succeeded as it was, and undoes nothing, keeps the sum.
LEMMA SucceededKept ==
  ASSUME RefundTypeOK, RefundTypeOK',
         \A r \in RefundIds :
           refund[r] = "SUCCEEDED" => refund'[r] = "SUCCEEDED" /\ amount'[r] = amount[r]
  PROVE  succeededTotal \in Nat /\ succeededTotal' \in Nat /\ succeededTotal <= succeededTotal'
<1> DEFINE S == {r \in RefundIds : refund[r] \in {"SUCCEEDED"}}
           T == {r \in RefundIds : refund'[r] \in {"SUCCEEDED"}}
<1>1. S \in SUBSET T /\ T \subseteq RefundIds
  OBVIOUS
<1>2. IsFiniteSet(T)
  BY <1>1, RefundAssumption, FS_Subset
<1>3. \A r \in RefundIds : amount[r] \in Nat /\ amount'[r] \in Nat
  BY RefundAssumption DEF RefundTypeOK
<1>4. NatOn(amount, S) /\ NatOn(amount', T) /\ \A r \in S : amount[r] <= amount'[r]
  BY <1>1, <1>3 DEF NatOn
<1>5. succeededTotal = SumFunctionOnSet(amount, S) /\ succeededTotal' = SumFunctionOnSet(amount', T)
  BY DEF succeededTotal, Sum
<1> HIDE DEF S, T
<1>6. /\ SumFunctionOnSet(amount, S) \in Nat
      /\ SumFunctionOnSet(amount, S) <= SumFunctionOnSet(amount', T)
  BY <1>1, <1>2, <1>4, SumMonotone
<1>7. SumFunctionOnSet(amount', T) \in Nat
  <2>1. T \in SUBSET T /\ \A r \in T : amount'[r] <= amount'[r]
    BY <1>4 DEF NatOn
  <2>2. QED
    BY <1>2, <1>4, <2>1, SumMonotone
<1>8. QED
  BY <1>5, <1>6, <1>7

LEMMA BackedStep ==
  RefundTypeOK /\ InsertInv /\ SpendInv /\ BackedInv /\ [RefundNext]_refundVars
    => SpendInv' /\ BackedInv'
<1> SUFFICES ASSUME RefundTypeOK, InsertInv, SpendInv, BackedInv, [RefundNext]_refundVars
             PROVE  SpendInv' /\ BackedInv'
  OBVIOUS
<1>0. RefundTypeOK'
  BY RefundTypeStep
\* Rows PaymentsService.refund() inserted are never forgotten.
<1>1. direct # {} => direct' # {}
  BY FramesMove DEF RefundNext, CancelSale, Reconciles, refundVars
\* A call that stays or arrives at a step before the flip.
<1>2. ASSUME NEW d \in RefundCalls
      PROVE  /\ Step(d, "spend")' => direct' # {}
             /\ Step(d, "flip")' => \/ Step(d, "flip") \/ direct # {} \/ succeededTotal >= Total
  <2>1. CASE refunding' = refunding
    BY <1>1, <2>1 DEF SpendInv, Step
  <2>2. ASSUME NEW c \in RefundCalls, RefundStep(c), c # d
        PROVE  refunding'[d] = refunding[d]
    BY <2>2, OneRefundCallMoves, ResumeTyped
  <2>3. CASE RefundStep(d)
    BY <2>3, FramesMove DEF SpendInv
  <2>4. CASE refunding'[d] = refunding[d]
    BY <1>1, <2>4 DEF SpendInv, Step
  <2>5. QED
    BY <2>1, <2>2, <2>3, <2>4 DEF RefundNext, CancelSale, Reconciles, refundVars
<1>3. ASSUME ~undone'
      PROVE  /\ ~undone
             /\ \A r \in RefundIds :
                  refund[r] = "SUCCEEDED" => refund'[r] = "SUCCEEDED" /\ amount'[r] = amount[r]
  <2> USE DEF RefundTypeOK
  <2>1. CASE UNCHANGED <<refund, amount, undone>>
    BY <1>3, <2>1
  <2>2. ASSUME NEW c \in RefundCalls, InsertRefund(c) \/ BookRefund(c)
        PROVE  /\ ~undone
               /\ \A r \in RefundIds :
                    refund[r] = "SUCCEEDED" => refund'[r] = "SUCCEEDED" /\ amount'[r] = amount[r]
    <3>1. refund[RowOf(c)] = "none"
      BY <2>2 DEF InsertRefund, BookRefund, InsertInv, Inserters, Step
    <3>2. QED
      BY <1>3, <2>2, <3>1 DEF InsertRefund, BookRefund
  <2>3. ASSUME NEW c \in RefundCalls, AmendRefund(c)
        PROVE  /\ ~undone
               /\ \A r \in RefundIds :
                    refund[r] = "SUCCEEDED" => refund'[r] = "SUCCEEDED" /\ amount'[r] = amount[r]
    BY <1>3, <2>3 DEF AmendRefund
  <2>4. ASSUME NEW c \in RefundCalls, NEW to, Write(c, to), amount' = amount
        PROVE  /\ ~undone
               /\ \A r \in RefundIds :
                    refund[r] = "SUCCEEDED" => refund'[r] = "SUCCEEDED" /\ amount'[r] = amount[r]
    BY <1>3, <2>4 DEF Write
  <2>5. ASSUME NEW c \in RefundCalls, RefundStep(c)
        PROVE  /\ ~undone
               /\ \A r \in RefundIds :
                    refund[r] = "SUCCEEDED" => refund'[r] = "SUCCEEDED" /\ amount'[r] = amount[r]
    BY <2>1, <2>2, <2>3, <2>4, <2>5
       DEF RefundStep, removeRefund, cancelRefund, processOrderRefund, processPaymentRefund,
           createOrderRefund, createPaymentRefund, updateRefund, refundPayment, AsksRefund,
           assertMutable, RemoveRow, VoidRefund, ClaimRefund, SettleRefund, RecordPush,
           CheckCoverage, TurnRefunded, PushToProvider, RefundCrash, RefundGone, CheckBalance,
           AskProvider, MarkRefunded
  <2>6. QED
    BY <2>1, <2>5 DEF refundVars, RefundNext, CancelSale, Reconciles
<1>4. ~undone' => succeededTotal \in Nat /\ succeededTotal' \in Nat /\ succeededTotal <= succeededTotal'
  BY <1>0, <1>3, SucceededKept
<1>5. ASSUME sale' = "REFUNDED", sale # "REFUNDED"
      PROVE  \E c \in RefundCalls : Step(c, "flip")
  <2>1. ASSUME NEW c \in RefundCalls, RefundStep(c), ~TurnRefunded(c)
        PROVE  sale' = sale
    BY <2>1
       DEF RefundStep, removeRefund, cancelRefund, processOrderRefund, processPaymentRefund,
           createOrderRefund, createPaymentRefund, updateRefund, refundPayment, AsksRefund,
           assertMutable, InsertRefund, AmendRefund, RemoveRow, VoidRefund, ClaimRefund,
           SettleRefund, RecordPush, CheckCoverage, PushToProvider, RefundCrash, RefundGone,
           CheckBalance, AskProvider, BookRefund, MarkRefunded
  <2>2. CancelSale \/ Reconciles \/ UNCHANGED refundVars => sale' \in {sale, "CANCELLED"}
    BY DEF CancelSale, Reconciles, refundVars
  <2>3. QED
    BY <1>5, <2>1, <2>2 DEF RefundNext, TurnRefunded
<1>6. Total \in Nat
  BY RefundAssumption
<1>7. ~undone' => (Backed => Backed')
  BY <1>1, <1>4, <1>6 DEF Backed
<1>8. SpendInv'
  BY <1>2 DEF SpendInv
<1>9. BackedInv'
  <2>1. SUFFICES ASSUME ~undone'
                 PROVE  /\ \A c \in RefundCalls : Step(c, "flip")' => Backed'
                        /\ sale' = "REFUNDED" => Backed'
    BY DEF BackedInv
  <2>2. /\ \A c \in RefundCalls : Step(c, "flip") => Backed
        /\ sale = "REFUNDED" => Backed
    BY <1>3, <2>1 DEF BackedInv
  <2>3. ASSUME NEW c \in RefundCalls, Step(c, "flip")'
        PROVE  Backed'
    BY <1>2, <1>7, <2>1, <2>2, <2>3 DEF Backed
  <2>4. sale' = "REFUNDED" => Backed'
    BY <1>5, <1>7, <2>1, <2>2
  <2>5. QED
    BY <2>3, <2>4
<1>10. QED
  BY <1>8, <1>9

\* An order is REFUNDED only while the refunds that succeeded cover its total or a row that
\* PaymentsService.refund() inserted is PROCESSING, for any rows, amounts and calls, until a
\* call overwrites a row that had succeeded.
THEOREM RefundCoverage == RefundSpec => []RefundedIsBacked
<1> DEFINE Inv == RefundTypeOK /\ InsertInv /\ DirectInv /\ SpendInv /\ BackedInv
<1>1. RefundInit => Inv
  <2>1. SUFFICES ASSUME RefundInit PROVE InsertInv /\ DirectInv /\ SpendInv /\ BackedInv
    BY RefundInitType
  <2>2. \A c \in RefundCalls : refunding[c].step = "idle"
    BY <2>1 DEF RefundInit, NoFrame, RefundFrame
  <2>3. QED
    BY <2>1, <2>2 DEF RefundInit, InsertInv, DirectInv, SpendInv, BackedInv, Step, Inserters,
                      RowWriters
<1>2. Inv /\ [RefundNext]_refundVars => Inv'
  BY RefundTypeStep, InsertStep, DirectStep, BackedStep
<1>3. Inv => RefundedIsBacked
  BY DEF DirectInv, BackedInv, Backed, RefundedIsBacked
<1>4. QED
  BY <1>1, <1>2, <1>3, PTL DEF RefundSpec

\* The calls at one step on row r.
CallsAt(step, r) == {c \in RefundCalls : Step(c, step) /\ RowOf(c) = r}
Pushing(r) == CallsAt("push", r)
Accepted(r) == CallsAt("accepted", r)

\* A call about to push is one of those that may, and a row the provider has accepted is
\* PENDING only while a call that holds the answer has not recorded it, or has died.
PushInv ==
  \A r \in RefundIds :
    /\ pushes[r] + Cardinality(Pushing(r)) <= refundCrashes + Cardinality(RefundCalls)
    /\ refund[r] = "PENDING" => pushes[r] <= refundCrashes + Cardinality(Accepted(r))
    /\ refund[r] = "none" => pushes[r] = 0 /\ Pushing(r) = {}

LEMMA CallsCounted ==
  ASSUME NEW A \in SUBSET RefundCalls, NEW B \in SUBSET RefundCalls, A \cap B = {}
  PROVE  /\ IsFiniteSet(A) /\ Cardinality(A) \in Nat
         /\ IsFiniteSet(B) /\ Cardinality(B) \in Nat
         /\ Cardinality(A) + Cardinality(B) <= Cardinality(RefundCalls)
         /\ Cardinality(RefundCalls) \in Nat
<1>1. IsFiniteSet(A) /\ IsFiniteSet(B) /\ IsFiniteSet(A \cup B)
  BY RefundAssumption, FS_Subset
<1>2. Cardinality(A \cup B) = Cardinality(A) + Cardinality(B) - Cardinality(A \cap B)
  BY <1>1, FS_Union
<1>3. Cardinality(A \cap B) = 0
  BY FS_EmptySet
<1>4. Cardinality(A \cup B) <= Cardinality(RefundCalls)
  BY RefundAssumption, FS_Subset
<1>5. Cardinality(A) \in Nat /\ Cardinality(B) \in Nat /\ Cardinality(RefundCalls) \in Nat
  BY <1>1, RefundAssumption, FS_CardinalityType
<1>6. QED
  BY <1>1, <1>2, <1>3, <1>4, <1>5

\* One call moves on: it alone may join or leave the calls at a step.
LEMMA CallsMove ==
  ASSUME RefundTypeOK, NEW c \in RefundCalls, RefundStep(c), NEW r \in RefundIds,
         NEW step
  PROVE  /\ CallsAt(step, r)' \subseteq CallsAt(step, r) \cup {c}
         /\ CallsAt(step, r) \subseteq CallsAt(step, r)' \cup {c}
<1>1. \A d \in RefundCalls : d # c => refunding'[d] = refunding[d]
  BY OneRefundCallMoves, ResumeTyped
<1>2. QED
  BY <1>1 DEF CallsAt, Step, RowOf

\* What a step of call c may do about row r: nothing that counts, begin a push of a PENDING
\* row, die, or have the provider accept.
PushQuiet(c, r) ==
  /\ pushes'[r] = pushes[r] /\ refundCrashes' = refundCrashes
  /\ c \in Pushing(r)' => c \in Pushing(r)
  /\ c \in Accepted(r) => c \in Accepted(r)' \/ refund'[r] # "PENDING"
PushBegins(c, r) ==
  /\ pushes'[r] = pushes[r] /\ refundCrashes' = refundCrashes
  /\ refund[r] = "PENDING"
  /\ c \notin Accepted(r)
PushDies(c, r) ==
  /\ pushes'[r] = pushes[r] /\ refundCrashes' = refundCrashes + 1
  /\ c \notin Pushing(r)'
PushLands(c, r) ==
  /\ pushes'[r] = pushes[r] + 1 /\ refundCrashes' = refundCrashes
  /\ c \in Pushing(r) /\ c \notin Pushing(r)'
  /\ c \in Accepted(r)' /\ c \notin Accepted(r)

LEMMA PushEffects ==
  ASSUME RefundTypeOK, NEW c \in RefundCalls, RefundStep(c), NEW r \in RefundIds
  PROVE  PushQuiet(c, r) \/ PushBegins(c, r) \/ PushDies(c, r) \/ PushLands(c, r)
<1> USE DEF RefundTypeOK
<1>0. /\ c \in Pushing(r) <=> Step(c, "push") /\ RowOf(c) = r
      /\ c \in Pushing(r)' <=> Step(c, "push")' /\ RowOf(c)' = r
      /\ c \in Accepted(r) <=> Step(c, "accepted") /\ RowOf(c) = r
      /\ c \in Accepted(r)' <=> Step(c, "accepted")' /\ RowOf(c)' = r
  BY DEF Pushing, Accepted, CallsAt
<1>1. ASSUME NEW q \in RefundIds, NEW step, NEW arg, assertMutable(c, q, step, arg)
      PROVE  PushQuiet(c, r) \/ PushBegins(c, r)
  <2>1. Step(c, "idle") /\ RowOf(c)' = q
    BY <1>1 DEF assertMutable, Resume, RefundFrame, RowOf
  <2>2. c \notin Accepted(r)
    BY <1>0, <2>1 DEF Step
  <2>3. QED
    BY <1>0, <1>1, <2>1, <2>2 DEF assertMutable, PushQuiet, PushBegins
<1>2. ASSUME NEW q \in RefundIds, NEW a, NEW step \in Inserters, AsksRefund(c, step, q, a)
      PROVE  PushQuiet(c, r)
  <2>1. Step(c, "idle") /\ ~Step(c, "push")' /\ pushes' = pushes /\ refundCrashes' = refundCrashes
    BY <1>2 DEF AsksRefund, Resume, RefundFrame, Step, Inserters
  <2>2. QED
    BY <1>0, <2>1 DEF PushQuiet, Step
<1>20. CASE CheckBalance(c) \/ AskProvider(c) \/ BookRefund(c) \/ MarkRefunded(c)
  <2>1. refunding'[c].step \in {"insert", "book", "spend", "flip", "idle"}
    <3>1. \A step : [refunding[c] EXCEPT !.step = step].step = step
      BY <1>20, RefundFrameShape
         DEF RefundFrames, NoFrame, RefundFrame, CheckBalance, AskProvider, BookRefund,
             MarkRefunded, Step
    <3>2. QED
      BY <1>20, <3>1 DEF CheckBalance, AskProvider, BookRefund, MarkRefunded, Resume,
         NoFrame, RefundFrame
  <2>2. /\ Step(c, "balance") \/ Step(c, "repay") \/ Step(c, "book") \/ Step(c, "spend")
        /\ pushes' = pushes /\ refundCrashes' = refundCrashes
    BY <1>20 DEF CheckBalance, AskProvider, BookRefund, MarkRefunded
  <2>3. QED
    BY <1>0, <2>1, <2>2 DEF PushQuiet, Step
<1>3. CASE InsertRefund(c) \/ AmendRefund(c) \/ RemoveRow(c) \/ VoidRefund(c)
  <2>1. /\ Step(c, "insert") \/ Step(c, "amend") \/ Step(c, "remove") \/ Step(c, "void")
        /\ Step(c, "idle")' /\ pushes' = pushes /\ refundCrashes' = refundCrashes
    BY <1>3 DEF InsertRefund, AmendRefund, RemoveRow, VoidRefund, Resume, NoFrame,
                RefundFrame, Step
  <2>2. QED
    BY <1>0, <2>1 DEF PushQuiet, Step
<1>4. CASE ClaimRefund(c) \/ SettleRefund(c) \/ CheckCoverage(c) \/ TurnRefunded(c)
  <2>1. refunding'[c].step \in {"settle", "sum", "flip", "idle"}
    <3>1. \A step : [refunding[c] EXCEPT !.step = step].step = step
      BY <1>4, RefundFrameShape
         DEF RefundFrames, NoFrame, RefundFrame, ClaimRefund, SettleRefund, CheckCoverage,
             TurnRefunded, Step
    <3>2. QED
      BY <1>4, <3>1 DEF ClaimRefund, SettleRefund, CheckCoverage, TurnRefunded, Resume,
         NoFrame, RefundFrame
  <2>2. /\ Step(c, "claim") \/ Step(c, "settle") \/ Step(c, "sum") \/ Step(c, "flip")
        /\ pushes' = pushes /\ refundCrashes' = refundCrashes
    BY <1>4 DEF ClaimRefund, SettleRefund, CheckCoverage, TurnRefunded
  <2>3. QED
    BY <1>0, <2>1, <2>2 DEF PushQuiet, Step
<1>5. CASE PushToProvider(c)
  <2>1. /\ RowOf(c) \in RefundIds /\ Step(c, "push")
        /\ \A step : /\ [refunding[c] EXCEPT !.step = step].step = step
                     /\ [refunding[c] EXCEPT !.step = step].row = RowOf(c)
    BY <1>5, RefundFrameShape DEF PushToProvider, RefundFrames, NoFrame, RefundFrame, Step, RowOf
  <2>2. RowOf(c)' = RowOf(c) /\ refundCrashes' = refundCrashes
    <3>1. \E step : refunding'[c] = [refunding[c] EXCEPT !.step = step]
      BY <1>5 DEF PushToProvider, Resume
    <3>2. QED
      BY <1>5, <2>1, <3>1 DEF PushToProvider, RowOf
  <2>3. \/ Step(c, "accepted")' /\ pushes' = [pushes EXCEPT ![RowOf(c)] = @ + 1]
        \/ Step(c, "void")' /\ pushes' = pushes
    BY <1>5, <2>1 DEF PushToProvider, Resume, Step
  <2>4. QED
    BY <1>0, <2>1, <2>2, <2>3 DEF PushQuiet, PushLands, Step
<1>6. CASE RecordPush(c)
  <2>1. Step(c, "accepted") /\ Step(c, "idle")' /\ pushes' = pushes /\ refundCrashes' = refundCrashes
    BY <1>6 DEF RecordPush, Resume, NoFrame, RefundFrame, Step
  <2>2. RowOf(c) = r => refund'[r] = "PROCESSING"
    BY <1>6 DEF RecordPush, Write
  <2>3. QED
    BY <1>0, <2>1, <2>2 DEF PushQuiet, Step
<1>7. CASE RefundCrash(c)
  BY <1>0, <1>7 DEF RefundCrash, Resume, NoFrame, RefundFrame, Step, PushDies
<1>8. CASE RefundGone(c)
  <2>1. /\ Step(c, "idle")' /\ pushes' = pushes /\ refundCrashes' = refundCrashes
        /\ RowOf(c) = r => refund'[r] # "PENDING"
    BY <1>8 DEF RefundGone, Resume, NoFrame, RefundFrame, Step, Present
  <2>2. QED
    BY <1>0, <2>1 DEF PushQuiet, Step
<1>9. QED
  BY <1>1, <1>2, <1>20, <1>3, <1>4, <1>5, <1>6, <1>7, <1>8
     DEF RefundStep, removeRefund, cancelRefund, processOrderRefund, processPaymentRefund,
         createOrderRefund, createPaymentRefund, updateRefund, refundPayment, Inserters

LEMMA PushMoves ==
  ASSUME RefundTypeOK, RefundTypeOK', PushInv, NEW c \in RefundCalls, RefundStep(c),
         NEW r \in RefundIds
  PROVE  /\ pushes'[r] + Cardinality(Pushing(r)') <= refundCrashes' + Cardinality(RefundCalls)
         /\ refund[r] = "PENDING" /\ refund'[r] = "PENDING"
              => pushes'[r] <= refundCrashes' + Cardinality(Accepted(r)')
<1> DEFINE push == Cardinality(Pushing(r))
           push2 == Cardinality(Pushing(r)')
           acc == Cardinality(Accepted(r))
           acc2 == Cardinality(Accepted(r)')
           all == Cardinality(RefundCalls)
<1>0. /\ Pushing(r) \in SUBSET RefundCalls /\ Pushing(r)' \in SUBSET RefundCalls
      /\ Accepted(r) \in SUBSET RefundCalls /\ Accepted(r)' \in SUBSET RefundCalls
      /\ Pushing(r) \cap Accepted(r) = {} /\ Pushing(r)' \cap Accepted(r)' = {}
  BY DEF Pushing, Accepted, CallsAt, Step
<1>1. /\ push \in Nat /\ acc \in Nat /\ all \in Nat /\ push2 \in Nat /\ acc2 \in Nat
      /\ push + acc <= all /\ push2 + acc2 <= all
  BY <1>0, CallsCounted
<1>2. /\ Pushing(r)' \subseteq Pushing(r) \cup {c}
      /\ Accepted(r) \subseteq Accepted(r)' \cup {c}
  BY CallsMove DEF Pushing, Accepted
<1>3. /\ push2 <= push + 1
      /\ (c \in Pushing(r)' => c \in Pushing(r)) => push2 <= push
      /\ c \in Pushing(r) /\ c \notin Pushing(r)' => push2 + 1 <= push
  <2>1. IsFiniteSet(Pushing(r))
    BY <1>0, CallsCounted
  <2>2. (c \in Pushing(r)' => c \in Pushing(r)) => Pushing(r)' \subseteq Pushing(r)
    BY <1>2
  <2>3. QED
    BY <1>2, <2>1, <2>2, CountMoves
<1>4. /\ acc <= acc2 + 1
      /\ (c \in Accepted(r) => c \in Accepted(r)') => acc <= acc2
      /\ c \in Accepted(r)' /\ c \notin Accepted(r) => acc + 1 <= acc2
  <2>1. IsFiniteSet(Accepted(r)')
    BY <1>0, CallsCounted
  <2>2. (c \in Accepted(r) => c \in Accepted(r)') => Accepted(r) \subseteq Accepted(r)'
    BY <1>2
  <2>3. QED
    BY <1>2, <2>1, <2>2, CountMoves
<1>5. /\ pushes[r] + push <= refundCrashes + all
      /\ refund[r] = "PENDING" => pushes[r] <= refundCrashes + acc
      /\ pushes[r] \in Nat /\ pushes'[r] \in Nat /\ refundCrashes \in Nat /\ refundCrashes' \in Nat
  BY DEF PushInv, RefundTypeOK
<1>6. CASE PushQuiet(c, r)
  BY <1>1, <1>3, <1>4, <1>5, <1>6 DEF PushQuiet
<1>7. CASE PushBegins(c, r)
  BY <1>1, <1>3, <1>4, <1>5, <1>7 DEF PushBegins
<1>8. CASE PushDies(c, r)
  BY <1>1, <1>3, <1>4, <1>5, <1>8 DEF PushDies
<1>9. CASE PushLands(c, r)
  BY <1>1, <1>3, <1>4, <1>5, <1>9 DEF PushLands
<1>10. QED
  BY <1>6, <1>7, <1>8, <1>9, PushEffects

LEMMA PushStep ==
  RefundTypeOK /\ InsertInv /\ PushInv /\ [RefundNext]_refundVars => PushInv'
<1> SUFFICES ASSUME RefundTypeOK, InsertInv, PushInv, [RefundNext]_refundVars,
                    NEW r \in RefundIds
             PROVE  /\ pushes'[r] + Cardinality(Pushing(r)') <= refundCrashes' + Cardinality(RefundCalls)
                    /\ refund'[r] = "PENDING" => pushes'[r] <= refundCrashes' + Cardinality(Accepted(r)')
                    /\ refund'[r] = "none" => pushes'[r] = 0 /\ Pushing(r)' = {}
  BY DEF PushInv
<1>0. RefundTypeOK'
  BY RefundTypeStep
<1>1. CASE UNCHANGED <<refund, pushes, refundCrashes, refunding>>
  <2>1. Pushing(r)' = Pushing(r) /\ Accepted(r)' = Accepted(r)
    BY <1>1 DEF Pushing, Accepted, CallsAt, Step, RowOf
  <2>2. QED
    BY <1>1, <2>1 DEF PushInv
<1>2. ASSUME NEW c \in RefundCalls, RefundStep(c)
      PROVE  /\ pushes'[r] + Cardinality(Pushing(r)') <= refundCrashes' + Cardinality(RefundCalls)
             /\ refund'[r] = "PENDING" => pushes'[r] <= refundCrashes' + Cardinality(Accepted(r)')
             /\ refund'[r] = "none" => pushes'[r] = 0 /\ Pushing(r)' = {}
  <2>1. ASSUME refund'[r] = "PENDING", refund[r] # "PENDING"
        PROVE  pushes'[r] <= refundCrashes' + Cardinality(Accepted(r)')
    <3>1. Step(c, "insert") /\ r = RowOf(c)
      BY <1>2, <2>1, RowsMove
    <3>2. pushes[r] = 0
      BY <3>1 DEF InsertInv, PushInv, Inserters, Step
    <3>3. pushes' = pushes
      BY <1>2, <3>1
         DEF RefundStep, removeRefund, cancelRefund, processOrderRefund, processPaymentRefund,
             createOrderRefund, createPaymentRefund, updateRefund, refundPayment, AsksRefund,
             assertMutable, InsertRefund, AmendRefund, RemoveRow, VoidRefund, ClaimRefund,
             SettleRefund, RecordPush, CheckCoverage, TurnRefunded, CheckBalance, AskProvider,
             BookRefund, MarkRefunded, PushToProvider, RefundCrash, RefundGone, Step
    <3>4. Accepted(r)' \in SUBSET RefundCalls
      BY DEF Accepted, CallsAt
    <3>5. IsFiniteSet(Accepted(r)') /\ Cardinality(Accepted(r)') \in Nat
      BY <3>4, RefundAssumption, FS_Subset, FS_CardinalityType
    <3>6. refundCrashes' \in Nat
      BY <1>0 DEF RefundTypeOK
    <3>7. QED
      BY <3>2, <3>3, <3>5, <3>6
  <2>2. ASSUME refund'[r] = "none"
        PROVE  pushes'[r] = 0 /\ Pushing(r)' = {}
    <3>1. refund[r] = "none"
      BY <1>2, <2>2, RowsMove
    <3>2. pushes[r] = 0 /\ Pushing(r) = {} /\ c \notin Pushing(r)
      BY <3>1 DEF PushInv
    <3>3. PushQuiet(c, r) \/ PushDies(c, r)
      BY <1>2, <3>1, <3>2, PushEffects DEF PushBegins, PushLands
    <3>4. c \notin Pushing(r)' /\ pushes'[r] = pushes[r]
      BY <3>2, <3>3 DEF PushQuiet, PushDies
    <3>5. Pushing(r)' \subseteq Pushing(r) \cup {c}
      BY <1>2, CallsMove DEF Pushing
    <3>6. QED
      BY <3>2, <3>4, <3>5
  <2>3. QED
    BY <1>0, <1>2, <2>1, <2>2, PushMoves
<1>3. QED
  BY <1>1, <1>2 DEF RefundNext, CancelSale, Reconciles, refundVars

\* A row is pushed to the provider at most once per call that overlaps and once per crash,
\* for any rows and amounts: a call that comes later finds the row no longer PENDING.
THEOREM RefundPushes == RefundSpec => []PushesBounded
<1> DEFINE Inv == RefundTypeOK /\ InsertInv /\ PushInv
<1>1. RefundInit => Inv
  <2>1. SUFFICES ASSUME RefundInit PROVE InsertInv /\ PushInv
    BY RefundInitType
  <2>2. \A c \in RefundCalls : refunding[c].step = "idle"
    BY <2>1 DEF RefundInit, NoFrame, RefundFrame
  <2>3. \A r : Pushing(r) = {}
    BY <2>2 DEF Pushing, CallsAt, Step
  <2>4. Cardinality(RefundCalls) \in Nat /\ Cardinality({}) = 0
    BY RefundAssumption, FS_CardinalityType, FS_EmptySet
  <2>5. \A r \in RefundIds : pushes[r] = 0 /\ refund[r] = "none" /\ refundCrashes = 0
    BY <2>1 DEF RefundInit
  <2>6. QED
    BY <2>2, <2>3, <2>4, <2>5 DEF InsertInv, PushInv, Step, Inserters
<1>2. Inv /\ [RefundNext]_refundVars => Inv'
  BY RefundTypeStep, InsertStep, PushStep
<1>3. Inv => PushesBounded
  <2>1. SUFFICES ASSUME Inv, NEW r \in RefundIds
                 PROVE  pushes[r] <= Cardinality(RefundCalls) + refundCrashes
    BY DEF PushesBounded
  <2>2. Pushing(r) \subseteq RefundCalls
    BY DEF Pushing, CallsAt
  <2>3. Cardinality(Pushing(r)) \in Nat /\ Cardinality(RefundCalls) \in Nat
    BY <2>2, RefundAssumption, FS_Subset, FS_CardinalityType
  <2>4. pushes[r] \in Nat /\ refundCrashes \in Nat
    BY <2>1 DEF RefundTypeOK
  <2>5. QED
    BY <2>1, <2>3, <2>4 DEF PushInv
<1>4. QED
  BY <1>1, <1>2, <1>3, PTL DEF RefundSpec

-----------------------------------------------------------------------------
(* Line items and the stock they hold.                                     *)

\* What the frame of a change or an adjustment carries to its write.
ItemFrameInv ==
  \A c \in ItemCalls :
    /\ call[c].step \in {"balance", "write"} =>
         call[c].line \in Lines /\ call[c].to \in 0 .. MaxQuantity
    /\ call[c].step = "adjust" => call[c].to \in 0 .. MaxShelf

ItemFrames == [step : {"idle", "balance", "write", "sum", "total", "adjust"},
               line : Lines \cup {NoLine}, was : Nat, to : Nat]

LEMMA SumOfLines ==
  ASSUME NEW qty \in [Lines -> 0 .. MaxQuantity]
  PROVE  SumOf(qty) \in Nat /\ IntOn(qty, Lines)
<1>1. \A l \in Lines : qty[l] \in Nat /\ qty[l] \in Int /\ qty[l] <= qty[l]
  BY ItemAssumption
<1>2. NatOn(qty, Lines) /\ IntOn(qty, Lines) /\ IsFiniteSet(Lines) /\ Lines \in SUBSET Lines
  BY <1>1, ItemAssumption DEF NatOn, IntOn
<1>3. SumFunctionOnSet(qty, Lines) \in Nat
  BY <1>1, <1>2, SumMonotone
<1>4. QED
  BY <1>2, <1>3 DEF SumOf

LEMMA Counted ==
  ASSUME ItemTypeOK, NEW units \in Int, NEW tangles \in BOOLEAN, Count(units, tangles)
  PROVE  /\ elsewhere' \in Int /\ entangled' \in BOOLEAN
         /\ ~entangled' => ~entangled /\ ~tangles /\ elsewhere' = elsewhere + units
<1>1. entangled \in BOOLEAN /\ entangled' = (entangled \/ tangles) /\ elsewhere \in Int
  BY DEF ItemTypeOK, Count
<1>2. entangled' \in BOOLEAN /\ (~entangled' => ~entangled /\ ~tangles)
  BY <1>1, Zenon
<1>3. elsewhere' = IF entangled' THEN 0 ELSE elsewhere + units
  BY DEF Count
<1>4. QED
  BY <1>1, <1>2, <1>3

LEMMA ProceedTyped ==
  ASSUME ItemTypeOK, ItemFrameInv, NEW c \in ItemCalls, NEW frame \in ItemFrames,
         Proceed(c, frame),
         frame.step \in {"balance", "write"} => frame.line \in Lines /\ frame.to \in 0 .. MaxQuantity,
         frame.step = "adjust" => frame.to \in 0 .. MaxShelf
  PROVE  /\ call' \in [ItemCalls -> ItemFrames]
         /\ call'[c] = frame /\ \A d \in ItemCalls : d # c => call'[d] = call[d]
         /\ ItemFrameInv'
<1>1. call \in [ItemCalls -> ItemFrames]
  BY DEF ItemTypeOK, ItemFrames
<1>2. call' \in [ItemCalls -> ItemFrames] /\ call'[c] = frame
      /\ \A d \in ItemCalls : d # c => call'[d] = call[d]
  BY <1>1 DEF Proceed
<1>3. QED
  BY <1>2 DEF ItemFrameInv

LEMMA FramesOfItems ==
  ASSUME ItemTypeOK
  PROVE  /\ NoItemCall \in ItemFrames /\ NoItemCall.step = "idle"
         /\ \A c \in ItemCalls : /\ call[c] \in ItemFrames
                                 /\ \A step \in {"write", "sum"} :
                                      /\ [call[c] EXCEPT !.step = step] \in ItemFrames
                                      /\ [call[c] EXCEPT !.step = step].step = step
                                      /\ [call[c] EXCEPT !.step = step].line = call[c].line
                                      /\ [call[c] EXCEPT !.step = step].was = call[c].was
                                      /\ [call[c] EXCEPT !.step = step].to = call[c].to
<1>1. \A c \in ItemCalls : call[c] \in ItemFrames
  BY DEF ItemTypeOK, ItemFrames
<1>2. QED
  BY <1>1 DEF ItemFrames, NoItemCall, ItemFrame

\* Every step keeps rows, counts and frames typed.
LEMMA ItemTypeStep ==
  ItemTypeOK /\ ItemFrameInv /\ [ItemNext]_itemVars => ItemTypeOK' /\ ItemFrameInv'
<1> SUFFICES ASSUME ItemTypeOK, ItemFrameInv, [ItemNext]_itemVars
             PROVE  ItemTypeOK' /\ ItemFrameInv'
  OBVIOUS
<1> USE ItemAssumption
<1>0. /\ shelf \in 0 .. MaxShelf /\ quantity \in [Lines -> 0 .. MaxQuantity] /\ total \in Nat
      /\ fate \in {"live", "cancelled", "restocked"}
      /\ elsewhere \in Int /\ entangled \in BOOLEAN /\ itemCrashes \in 0 .. MaxItemCrashes
      /\ SumOf(quantity) \in Nat /\ call \in [ItemCalls -> ItemFrames]
  BY SumOfLines DEF ItemTypeOK, ItemFrames
<1>a. ASSUME shelf' \in 0 .. MaxShelf, quantity' \in [Lines -> 0 .. MaxQuantity], total' \in Nat,
             fate' \in {"live", "cancelled", "restocked"},
             elsewhere' \in Int, entangled' \in BOOLEAN, itemCrashes' \in 0 .. MaxItemCrashes,
             call' \in [ItemCalls -> ItemFrames], ItemFrameInv'
      PROVE  ItemTypeOK' /\ ItemFrameInv'
  BY <1>a DEF ItemTypeOK, ItemFrames
<1>b. call' = call => ItemFrameInv' /\ call' \in [ItemCalls -> ItemFrames]
  BY <1>0 DEF ItemFrameInv
<1>1. CASE UNCHANGED itemVars
  BY <1>0, <1>a, <1>b, <1>1 DEF itemVars
<1>2. CASE CancelOrder
  <2>1. Busy \in BOOLEAN /\ 0 \in Int
    BY DEF Busy
  <2>2. elsewhere' \in Int /\ entangled' \in BOOLEAN
    BY <1>2, <2>1, Counted DEF CancelOrder
  <2>3. QED
    BY <1>0, <1>a, <1>b, <1>2, <2>2 DEF CancelOrder
<1>3. CASE restoreStock
  BY <1>0, <1>a, <1>b, <1>3 DEF restoreStock, Stocked
<1>4. ASSUME NEW units \in Int, OtherOrder(units)
      PROVE  ItemTypeOK' /\ ItemFrameInv'
  <2>1. elsewhere' \in Int /\ entangled' \in BOOLEAN
    BY <1>4, Counted DEF OtherOrder
  <2>2. QED
    BY <1>0, <1>a, <1>b, <1>4, <2>1 DEF OtherOrder, Stocked
<1>5. ASSUME NEW c \in ItemCalls, ItemStep(c)
      PROVE  ItemTypeOK' /\ ItemFrameInv'
  <2>1. ASSUME NEW l \in Lines, NEW to \in 0 .. MaxQuantity, BeginItem(c, l, to)
        PROVE  ItemTypeOK' /\ ItemFrameInv'
    <3> DEFINE frame == ItemFrame(IF to = quantity[l] THEN "write" ELSE "balance", l, quantity[l], to)
    <3>1. quantity[l] \in Nat /\ to \in Nat
      BY <1>0
    <3>2. frame \in ItemFrames /\ frame.line \in Lines /\ frame.to \in 0 .. MaxQuantity
          /\ frame.step # "adjust"
      BY <3>1 DEF ItemFrame, ItemFrames
    <3> HIDE DEF frame
    <3>3. Proceed(c, frame)
      BY <2>1 DEF BeginItem, frame
    <3>4. call' \in [ItemCalls -> ItemFrames] /\ ItemFrameInv'
      BY <3>2, <3>3, ProceedTyped
    <3>5. (Busy \/ fate # "live") \in BOOLEAN /\ 0 \in Int
      BY DEF Busy
    <3>6. elsewhere' \in Int /\ entangled' \in BOOLEAN
      BY <2>1, <3>5, Counted DEF BeginItem
    <3>7. QED
      BY <1>0, <1>a, <2>1, <3>4, <3>6 DEF BeginItem
  <2>2. ASSUME NEW target \in 0 .. MaxShelf, adjust(c, target)
        PROVE  ItemTypeOK' /\ ItemFrameInv'
    <3> DEFINE frame == ItemFrame("adjust", NoLine, shelf, target)
    <3>1. frame \in ItemFrames /\ frame.step = "adjust" /\ frame.to = target
      BY <1>0 DEF ItemFrame, ItemFrames
    <3> HIDE DEF frame
    <3>2. Proceed(c, frame)
      BY <2>2 DEF adjust, frame
    <3>3. call' \in [ItemCalls -> ItemFrames] /\ ItemFrameInv'
      BY <3>1, <3>2, ProceedTyped
    <3>4. QED
      BY <1>0, <1>a, <2>2, <3>3 DEF adjust
  <2>3. CASE rebalanceStock(c)
    <3>1. call[c].line \in Lines /\ call[c].to \in 0 .. MaxQuantity
      BY <2>3 DEF rebalanceStock, CallStep, ItemFrameInv
    <3>2. call' \in [ItemCalls -> ItemFrames] /\ ItemFrameInv'
      BY <2>3, <3>1, FramesOfItems, ProceedTyped DEF rebalanceStock, NextStep
    <3>3. QED
      BY <1>0, <1>a, <2>3, <3>2 DEF rebalanceStock, Stocked
  <2>4. ASSUME Proceed(c, NoItemCall)
        PROVE  call' \in [ItemCalls -> ItemFrames] /\ ItemFrameInv'
    BY <2>4, FramesOfItems, ProceedTyped
  <2>5. CASE InsufficientStock(c)
    BY <1>0, <1>a, <2>4, <2>5 DEF InsufficientStock
  <2>6. CASE WriteLine(c)
    <3>1. call[c].line \in Lines /\ call[c].to \in 0 .. MaxQuantity
      BY <2>6 DEF WriteLine, CallStep, ItemFrameInv
    <3>2. CASE quantity[call[c].line] > 0
      <4>1. call' \in [ItemCalls -> ItemFrames] /\ ItemFrameInv'
        BY <2>6, <3>2, FramesOfItems, ProceedTyped DEF WriteLine, NextStep
      <4>2. quantity' \in [Lines -> 0 .. MaxQuantity]
        BY <1>0, <2>6, <3>1, <3>2 DEF WriteLine
      <4>3. QED
        BY <1>0, <1>a, <2>6, <4>1, <4>2 DEF WriteLine
    <3>3. CASE ~(quantity[call[c].line] > 0)
      BY <1>0, <1>a, <2>4, <2>6, <3>3 DEF WriteLine
    <3>4. QED
      BY <3>2, <3>3
  <2>7. CASE ReadLines(c)
    <3>1. ItemFrame("total", NoLine, 0, SumOf(quantity)) \in ItemFrames
          /\ ItemFrame("total", NoLine, 0, SumOf(quantity)).step = "total"
      BY <1>0 DEF ItemFrame, ItemFrames
    <3>2. call' \in [ItemCalls -> ItemFrames] /\ ItemFrameInv'
      BY <2>7, <3>1, ProceedTyped DEF ReadLines
    <3>3. QED
      BY <1>0, <1>a, <2>7, <3>2 DEF ReadLines
  <2>8. CASE recalcTotals(c)
    <3>1. call[c].to \in Nat
      BY <1>0 DEF ItemFrames
    <3>2. QED
      BY <1>0, <1>a, <2>4, <2>8, <3>1 DEF recalcTotals
  <2>9. CASE WriteTarget(c)
    <3>1. call[c].to \in 0 .. MaxShelf /\ call[c].was \in Nat
      BY <1>0, <2>9 DEF WriteTarget, CallStep, ItemFrameInv, ItemFrames
    <3>2. (call[c].was - call[c].to) \in Int /\ (shelf # call[c].was) \in BOOLEAN
      BY <3>1
    <3>3. elsewhere' \in Int /\ entangled' \in BOOLEAN
      BY <2>9, <3>2, Counted DEF WriteTarget
    <3>4. QED
      BY <1>0, <1>a, <2>4, <2>9, <3>1, <3>3 DEF WriteTarget
  <2>10. CASE ItemCrash(c)
    <3>1. TRUE \in BOOLEAN /\ 0 \in Int
      OBVIOUS
    <3>2. elsewhere' \in Int /\ entangled' \in BOOLEAN
      BY <2>10, <3>1, Counted DEF ItemCrash
    <3>3. itemCrashes' \in 0 .. MaxItemCrashes
      BY <1>0, <2>10 DEF ItemCrash
    <3>4. QED
      BY <1>0, <1>a, <2>4, <2>10, <3>2, <3>3 DEF ItemCrash
  <2>11. 0 \in 0 .. MaxQuantity /\ 1 .. MaxQuantity \subseteq 0 .. MaxQuantity
    OBVIOUS
  <2>12. QED
    BY <1>5, <2>1, <2>2, <2>3, <2>5, <2>6, <2>7, <2>8, <2>9, <2>10, <2>11
       DEF ItemStep, updateItem, removeItem
<1>6. 1 \in Int /\ -1 \in Int
  OBVIOUS
<1>7. QED
  BY <1>1, <1>2, <1>3, <1>4, <1>5, <1>6 DEF ItemNext

LEMMA ItemInitType == ItemInit => ItemTypeOK /\ ItemFrameInv
<1> SUFFICES ASSUME ItemInit PROVE ItemTypeOK /\ ItemFrameInv
  OBVIOUS
<1>1. quantity \in [Lines -> 0 .. MaxQuantity] /\ shelf \in 0 .. MaxShelf
      /\ itemCrashes \in 0 .. MaxItemCrashes
  BY ItemAssumption DEF ItemInit
<1>2. total \in Nat
  BY <1>1, SumOfLines DEF ItemInit
<1>3. call \in [ItemCalls -> ItemFrames] /\ ItemFrameInv
  BY DEF ItemInit, NoItemCall, ItemFrame, ItemFrames, ItemFrameInv
<1>4. elsewhere \in Int /\ fate \in {"live", "cancelled", "restocked"}
  BY DEF ItemInit
<1>5. entangled \in BOOLEAN
  BY Zenon DEF ItemInit
<1>6. QED
  BY <1>1, <1>2, <1>3, <1>4, <1>5 DEF ItemTypeOK, ItemFrames

\* Quantities, counts and frames keep their types; stock stays on the shelf's range.
THEOREM ItemTypeCorrect == ItemSpec => []ItemTypeOK
<1>1. ItemTypeOK /\ ItemFrameInv /\ [ItemNext]_itemVars => (ItemTypeOK /\ ItemFrameInv)'
  BY ItemTypeStep
<1>2. QED
  BY <1>1, ItemInitType, PTL DEF ItemSpec

\* Shelf, units held by the lines and units elsewhere make the supply.
Ledger(held) == shelf + elsewhere + held = MaxShelf + Cardinality(Lines)
HeldUnits == IF fate = "restocked" THEN 0 ELSE SumOf(quantity)
Changing(c) == call[c].step \notin {"idle", "adjust"}

\* A change at work on a live order, statement by statement: between the move of the stock
\* and the write of the line the ledger is off by the difference, and the total is off
\* until the last write.
ChangeInv ==
  ~entangled =>
    /\ \A c, d \in ItemCalls : Changing(c) /\ Changing(d) => c = d
    /\ \A c \in ItemCalls :
         /\ Changing(c) => fate = "live"
         /\ call[c].step \in {"balance", "write"} =>
              /\ call[c].was = quantity[call[c].line] /\ call[c].was > 0
              /\ total = SumOf(quantity)
         /\ call[c].step = "balance" => Ledger(SumOf(quantity))
         /\ call[c].step = "write" => Ledger(SumOf(quantity) + (call[c].to - call[c].was))
         /\ call[c].step \in {"sum", "total"} => Ledger(SumOf(quantity))
         /\ call[c].step = "total" => call[c].to = SumOf(quantity)
    /\ ~Busy => total = SumOf(quantity) /\ Ledger(HeldUnits)

LEMMA ChangeStep ==
  ItemTypeOK /\ ItemFrameInv /\ ChangeInv /\ [ItemNext]_itemVars => ChangeInv'
<1> SUFFICES ASSUME ItemTypeOK, ItemFrameInv, ChangeInv, [ItemNext]_itemVars, ~entangled'
             PROVE  ChangeInv'
  BY DEF ChangeInv
<1> DEFINE S == SumOf(quantity)
           all == MaxShelf + Cardinality(Lines)
<1>0. /\ shelf \in Nat /\ quantity \in [Lines -> 0 .. MaxQuantity] /\ total \in Nat
      /\ elsewhere \in Int /\ S \in Nat /\ all \in Int
      /\ \A l \in Lines : quantity[l] \in Nat
      /\ \A c \in ItemCalls : call[c] \in ItemFrames /\ call[c].was \in Nat /\ call[c].to \in Nat
  <2>1. Cardinality(Lines) \in Nat
    BY ItemAssumption, FS_CardinalityType
  <2>2. quantity \in [Lines -> 0 .. MaxQuantity]
    BY DEF ItemTypeOK
  <2>3. S \in Nat
    BY <2>2, SumOfLines
  <2>4. \A c \in ItemCalls : call[c] \in ItemFrames
    BY FramesOfItems
  <2>5. QED
    BY <2>1, <2>2, <2>3, <2>4, ItemAssumption DEF ItemTypeOK, ItemFrames
<1>00. /\ Busy <=> \E c \in ItemCalls : Changing(c)
       /\ Busy' <=> \E c \in ItemCalls : Changing(c)'
  BY DEF Busy, Changing
\* A step that moves no unit of this order and no frame.
<1>a. ASSUME UNCHANGED <<quantity, total, call>>, ~entangled,
             shelf' + elsewhere' = shelf + elsewhere,
             fate' = fate \/ (fate = "live" /\ fate' = "cancelled" /\ ~Busy),
             shelf' \in Nat, elsewhere' \in Int
      PROVE  ChangeInv'
  <2>1. \A h \in Int : Ledger(h) => Ledger(h)'
    BY <1>a, <1>0 DEF Ledger
  <2>2. HeldUnits' = HeldUnits /\ HeldUnits \in Int
    BY <1>a, <1>0 DEF HeldUnits
  <2>3. \A c \in ItemCalls : SumOf(quantity) + (call[c].to - call[c].was) \in Int
    BY <1>0
  <2>4. \A c \in ItemCalls : Changing(c)' <=> Changing(c)
    BY <1>a DEF Changing
  <2>5. \A c \in ItemCalls : Changing(c)' => fate' = "live"
    BY <1>00, <1>a, <2>4 DEF ChangeInv
  <2>6. QED
    BY <1>a, <1>0, <1>00, <2>1, <2>2, <2>3, <2>4, <2>5 DEF ChangeInv
\* The change of c ends, or an adjustment begins or ends, with the accounts in order.
<1>b. ASSUME NEW c \in ItemCalls, NEW frame, frame.step \in {"idle", "adjust"},
             call'[c] = frame, \A d \in ItemCalls : d # c => call'[d] = call[d],
             ~entangled, fate' = fate, quantity' = quantity,
             shelf' + elsewhere' = shelf + elsewhere, shelf' \in Nat, elsewhere' \in Int,
             Changing(c) => total' = S /\ Ledger(S),
             ~Changing(c) => total' = total
      PROVE  ChangeInv'
  <2>1. \A h \in Int : Ledger(h) => Ledger(h)'
    BY <1>b, <1>0 DEF Ledger
  <2>2. ~Changing(c)' /\ \A d \in ItemCalls : d # c => (Changing(d)' <=> Changing(d))
    BY <1>b DEF Changing
  <2>3. S' = S /\ HeldUnits' = HeldUnits /\ HeldUnits \in Int
    BY <1>b, <1>0 DEF HeldUnits
  <2>4. CASE Changing(c)
    <3>1. \A d \in ItemCalls : ~Changing(d)'
      BY <1>b, <2>2, <2>4 DEF ChangeInv
    <3>2. HeldUnits = S /\ fate = "live"
      BY <1>b, <2>4 DEF ChangeInv, HeldUnits
    <3>3. total' = S' /\ Ledger(HeldUnits)'
      BY <1>b, <1>0, <2>1, <2>3, <2>4, <3>2
    <3>4. QED
      BY <3>1, <3>3 DEF ChangeInv, Changing
  <2>5. CASE ~Changing(c)
    <3>1. Busy' <=> Busy
      BY <1>00, <2>2, <2>5
    <3>2. \A d \in ItemCalls : Changing(d)' => d # c /\ call'[d] = call[d] /\ Changing(d)
      BY <1>b, <2>2
    <3>3. \A d \in ItemCalls : S + (call[d].to - call[d].was) \in Int
      BY <1>0
    <3>4. \A d \in ItemCalls : call'[d].step \in {"balance", "write", "sum", "total"} => Changing(d)'
      BY DEF Changing
    <3>5. total' = total
      BY <1>b, <2>5
    <3> HIDE DEF S
    <3>6. /\ \A x, y \in ItemCalls : Changing(x)' /\ Changing(y)' => x = y
          /\ ~Busy' => total' = S' /\ Ledger(HeldUnits)'
      BY <1>b, <2>1, <2>3, <3>1, <3>2, <3>5 DEF ChangeInv, S
    <3>7. ASSUME NEW d \in ItemCalls, Changing(d)'
          PROVE  /\ fate' = "live"
                 /\ call'[d].step \in {"balance", "write"} =>
                      /\ call'[d].was = quantity'[call'[d].line] /\ call'[d].was > 0
                      /\ total' = S'
                 /\ call'[d].step = "balance" => Ledger(S)'
                 /\ call'[d].step = "write" => Ledger(S + (call[d].to - call[d].was))'
                 /\ call'[d].step \in {"sum", "total"} => Ledger(S)'
                 /\ call'[d].step = "total" => call'[d].to = S'
      <4>1. call'[d] = call[d] /\ Changing(d)
        BY <3>2, <3>7
      <4>2. S \in Int /\ S + (call[d].to - call[d].was) \in Int
        BY <1>0, <3>3 DEF S
      <4>3. /\ call[d].step = "balance" => Ledger(S)
            /\ call[d].step = "write" => Ledger(S + (call[d].to - call[d].was))
            /\ call[d].step \in {"sum", "total"} => Ledger(S)
        BY <1>b, <4>1 DEF ChangeInv, S
      <4>4. QED
        BY <1>b, <2>1, <2>3, <3>5, <4>1, <4>2, <4>3 DEF ChangeInv, S
    <3>8. QED
      BY <3>4, <3>6, <3>7 DEF ChangeInv, S
  <2>6. QED
    BY <2>4, <2>5
\* The only change at work is c's, and its frame is in order.
<1>c. ASSUME NEW c \in ItemCalls, Changing(c)', \A d \in ItemCalls : d # c => ~Changing(d)',
             fate' = "live",
             call'[c].step \in {"balance", "write"} =>
               /\ call'[c].was = quantity'[call'[c].line] /\ call'[c].was > 0
               /\ total' = S',
             call'[c].step = "write" => Ledger(S + (call[c].to - call[c].was))',
             call'[c].step # "write" => Ledger(S)',
             call'[c].step = "total" => call'[c].to = S'
      PROVE  ChangeInv'
  BY <1>c, <1>00 DEF ChangeInv, Changing
<1>1. CASE UNCHANGED itemVars
  BY <1>a, <1>0, <1>1 DEF itemVars, ItemTypeOK
<1>2. CASE CancelOrder
  <2>1. (Busy \in BOOLEAN) /\ 0 \in Int
    BY DEF Busy
  <2>2. ~entangled /\ ~Busy /\ elsewhere' = elsewhere + 0
    BY <1>2, <2>1, Counted DEF CancelOrder
  <2>3. QED
    BY <1>a, <1>0, <1>2, <2>2 DEF CancelOrder
<1>3. CASE restoreStock
  <2>1. ~entangled /\ \A c \in ItemCalls : ~Changing(c)
    BY <1>3 DEF restoreStock, ChangeInv
  <2>2. ~Busy /\ \A c \in ItemCalls : ~Changing(c)'
    BY <1>00, <1>3, <2>1 DEF restoreStock, Changing
  <2>3. total = S /\ Ledger(S)
    BY <1>3, <2>1, <2>2 DEF ChangeInv, HeldUnits, restoreStock
  <2>4. total' = SumOf(quantity)'
    BY <1>3, <2>3 DEF restoreStock
  <2>5. Ledger(HeldUnits)'
    BY <1>0, <1>3, <2>3 DEF restoreStock, Ledger, HeldUnits
  <2>6. QED
    BY <2>2, <2>4, <2>5 DEF ChangeInv, Changing
<1>4. ASSUME NEW units \in Int, OtherOrder(units)
      PROVE  ChangeInv'
  <2>1. ~entangled /\ elsewhere' = elsewhere + units /\ elsewhere' \in Int
    BY <1>4, Counted DEF OtherOrder
  <2>2. shelf' = shelf - units /\ shelf' \in Nat
    BY <1>4, ItemAssumption DEF OtherOrder, Stocked
  <2>3. shelf' + elsewhere' = shelf + elsewhere
    BY <1>0, <2>1, <2>2
  <2>4. QED
    BY <1>4, <1>a, <2>1, <2>2, <2>3 DEF OtherOrder
<1>5. ASSUME NEW c \in ItemCalls, ItemStep(c)
      PROVE  ChangeInv'
  <2>0. ASSUME NEW frame, Proceed(c, frame)
        PROVE  call'[c] = frame /\ \A d \in ItemCalls : d # c => call'[d] = call[d]
    BY <2>0 DEF Proceed, ItemTypeOK
  <2>a. ASSUME Changing(c), ~entangled
        PROVE  /\ fate = "live"
               /\ \A d \in ItemCalls : d # c => ~Changing(d)
    BY <2>a DEF ChangeInv
  <2>1. ASSUME NEW l \in Lines, NEW to \in 0 .. MaxQuantity, BeginItem(c, l, to)
        PROVE  ChangeInv'
    <3> DEFINE frame == ItemFrame(IF to = quantity[l] THEN "write" ELSE "balance", l, quantity[l], to)
    <3>1. (Busy \/ fate # "live") \in BOOLEAN /\ 0 \in Int
      BY DEF Busy
    <3>2. ~entangled /\ ~Busy /\ fate = "live" /\ elsewhere' = elsewhere + 0
      BY <2>1, <3>1, Counted DEF BeginItem
    <3>3. call'[c] = frame /\ \A d \in ItemCalls : d # c => call'[d] = call[d]
      BY <2>0, <2>1 DEF BeginItem
    <3>4. total = S /\ Ledger(S) /\ quantity[l] > 0 /\ quantity[l] \in Nat /\ to \in Int
      BY <1>0, <2>1, <3>2, ItemAssumption DEF ChangeInv, HeldUnits, BeginItem, LinesLeft
    <3>5. /\ call'[c].step \in {"balance", "write"} /\ call'[c].line = l
          /\ call'[c].was = quantity[l] /\ call'[c].to = to
          /\ call'[c].step = "write" => to = quantity[l]
      BY <3>3 DEF ItemFrame
    <3>6. Changing(c)' /\ \A d \in ItemCalls : d # c => ~Changing(d)'
      BY <1>00, <3>2, <3>3, <3>5 DEF Changing
    <3>7. UNCHANGED <<shelf, quantity, total, fate>>
      BY <2>1 DEF BeginItem
    <3>8. Ledger(S)' /\ S' = S /\ S + (quantity[l] - quantity[l]) = S
      BY <1>0, <3>2, <3>4, <3>7 DEF Ledger
    <3>9. call'[c].step = "write" => Ledger(S + (call[c].to - call[c].was))'
      BY <1>0, <3>4, <3>5, <3>8 DEF Ledger
    <3> HIDE DEF frame, S
    <3>10. QED
      BY <1>c, <3>2, <3>4, <3>5, <3>6, <3>7, <3>8, <3>9
  <2>2. ASSUME NEW target \in 0 .. MaxShelf, adjust(c, target)
        PROVE  ChangeInv'
    <3>1. ItemFrame("adjust", NoLine, shelf, target).step = "adjust"
      BY DEF ItemFrame
    <3>2. ~Changing(c)
      BY <2>2 DEF adjust, NoItemCall, ItemFrame, Changing
    <3>3. UNCHANGED <<shelf, quantity, total, fate, elsewhere, entangled>>
          /\ Proceed(c, ItemFrame("adjust", NoLine, shelf, target))
      BY <2>2 DEF adjust
    <3>4. QED
      BY <1>0, <1>b, <2>0, <3>1, <3>2, <3>3
  <2>3. CASE rebalanceStock(c)
    <3>1. call'[c] = [call[c] EXCEPT !.step = "write"]
          /\ \A d \in ItemCalls : d # c => call'[d] = call[d]
      BY <2>0, <2>3 DEF rebalanceStock, NextStep
    <3>2. /\ call'[c].step = "write" /\ call'[c].line = call[c].line
          /\ call'[c].was = call[c].was /\ call'[c].to = call[c].to
      BY <3>1, FramesOfItems
    <3>3. /\ Changing(c) /\ call[c].step = "balance"
          /\ UNCHANGED <<quantity, total, fate, elsewhere, entangled>>
          /\ shelf' = shelf - (call[c].to - call[c].was)
      BY <2>3 DEF rebalanceStock, CallStep, Changing
    <3>4. /\ call[c].was = quantity[call[c].line] /\ call[c].was > 0 /\ total = S /\ Ledger(S)
      BY <3>3 DEF ChangeInv
    <3>5. Changing(c)' /\ \A d \in ItemCalls : d # c => ~Changing(d)'
      BY <2>a, <3>1, <3>2, <3>3 DEF Changing
    <3>6. call[c].to \in Int /\ call[c].was \in Int
      BY <1>0
    <3>7. Ledger(S + (call[c].to - call[c].was))'
      BY <1>0, <3>2, <3>3, <3>4, <3>6 DEF Ledger
    <3>8. fate' = "live" /\ total' = S' /\ call'[c].was = quantity'[call'[c].line]
      BY <2>a, <3>2, <3>3, <3>4
    <3> HIDE DEF S
    <3>9. QED
      BY <1>c, <3>2, <3>4, <3>5, <3>7, <3>8
  <2>b. ASSUME Proceed(c, NoItemCall), ~entangled, fate' = fate, quantity' = quantity,
               shelf' + elsewhere' = shelf + elsewhere, shelf' \in Nat, elsewhere' \in Int,
               Changing(c) => total' = S /\ Ledger(S),
               ~Changing(c) => total' = total
        PROVE  ChangeInv'
    <3>1. NoItemCall.step \in {"idle", "adjust"}
      BY FramesOfItems
    <3>2. QED
      BY <1>b, <2>0, <2>b, <3>1
  <2>4. CASE InsufficientStock(c)
    <3>1. Changing(c) /\ call[c].step = "balance" /\ UNCHANGED <<shelf, quantity, total, fate, elsewhere, entangled>>
      BY <2>4 DEF InsufficientStock, CallStep, Changing
    <3>2. total = S /\ Ledger(S)
      BY <3>1 DEF ChangeInv
    <3>3. QED
      BY <1>0, <2>4, <2>b, <3>1, <3>2 DEF InsufficientStock
  <2>5. CASE WriteLine(c)
    <3>1. /\ Changing(c) /\ call[c].step = "write"
          /\ UNCHANGED <<shelf, total, fate, elsewhere, entangled>>
      BY <2>5 DEF WriteLine, CallStep, Changing
    <3>2. /\ call[c].was = quantity[call[c].line] /\ call[c].was > 0
          /\ Ledger(S + (call[c].to - call[c].was))
          /\ call[c].line \in Lines /\ call[c].to \in 0 .. MaxQuantity
      BY <3>1 DEF ChangeInv, ItemFrameInv
    <3>3. /\ quantity' = [quantity EXCEPT ![call[c].line] = call[c].to]
          /\ NextStep(c, "sum")
      BY <2>5, <3>2 DEF WriteLine
    <3>4. S' = S + (call[c].to - call[c].was) /\ S' \in Nat
      <4>1. quantity' \in [Lines -> 0 .. MaxQuantity]
        BY <1>0, <3>2, <3>3
      <4>2. /\ IntOn(quantity, Lines) /\ IntOn(quantity', Lines) /\ S' \in Nat
            /\ \A l \in Lines : l # call[c].line => quantity'[l] = quantity[l]
            /\ quantity'[call[c].line] = call[c].to
        BY <1>0, <3>2, <3>3, <4>1, SumOfLines
      <4>3. IsFiniteSet(Lines)
        BY ItemAssumption
      <4>4. QED
        BY <3>2, <4>2, <4>3, SumMoves DEF SumOf
    <3>5. call'[c] = [call[c] EXCEPT !.step = "sum"]
          /\ \A d \in ItemCalls : d # c => call'[d] = call[d]
      BY <2>0, <3>3 DEF NextStep
    <3>6. call'[c].step = "sum"
      BY <3>5, FramesOfItems
    <3>7. Changing(c)' /\ (\A d \in ItemCalls : d # c => ~Changing(d)') /\ fate' = "live"
      BY <2>a, <3>1, <3>5, <3>6 DEF Changing
    <3>8. Ledger(S)'
      BY <3>1, <3>2, <3>4 DEF Ledger
    <3> HIDE DEF S
    <3>9. QED
      BY <1>c, <3>6, <3>7, <3>8
  <2>6. CASE ReadLines(c)
    <3>1. /\ Changing(c) /\ call[c].step = "sum"
          /\ UNCHANGED <<shelf, quantity, total, fate, elsewhere, entangled>>
      BY <2>6 DEF ReadLines, CallStep, Changing
    <3>2. Ledger(S)
      BY <3>1 DEF ChangeInv
    <3>3. /\ call'[c] = ItemFrame("total", NoLine, 0, S)
          /\ \A d \in ItemCalls : d # c => call'[d] = call[d]
      BY <2>0, <2>6 DEF ReadLines
    <3>4. call'[c].step = "total" /\ call'[c].to = S
      BY <3>3 DEF ItemFrame
    <3>5. Changing(c)' /\ (\A d \in ItemCalls : d # c => ~Changing(d)') /\ fate' = "live"
      BY <2>a, <3>1, <3>3, <3>4 DEF Changing
    <3>6. Ledger(S)' /\ S' = S
      BY <3>1, <3>2 DEF Ledger
    <3> HIDE DEF S
    <3>7. QED
      BY <1>c, <3>4, <3>5, <3>6
  <2>7. CASE recalcTotals(c)
    <3>1. /\ Changing(c) /\ call[c].step = "total" /\ total' = call[c].to
          /\ UNCHANGED <<shelf, quantity, fate, elsewhere, entangled>>
      BY <2>7 DEF recalcTotals, CallStep, Changing
    <3>2. Ledger(S) /\ call[c].to = S
      BY <3>1 DEF ChangeInv
    <3>3. QED
      BY <1>0, <2>7, <2>b, <3>1, <3>2 DEF recalcTotals
  <2>8. CASE WriteTarget(c)
    <3>1. call[c].step = "adjust" /\ ~Changing(c) /\ shelf' = call[c].to
          /\ UNCHANGED <<quantity, total, fate>>
      BY <2>8 DEF WriteTarget, CallStep, Changing
    <3>2. (call[c].was - call[c].to) \in Int /\ (shelf # call[c].was) \in BOOLEAN
      BY <1>0
    <3>3. ~entangled /\ shelf = call[c].was /\ elsewhere' = elsewhere + (call[c].was - call[c].to)
      BY <2>8, <3>2, Counted DEF WriteTarget
    <3>4. shelf' + elsewhere' = shelf + elsewhere /\ shelf' \in Nat /\ elsewhere' \in Int
      BY <1>0, <3>1, <3>3
    <3>5. Proceed(c, NoItemCall)
      BY <2>8 DEF WriteTarget
    <3>6. QED
      BY <2>b, <3>1, <3>3, <3>4, <3>5
  <2>9. CASE ItemCrash(c)
    <3>1. entangled'
      BY <2>9 DEF ItemCrash, Count
    <3>2. QED
      BY <3>1
  <2>10. 0 \in 0 .. MaxQuantity /\ 1 .. MaxQuantity \subseteq 0 .. MaxQuantity
    BY ItemAssumption
  <2>11. QED
    BY <1>5, <2>1, <2>2, <2>3, <2>4, <2>5, <2>6, <2>7, <2>8, <2>9, <2>10
       DEF ItemStep, updateItem, removeItem
<1>6. 1 \in Int /\ -1 \in Int
  OBVIOUS
<1>7. QED
  BY <1>1, <1>2, <1>3, <1>4, <1>5, <1>6 DEF ItemNext

\* Once no change is under way the order's total is the sum of its lines and every unit is on
\* the shelf, in a line or with another order, whatever comes between the statements of a
\* change, unless it met another change, a stale adjustment, a cancelled order or a crash.
THEOREM ItemsCorrect == ItemSpec => []ItemsBalance
<1> DEFINE Inv == ItemTypeOK /\ ItemFrameInv /\ ChangeInv
<1>1. ItemInit => Inv
  <2>1. SUFFICES ASSUME ItemInit PROVE ChangeInv
    BY ItemInitType
  <2>2. \A c \in ItemCalls : call[c].step = "idle"
    BY <2>1 DEF ItemInit, NoItemCall, ItemFrame
  <2>3. SumOf(quantity) = Cardinality(Lines)
    <3>1. \A l \in Lines : quantity[l] = 1
      BY <2>1 DEF ItemInit
    <3>2. QED
      BY <3>1, ItemAssumption, SumOfOnes DEF SumOf
  <2>4. Cardinality(Lines) \in Nat /\ MaxShelf \in Nat
    BY ItemAssumption, FS_CardinalityType
  <2>5. total = SumOf(quantity) /\ Ledger(HeldUnits)
    BY <2>1, <2>3, <2>4 DEF ItemInit, Ledger, HeldUnits
  <2>6. QED
    BY <2>2, <2>5 DEF ChangeInv, Changing
<1>2. Inv /\ [ItemNext]_itemVars => Inv'
  BY ItemTypeStep, ChangeStep
<1>3. Inv => ItemsBalance
  BY DEF ChangeInv, ItemsBalance, Ledger, HeldUnits
<1>4. QED
  BY <1>1, <1>2, <1>3, PTL DEF ItemSpec

-----------------------------------------------------------------------------
(* Subscriptions of a merchant.                                            *)

Bills == [step : {"idle", "replace", "insert", "cancel", "renew"}, row : Nat]

\* A non-empty finite set of numbers has a largest: the newest row renew() looks for.
AtLeast(S, m) == {j \in S : j >= m}
LEMMA LeastAbove ==
  ASSUME NEW S, IsFiniteSet(S), S # {}
  PROVE  \E m \in S : \A j \in S :
           AtLeast(S, j) \subseteq AtLeast(S, m) => AtLeast(S, j) = AtLeast(S, m)
<1> DEFINE Family == {AtLeast(S, m) : m \in S}
<1>1. Family # {}
  OBVIOUS
<1>2. PICK U \in Family : \A V \in Family : V \subseteq U => V = U
  <2>1. Family \subseteq SUBSET S
    BY DEF AtLeast
  <2> HIDE DEF Family
  <2>2. QED
    BY <1>1, <2>1, MinimalSubset
<1>3. QED
  BY <1>2

LEMMA Newest ==
  ASSUME NEW S, IsFiniteSet(S), S \subseteq Nat, S # {}
  PROVE  \E m \in S : \A j \in S : j <= m
<1>1. PICK m \in S : \A j \in S :
        AtLeast(S, j) \subseteq AtLeast(S, m) => AtLeast(S, j) = AtLeast(S, m)
  BY LeastAbove
<1>2. ASSUME NEW j \in S
      PROVE  j <= m
  <2>0. m \in Nat /\ j \in Nat
    OBVIOUS
  <2>1. SUFFICES ASSUME m < j PROVE FALSE
    BY <2>0
  <2>2. ASSUME NEW x \in AtLeast(S, j)
        PROVE  x \in AtLeast(S, m)
    <3>1. x \in S /\ x \in Nat /\ x >= j
      BY DEF AtLeast
    <3>2. x >= m
      BY <2>0, <2>1, <3>1
    <3>3. QED
      BY <3>1, <3>2 DEF AtLeast
  <2>3. AtLeast(S, j) = AtLeast(S, m)
    BY <1>1, <2>2
  <2>4. m \in AtLeast(S, m)
    BY <2>0 DEF AtLeast
  <2>5. m >= j
    BY <2>3, <2>4 DEF AtLeast
  <2>6. QED
    BY <2>0, <2>1, <2>5
<1>3. QED
  BY <1>2

LEMMA PlanRows ==
  ASSUME SubscriptionTypeOK
  PROVE  /\ DOMAIN plan = 1 .. Len(plan) /\ Len(plan) \in Nat
         /\ IsFiniteSet(DOMAIN plan)
<1>1. DOMAIN plan = 1 .. Len(plan) /\ Len(plan) \in Nat
  BY LenProperties DEF SubscriptionTypeOK
<1>2. IsFiniteSet(DOMAIN plan)
  BY <1>1, FS_Interval
<1>3. QED
  BY <1>1, <1>2

LEMMA BillTyped ==
  /\ NoBill \in Bills
  /\ \A step \in {"insert", "replace", "cancel", "renew"}, i \in Nat : Bill(step, i) \in Bills
  BY DEF Bills, NoBill, Bill

\* The row that renew() picks exists.
LEMMA RenewPicksRow ==
  ASSUME SubscriptionTypeOK, DOMAIN plan # LiveRows
  PROVE  (CHOOSE i \in DOMAIN plan \ LiveRows : \A j \in DOMAIN plan \ LiveRows : j <= i)
           \in DOMAIN plan
<1> DEFINE S == DOMAIN plan \ LiveRows
<1>1. S # {}
  BY DEF LiveRows
<1>2. IsFiniteSet(S) /\ S \subseteq Nat
  BY PlanRows, FS_Subset
<1>3. \E i \in S : \A j \in S : j <= i
  <2> HIDE DEF S
  <2>1. QED
    BY <1>1, <1>2, Newest
<1>4. QED
  BY <1>3

LEMMA SubscriptionTypeStep ==
  SubscriptionTypeOK /\ [SubscriptionNext]_subscriptionVars => SubscriptionTypeOK'
<1> SUFFICES ASSUME SubscriptionTypeOK, [SubscriptionNext]_subscriptionVars
             PROVE  SubscriptionTypeOK'
  OBVIOUS
<1>0. /\ billing \in [BillingCalls -> Bills] /\ plan \in Seq({"live", "cancelled"})
      /\ lapsed \in BOOLEAN
      /\ DOMAIN plan = 1 .. Len(plan) /\ Len(plan) \in Nat
      /\ \A b \in BillingCalls :
           billing[b].step \in {"replace", "cancel", "renew"} => billing[b].row \in DOMAIN plan
  BY PlanRows DEF SubscriptionTypeOK, Bills
\* A step may lengthen the table, never shorten it, and moves one call.
<1>a. ASSUME plan' \in Seq({"live", "cancelled"}), DOMAIN plan \subseteq DOMAIN plan',
             lapsed' \in BOOLEAN,
             billing' \in [BillingCalls -> Bills],
             \A b \in BillingCalls :
               \/ billing'[b].step = billing[b].step /\ billing'[b].row = billing[b].row
               \/ billing'[b].step \in {"idle", "insert"}
               \/ billing'[b].row \in DOMAIN plan
      PROVE  SubscriptionTypeOK'
  BY <1>0, <1>a DEF SubscriptionTypeOK, Bills
<1>1. CASE UNCHANGED subscriptionVars
  BY <1>0, <1>a, <1>1 DEF subscriptionVars
<1>2. ASSUME NEW b \in BillingCalls, NEW frame \in Bills, Reads(b, frame),
             frame.step = "insert" \/ frame.row \in DOMAIN plan
      PROVE  SubscriptionTypeOK'
  BY <1>0, <1>a, <1>2 DEF Reads
<1>3. ASSUME NEW i \in DOMAIN plan, NEW s \in {"live", "cancelled"},
             plan' = [plan EXCEPT ![i] = s]
      PROVE  plan' \in Seq({"live", "cancelled"}) /\ DOMAIN plan' = DOMAIN plan
  BY <1>0, <1>3, ExceptSeq
<1>4. ASSUME NEW b \in BillingCalls, Ends(b)
      PROVE  /\ billing' \in [BillingCalls -> Bills]
             /\ \A d \in BillingCalls :
                  \/ billing'[d].step = billing[d].step /\ billing'[d].row = billing[d].row
                  \/ billing'[d].step \in {"idle", "insert"}
  <2>1. NoBill \in Bills /\ NoBill.step = "idle"
    BY BillTyped DEF NoBill, Bill
  <2>2. QED
    BY <1>0, <1>4, <2>1 DEF Ends
<1>5. ASSUME NEW b \in BillingCalls, createBilling(b) \/ createSubscription(b) \/ cancelPlan(b)
      PROVE  SubscriptionTypeOK'
  <2>1. Bill("insert", 0) \in Bills /\ Bill("insert", 0).step = "insert"
    BY DEF Bill, Bills
  <2>2. \A i \in LiveRows : /\ i \in DOMAIN plan
                            /\ Bill("replace", i) \in Bills /\ Bill("replace", i).row = i
                            /\ Bill("cancel", i) \in Bills /\ Bill("cancel", i).row = i
    BY <1>0 DEF LiveRows, Bill, Bills
  <2>3. QED
    BY <1>2, <1>5, <2>1, <2>2 DEF createBilling, createSubscription, cancelPlan
<1>6. ASSUME NEW b \in BillingCalls, renew(b) \/ renewSubscription(b)
      PROVE  SubscriptionTypeOK'
  <2>1. \A i \in DOMAIN plan : Bill("renew", i) \in Bills /\ Bill("renew", i).row = i
    BY <1>0 DEF Bill, Bills
  <2>2. CASE renew(b)
    BY <1>2, <2>1, <2>2, RenewPicksRow DEF renew
  <2>3. CASE renewSubscription(b)
    <3>1. Len(plan) \in DOMAIN plan
      <4>1. plan # <<>>
        BY <2>3 DEF renewSubscription
      <4>2. QED
        BY <1>0, <4>1, EmptySeq, LenProperties
    <3>2. QED
      BY <1>2, <2>1, <2>3, <3>1 DEF renewSubscription
  <2>4. QED
    BY <1>6, <2>2, <2>3
<1>7. ASSUME NEW b \in BillingCalls, CancelCurrent(b)
      PROVE  SubscriptionTypeOK'
  <2>1. billing[b].row \in DOMAIN plan
    BY <1>0, <1>7 DEF CancelCurrent, Enters
  <2>2. plan' \in Seq({"live", "cancelled"}) /\ DOMAIN plan' = DOMAIN plan
    BY <1>3, <1>7, <2>1 DEF CancelCurrent
  <2>3. billing' \in [BillingCalls -> Bills] /\ billing'[b].step = "insert"
        /\ \A d \in BillingCalls : d # b => billing'[d] = billing[d]
    BY <1>0, <1>7 DEF CancelCurrent, Bills
  <2>4. QED
    BY <1>0, <1>a, <1>7, <2>2, <2>3 DEF CancelCurrent
<1>8. ASSUME NEW b \in BillingCalls, InsertSubscription(b)
      PROVE  SubscriptionTypeOK'
  <2>1. /\ plan' \in Seq({"live", "cancelled"}) /\ DOMAIN plan \subseteq DOMAIN plan'
        /\ lapsed' \in BOOLEAN
    <3>1. CASE LiveRows = {}
      <4>1. plan' = Append(plan, "live") /\ lapsed' = FALSE
        BY <1>8, <3>1 DEF InsertSubscription
      <4>2. plan' \in Seq({"live", "cancelled"}) /\ DOMAIN plan' = 1 .. (Len(plan) + 1)
        <5>1. "live" \in {"live", "cancelled"}
          OBVIOUS
        <5>2. plan' \in Seq({"live", "cancelled"}) /\ Len(plan') = Len(plan) + 1
          BY <1>0, <4>1, <5>1, AppendProperties
        <5>3. QED
          BY <5>2, LenProperties
      <4>3. lapsed' \in BOOLEAN
        BY <4>1
      <4>4. DOMAIN plan \subseteq DOMAIN plan'
        BY <1>0, <4>2
      <4>5. QED
        BY <4>2, <4>3, <4>4
    <3>2. CASE LiveRows # {}
      BY <1>0, <1>8, <3>2 DEF InsertSubscription
    <3>3. QED
      BY <3>1, <3>2
  <2>2. Ends(b)
    BY <1>8 DEF InsertSubscription
  <2>3. QED
    BY <1>a, <1>4, <2>1, <2>2
<1>9. ASSUME NEW b \in BillingCalls, SetCancelled(b) \/ SetRenewed(b) \/ BillingCut(b)
      PROVE  SubscriptionTypeOK'
  <2>1. Ends(b)
    BY <1>9 DEF SetCancelled, SetRenewed, BillingCut
  <2>2. plan' \in Seq({"live", "cancelled"}) /\ DOMAIN plan' = DOMAIN plan
    <3>1. CASE SetCancelled(b)
      <4>1. billing[b].row \in DOMAIN plan
        BY <1>0, <3>1 DEF SetCancelled, Enters
      <4>2. QED
        BY <1>3, <3>1, <4>1 DEF SetCancelled
    <3>2. CASE SetRenewed(b)
      <4>1. billing[b].row \in DOMAIN plan
        BY <1>0, <3>2 DEF SetRenewed, Enters
      <4>2. QED
        BY <1>0, <1>3, <3>2, <4>1 DEF SetRenewed
    <3>3. CASE BillingCut(b)
      BY <1>0, <3>3 DEF BillingCut
    <3>4. QED
      BY <1>9, <3>1, <3>2, <3>3
  <2>3. lapsed' \in BOOLEAN
    <3>1. CASE SetCancelled(b) \/ BillingCut(b)
      <4>1. CASE SetCancelled(b)
        <5>1. lapsed' = (lapsed \/ billing[b].row \in LiveRows)
          BY <4>1 DEF SetCancelled
        <5>2. QED
          BY <1>0, <5>1, Zenon
      <4>2. CASE BillingCut(b)
        <5>1. lapsed' = (lapsed \/ (Enters(b, "insert") /\ billing[b].row # 0 /\ LiveRows = {}))
          BY <4>2 DEF BillingCut
        <5>2. QED
          BY <1>0, <5>1, Zenon
      <4>3. QED
        BY <3>1, <4>1, <4>2
    <3>2. CASE SetRenewed(b)
      BY <1>0, <3>2 DEF SetRenewed
    <3>3. QED
      BY <1>9, <3>1, <3>2
  <2>4. QED
    BY <1>a, <1>4, <2>1, <2>2, <2>3
<1>10. QED
  BY <1>1, <1>5, <1>6, <1>7, <1>8, <1>9 DEF SubscriptionNext

LEMMA SubscriptionInitType == SubscriptionInit => SubscriptionTypeOK
<1> SUFFICES ASSUME SubscriptionInit PROVE SubscriptionTypeOK
  OBVIOUS
<1>1. plan \in Seq({"live", "cancelled"})
  BY EmptySeq DEF SubscriptionInit
<1>2. QED
  BY <1>1 DEF SubscriptionInit, SubscriptionTypeOK, NoBill, Bill

\* Rows and frames keep their types, and a call that will write a row holds one that exists.
THEOREM SubscriptionTypeCorrect == SubscriptionSpec => []SubscriptionTypeOK
  BY SubscriptionInitType, SubscriptionTypeStep, PTL DEF SubscriptionSpec

LEMMA KeptStep ==
  SubscriptionTypeOK /\ SubscriptionKept /\ [SubscriptionNext]_subscriptionVars
    => SubscriptionKept'
<1> SUFFICES ASSUME SubscriptionTypeOK, SubscriptionKept, [SubscriptionNext]_subscriptionVars,
                    LiveRows' = {}, plan' # <<>>, ~lapsed'
             PROVE  \E b \in BillingCalls : Enters(b, "insert")' /\ billing'[b].row # 0
  BY DEF SubscriptionKept
<1>0. /\ billing \in [BillingCalls -> Bills] /\ plan \in Seq({"live", "cancelled"})
      /\ DOMAIN plan = 1 .. Len(plan) /\ Len(plan) \in Nat
      /\ \A b \in BillingCalls :
           billing[b].step \in {"replace", "cancel", "renew"} => billing[b].row \in DOMAIN plan
  BY PlanRows DEF SubscriptionTypeOK, Bills
\* Nothing was live before: a replacement is under way, and a step of another call leaves it.
<1>a. ASSUME LiveRows = {}, plan # <<>>, ~lapsed,
             NEW b \in BillingCalls, ~(Enters(b, "insert") /\ billing[b].row # 0),
             \A d \in BillingCalls : d # b => billing'[d] = billing[d]
      PROVE  \E d \in BillingCalls : Enters(d, "insert")' /\ billing'[d].row # 0
  BY <1>a DEF SubscriptionKept, Enters
<1>1. CASE UNCHANGED subscriptionVars
  BY <1>1 DEF subscriptionVars, SubscriptionKept, Enters, LiveRows
<1>2. ASSUME NEW b \in BillingCalls, NEW frame, Reads(b, frame)
      PROVE  \E d \in BillingCalls : Enters(d, "insert")' /\ billing'[d].row # 0
  <2>1. LiveRows = {} /\ plan # <<>> /\ ~lapsed
    BY <1>2 DEF Reads, LiveRows
  <2>2. ~Enters(b, "insert")
    BY <1>2 DEF Reads, Enters, NoBill, Bill
  <2>3. QED
    BY <1>0, <1>a, <1>2, <2>1, <2>2 DEF Reads
<1>3. ASSUME NEW b \in BillingCalls,
             \/ createBilling(b) \/ createSubscription(b) \/ cancelPlan(b) \/ renew(b)
             \/ renewSubscription(b)
      PROVE  \E d \in BillingCalls : Enters(d, "insert")' /\ billing'[d].row # 0
  BY <1>2, <1>3 DEF createBilling, createSubscription, cancelPlan, renew, renewSubscription
<1>4. ASSUME NEW b \in BillingCalls, CancelCurrent(b)
      PROVE  Enters(b, "insert")' /\ billing'[b].row # 0
  <2>1. billing[b].row \in DOMAIN plan
    BY <1>0, <1>4 DEF CancelCurrent, Enters
  <2>2. billing[b].row # 0
    BY <1>0, <2>1
  <2>3. billing'[b].step = "insert" /\ billing'[b].row = billing[b].row
    BY <1>0, <1>4 DEF CancelCurrent, Bills
  <2>4. QED
    BY <2>2, <2>3 DEF Enters
\* An insert leaves a live row: its own, or the one the index refused it for.
<1>5. ASSUME NEW b \in BillingCalls, InsertSubscription(b)
      PROVE  FALSE
  <2>1. CASE LiveRows = {}
    <3>1. /\ plan' = Append(plan, "live")
          /\ Len(plan) + 1 \in DOMAIN plan' /\ plan'[Len(plan) + 1] = "live"
      BY <1>0, <1>5, <2>1, AppendProperties DEF InsertSubscription
    <3>2. QED
      BY <3>1 DEF LiveRows
  <2>2. CASE LiveRows # {}
    BY <1>5, <2>2 DEF InsertSubscription, LiveRows
  <2>3. QED
    BY <2>1, <2>2
\* So does a renewal.
<1>6. ASSUME NEW b \in BillingCalls, SetRenewed(b)
      PROVE  FALSE
  <2>1. billing[b].row \in DOMAIN plan
    BY <1>0, <1>6 DEF SetRenewed, Enters
  <2>2. CASE LiveRows \subseteq {billing[b].row}
    <3>1. billing[b].row \in DOMAIN plan' /\ plan'[billing[b].row] = "live"
      BY <1>0, <1>6, <2>1, <2>2 DEF SetRenewed
    <3>2. QED
      BY <3>1 DEF LiveRows
  <2>3. CASE ~(LiveRows \subseteq {billing[b].row})
    BY <1>6, <2>3 DEF SetRenewed, LiveRows
  <2>4. QED
    BY <2>2, <2>3
<1>7. ASSUME NEW b \in BillingCalls, SetCancelled(b)
      PROVE  \E d \in BillingCalls : Enters(d, "insert")' /\ billing'[d].row # 0
  <2>1. ~lapsed /\ billing[b].row \notin LiveRows /\ billing[b].row \in DOMAIN plan
    BY <1>0, <1>7 DEF SetCancelled, Enters
  <2>2. LiveRows = {}
    <3>1. \A i \in LiveRows : i \in DOMAIN plan' /\ plan'[i] = "live"
      BY <1>0, <1>7, <2>1 DEF SetCancelled, LiveRows
    <3>2. QED
      BY <3>1 DEF LiveRows
  <2>3. plan # <<>>
    BY <2>1
  <2>4. ~Enters(b, "insert") /\ \A d \in BillingCalls : d # b => billing'[d] = billing[d]
    BY <1>0, <1>7 DEF SetCancelled, Ends, Enters
  <2>5. QED
    BY <1>a, <2>1, <2>2, <2>3, <2>4
<1>8. ASSUME NEW b \in BillingCalls, BillingCut(b)
      PROVE  \E d \in BillingCalls : Enters(d, "insert")' /\ billing'[d].row # 0
  <2>1. LiveRows = {} /\ plan # <<>>
    BY <1>8 DEF BillingCut, LiveRows
  <2>2. ~lapsed /\ ~(Enters(b, "insert") /\ billing[b].row # 0)
    BY <1>8, <2>1 DEF BillingCut
  <2>3. \A d \in BillingCalls : d # b => billing'[d] = billing[d]
    BY <1>0, <1>8 DEF BillingCut, Ends
  <2>4. QED
    BY <1>a, <2>1, <2>2, <2>3
<1>9. QED
  BY <1>1, <1>3, <1>4, <1>5, <1>6, <1>7, <1>8 DEF SubscriptionNext

\* A merchant who had a subscription loses it only by a cancellation or by a replacement
\* that is under way or was cut, for any number of rows and overlapping calls.
THEOREM KeepsSubscription == SubscriptionSpec => []SubscriptionKept
<1>1. SubscriptionInit => SubscriptionKept
  BY DEF SubscriptionInit, SubscriptionKept
<1>2. QED
  BY <1>1, SubscriptionInitType, SubscriptionTypeStep, KeptStep, PTL DEF SubscriptionSpec

-----------------------------------------------------------------------------
(* The services together.                                                  *)

\* A step of the back office is a step of each service or leaves it alone.
LEMMA ServiceSteps ==
  ASSUME [BackOfficeNext]_backOfficeVars
  PROVE  /\ [SessionNext]_sessionVars /\ [DeliveryNext]_deliveryVars
         /\ [RefundNext]_refundVars /\ [IdempotencyNext]_idempotencyVars
         /\ [ResponderNext]_responderVars /\ [CampaignNext]_campaignVars
         /\ [OutboundNext]_outboundVars /\ [ItemNext]_itemVars
         /\ [SubscriptionNext]_subscriptionVars
<1>1. CASE UNCHANGED backOfficeVars
  BY <1>1 DEF backOfficeVars
<1>2. CASE BackOfficeNext
  <2>1. [SessionNext]_sessionVars /\ [DeliveryNext]_deliveryVars /\ [RefundNext]_refundVars
    BY <1>2 DEF BackOfficeNext, Untouched
  <2>2. /\ [IdempotencyNext]_idempotencyVars /\ [ResponderNext]_responderVars
        /\ [CampaignNext]_campaignVars
    BY <1>2 DEF BackOfficeNext, Untouched
  <2>3. /\ [OutboundNext]_outboundVars /\ [ItemNext]_itemVars
        /\ [SubscriptionNext]_subscriptionVars
    BY <1>2 DEF BackOfficeNext, Untouched
  <2>4. QED
    BY <2>1, <2>2, <2>3
<1>3. QED
  BY <1>1, <1>2

\* Whatever service a behaviour follows, every table and every call of the
\* back office keeps its type: the statuses the Prisma schema declares, the
\* frames of the handlers and the rows they hold.
THEOREM BackOfficeTypeCorrect == BackOfficeSpec => []BackOfficeTypeOK
<1> DEFINE Inv == BackOfficeTypeOK /\ ItemFrameInv
<1>1. BackOfficeInit => Inv
  BY SessionInitType, DeliveryTypeInit, RefundInitType, IdempotencyInitType, ResponderTypeInit,
     CampaignTypeInit, OutboundTypeInit, ItemInitType, SubscriptionInitType
     DEF BackOfficeInit, BackOfficeTypeOK
<1>2. ASSUME Inv, [BackOfficeNext]_backOfficeVars
      PROVE  Inv'
  <2>1. SessionTypeOK' /\ IdempotencyTypeOK'
    BY <1>2, ServiceSteps, SessionTypeStep, IdempotencyTypeStep DEF BackOfficeTypeOK
  <2>2. DeliveryTypeOK' /\ RefundTypeOK'
    BY <1>2, ServiceSteps, DeliveryTypeStep, RefundTypeStep DEF BackOfficeTypeOK
  <2>3. ResponderTypeOK' /\ CampaignTypeOK' /\ OutboundTypeOK'
    BY <1>2, ServiceSteps, ResponderTypeStep, CampaignTypeStep, OutboundTypeStep
       DEF BackOfficeTypeOK
  <2>4. ItemTypeOK' /\ ItemFrameInv' /\ SubscriptionTypeOK'
    BY <1>2, ServiceSteps, ItemTypeStep, SubscriptionTypeStep DEF BackOfficeTypeOK
  <2>5. QED
    BY <2>1, <2>2, <2>3, <2>4 DEF BackOfficeTypeOK
<1>3. Inv => BackOfficeTypeOK
  OBVIOUS
<1>4. QED
  BY <1>1, <1>2, <1>3, PTL DEF BackOfficeSpec
=============================================================================
