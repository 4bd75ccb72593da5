--------------------------- MODULE Subscriptions ---------------------------
(***************************************************************************)
(* A merchant's subscriptions, which two services write:                   *)
(* modules/payments/services/subscriptions.service.ts (billing) and        *)
(* modules/user-management/services/subscription.service.ts (account).     *)
(*                                                                         *)
(* Each call reads the merchant's rows and then writes one by id.  Account *)
(* replaces the live row by a new one in two statements; billing refuses   *)
(* to create next to a live row.  A partial unique index refuses a second  *)
(* live row, so an insert or a renewal next to one throws.  TRIALING and   *)
(* ACTIVE are one status here, "live"; nothing in the code sets PAST_DUE   *)
(* or EXPIRED, so what is not live is cancelled.  Plans, cycles and        *)
(* periods are left out.                                                   *)
(***************************************************************************)
EXTENDS Naturals, Sequences

CONSTANTS
  BillingCalls, \* calls in flight
  MaxRows       \* bound: rows of the merchant

ASSUME SubscriptionAssumption == MaxRows \in Nat

VARIABLES
  plan,     \* the rows, oldest first: "live" or "cancelled"
  billing,  \* each call: its step and its row (0: none)
  lapsed    \* history: the live row was cancelled for good, or a call that had replaced it
            \* was cut before it inserted the next; no row has come to life since

subscriptionVars == <<plan, billing, lapsed>>

Bill(step, row) == [step |-> step, row |-> row]
NoBill == Bill("idle", 0)

SubscriptionInit ==
  /\ plan = <<>>
  /\ billing = [b \in BillingCalls |-> NoBill]
  /\ lapsed = FALSE

LiveRows == {i \in DOMAIN plan : plan[i] = "live"}
Reads(b, frame) ==
  /\ billing[b] = NoBill
  /\ billing' = [billing EXCEPT ![b] = frame]
  /\ UNCHANGED <<plan, lapsed>>
Enters(b, step) == billing[b].step = step
Ends(b) == billing' = [billing EXCEPT ![b] = NoBill]

-----------------------------------------------------------------------------
(* create() of billing; createSubscription() of account, which cancels the *)
(* live row it has read, whichever it is.                                  *)

createBilling(b) == LiveRows = {} /\ Reads(b, Bill("insert", 0))

createSubscription(b) ==
  \/ LiveRows = {} /\ Reads(b, Bill("insert", 0))
  \/ \E i \in LiveRows : Reads(b, Bill("replace", i))

ChecksPlanLate(b) ==                                           \* mutant
  /\ Enters(b, "replace")
  /\ plan' = [plan EXCEPT ![billing[b].row] = "cancelled"]
  /\ Ends(b) \/ billing' = [billing EXCEPT ![b].step = "insert"]
  /\ UNCHANGED lapsed
CancelCurrent(b) ==
  /\ Enters(b, "replace")
  /\ plan' = [plan EXCEPT ![billing[b].row] = "cancelled"]
  /\ billing' = [billing EXCEPT ![b].step = "insert"]
  /\ UNCHANGED lapsed

\* subscriptions_one_live_per_merchant_uidx refuses a second live row: the insert throws.
InsertSubscription(b) ==
  /\ Enters(b, "insert")
  /\ Len(plan) < MaxRows
  /\ IF LiveRows = {} THEN plan' = Append(plan, "live") /\ lapsed' = FALSE
                      ELSE UNCHANGED <<plan, lapsed>>
  /\ Ends(b)

-----------------------------------------------------------------------------
\* cancel() at once, and cancelSubscription(): a live row, by id.
cancelPlan(b) == \E i \in LiveRows : Reads(b, Bill("cancel", i))

SetCancelled(b) ==
  LET i == billing[b].row IN
  /\ Enters(b, "cancel")
  /\ plan' = [plan EXCEPT ![i] = "cancelled"]
  /\ lapsed' = (lapsed \/ i \in LiveRows)
  /\ Ends(b)

\* renew() takes the newest row that is not live, renewSubscription() the newest of all.
renew(b) ==
  /\ DOMAIN plan # LiveRows
  /\ LET newest == CHOOSE i \in DOMAIN plan \ LiveRows : \A j \in DOMAIN plan \ LiveRows : j <= i
     IN Reads(b, Bill("renew", newest))
renewSubscription(b) == plan # <<>> /\ Reads(b, Bill("renew", Len(plan)))

\* The index refuses the update too.
SetRenewed(b) ==
  LET i == billing[b].row IN
  /\ Enters(b, "renew")
  /\ IF LiveRows \subseteq {i} THEN plan' = [plan EXCEPT ![i] = "live"] /\ lapsed' = FALSE
                              ELSE UNCHANGED <<plan, lapsed>>
  /\ Ends(b)

\* The process dies, or a statement fails.
BillingCut(b) ==
  /\ billing[b] # NoBill
  /\ lapsed' = (lapsed \/ (Enters(b, "insert") /\ billing[b].row # 0 /\ LiveRows = {}))
  /\ Ends(b)
  /\ UNCHANGED plan

-----------------------------------------------------------------------------
SubscriptionNext ==
  \E b \in BillingCalls :
    \/ createBilling(b) \/ createSubscription(b) \/ cancelPlan(b) \/ renew(b)
    \/ renewSubscription(b) \/ CancelCurrent(b) \/ InsertSubscription(b) \/ SetCancelled(b)
    \/ SetRenewed(b) \/ BillingCut(b)

SubscriptionSpec == SubscriptionInit /\ [][SubscriptionNext]_subscriptionVars

-----------------------------------------------------------------------------
(* Properties.                                                             *)

\* Rows and frames have the shapes the services give them; a frame with a row points at one.
SubscriptionTypeOK ==
  /\ plan \in Seq({"live", "cancelled"})
  /\ billing \in [BillingCalls -> [step : {"idle", "replace", "insert", "cancel", "renew"},
                                   row : Nat]]
  /\ \A b \in BillingCalls :
       billing[b].step \in {"replace", "cancel", "renew"} => billing[b].row \in DOMAIN plan
  /\ lapsed \in BOOLEAN

\* A merchant who had a subscription is left without one only by a cancellation, or by a
\* replacement that is under way or was cut between its two statements: however creations,
\* replacements, renewals and cancellations overlap, an insert the index refuses is refused
\* in favour of another live row.
SubscriptionKept ==
  LiveRows = {} /\ plan # <<>> /\ ~lapsed =>
    \E b \in BillingCalls : Enters(b, "insert") /\ billing[b].row # 0
=============================================================================
