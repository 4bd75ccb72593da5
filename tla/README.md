# WCO in TLA+

TLA+ specifications of the core of WCO, a WhatsApp commerce platform (TypeScript monorepo),
with TLC configurations and TLAPS proofs. Everything is translated from the code under
`src/`; `PROJECT.json` maps each definition to the lines it stands for.

## The system

| Component | State it keeps | Operations | What makes it correct |
|---|---|---|---|
| Order desk (`services/orders.service.ts`, `modules/orders/services/cancellations.service.ts`) | `products`, `orders`, `order_items`, `order_status_history`, `order_cancellations`, rows for the outbox | `create`, `transition`, `cancel`, cancellation `create`, `remove`, `process` | stock is never oversold and always accounted for; status moves follow `ORDER_TRANSITIONS`; a restock happens once, and only after a cancellation |
| Payments (`services/payments.service.ts`) | `payments`, `order_refunds`, customer totals, commissions; the provider's checkouts | `initialize`, `handleWebhook`, `verify`, `reconcile`, `refund` | money is credited once, only when the provider captured it; paid orders do not get lost |
| Outbox relay (`worker.ts`, `lib/rabbit.ts`) | `outbox_events.processedAt`, one cached AMQP channel per process | `relayOutbox`, `publishDomainEvent`, `ensureChannel` | every committed event reaches the exchange at least once, none that was not committed |
| Webhook ingest (`apps/webhook-handler`) | dedupe keys in Redis, one AMQP channel | claim, publish, answer, reconnect | a callback answered 200 is queued; retries are published once |
| Order refunds (`modules/orders/services/refunds.service.ts`, `modules/payments/services/payment-refunds.service.ts`, `refund()` of `services/payments.service.ts`) | `order_refunds`, `payments.status`, `orders.status` | create, update, remove, process on both sides, cancel, the payments endpoint | a REFUNDED order is covered by settled rows, or a refund of its payment is on its way; a refund is pushed once per open window |
| Order items and inventory (`items.service.ts`, `inventory.service.ts`) | `order_items`, order totals, product stock | item update and remove, `adjust` | units and stock add up |
| Deliveries (`services/deliveries.service.ts`, `modules/deliveries`) | `deliveries`, `orders.status`, the carrier's parcels | create, quote, update, remove, book, cancel, tracking updates | updates move an order forward only, and only when its row took the status for a parcel a carrier accepted |
| Sessions and one-shot tokens (`services/auth.service.ts`) | `refresh_tokens`, `password_resets` | issue, refresh, logout, reset, password change | a login has one live session, a link one use, a password change ends what came before |
| Idempotency (`middleware/idempotency.ts`) | Redis keys | claim, run, save, replay | a repeated request takes effect once |
| Campaigns (`services/campaigns.service.ts`, `worker.ts`) | `campaigns.status`, `campaign_messages`, dispatch jobs | launch, pause, cancel, chunked dispatch | a running campaign never loses its job |
| Conversations and responder (`conversations.service.ts`, `responder.service.ts`, `escalations.service.ts`) | threads, inbound messages, escalations, turn jobs | ingest, turn, escalate, assign, resolve | a message is answered a bounded number of times; a hand-off silences the bot |
| Outbound messages (`messages.service.ts`, `worker.ts`) | messages, send jobs | send, edit, delete, retry | what a SENT row shows is what WhatsApp got, and it got it once |
| Subscriptions (`subscriptions.service.ts`, account and billing) | `subscriptions` | create, change, cancel, renew | the unique index allows one live row; no overlap may cost the merchant the only one |
| AI engine (`apps/ai-engine/src/consumers`) | unacknowledged events, handlers | consume, reply, ack, requeue, dead-letter, reconnect | no event is skipped, replies are bounded |

How they interact. HTTP handlers run concurrently in several backend processes over one
PostgreSQL database; Prisma transactions use its default isolation, READ COMMITTED, so a
read takes no lock and only a conditional `updateMany` decides on current values. Handlers
await other services between a read and a write. A handler's transaction also writes the
outbox row of its event; the worker relays these rows to RabbitMQ from a job repeated every
ten seconds. Payments, refunds and deliveries write `orders.status` too, without the order desk's
state machine, and three services write `order_refunds`. The webhook handler and the AI engine are separate services at the two sides of
RabbitMQ. BullMQ jobs (turns, sends, campaign chunks) are retried when they throw or stall.

What is hard: handlers that decide on stale reads, several commits in one operation with a
crash between them, callbacks that are repeated or overtake each other, and caches of a
connection that died. `PROJECT.json` lists each such hazard at its line, with the properties
that are about it, or why the code gives none to check.

## Modules

| Module | Models | Extends |
|---|---|---|
| `OrderMachine` | `OrderStatus` and `ORDER_TRANSITIONS` | |
| `Orders` | the order desk | `OrderMachine` |
| `Payments` | payments, composed with the order desk | `Orders` |
| `EventDelivery` | abstract: at-least-once delivery of committed events | |
| `OutboxRelay` | the relay job and its channel, implements `EventDelivery` | |
| `WebhookIngest` | the webhook handler | |
| `AiConsumer` | the AI engine's queue | |
| `Refunds` | the refund rows of one order, all three services | |
| `OrderItems` | line items, order total, one product's stock | |
| `Deliveries` | the delivery of one order and its carriers | `OrderMachine` |
| `Sessions` | refresh tokens and reset links of one account | |
| `Idempotency` | one idempotency key | |
| `Campaigns` | one campaign and its dispatch jobs | |
| `Responder` | one WhatsApp thread, its turns and escalations | |
| `Outbound` | outbound messages and their send jobs | |
| `Subscriptions` | one merchant's subscriptions | |
| `SumFacts` | no code: lemmas about sums over a finite set and about counting | TLAPS |
| `OrdersProofs`, `PaymentsProofs`, `WebhookIngestProofs` | the theorems of the module they are named for | that module, `SumFacts` |
| `MessagingProofs` | the theorems of `OutboxRelay`, `AiConsumer` and their composition | `MCMessaging`, `SumFacts` |
| `AccessProofs` | the theorems of `Sessions` and `Idempotency` | |
| `WhatsAppProofs` | the theorems of `Campaigns`, `Responder` and `Outbound` | |
| `FulfilmentProofs` | the theorems of `Deliveries`, `Refunds`, `OrderItems`, `Subscriptions` and of the back office | `MCBackOffice`, `AccessProofs`, `WhatsAppProofs`, `SumFacts` |
| `MCOrders`, `MCPayments`, `MCMessaging`, `MCWebhookIngest`, `MCBackOffice` | instances for TLC | |

**Conventions.** State is what is committed (rows, Redis keys, the broker's exchange) plus one
frame per handler in flight, which holds what the handler read and what it does next. An
action is one atomic section: the reads a handler decides on before its first write, or the
statements that one transaction commits. Between two actions anything else may run, and
`CrashCall`, `CrashJob` and `Crash` may end a handler. Operators marked *mutant* are faulty
variants of the definition below them; nothing refers to them. `PROJECT.json` pairs each
with the property that notices it.

### Orders

`Create` is one action: the conditional decrements lock the product rows until the commit.
`transition()` is two, `BeginTransition` (its reads and checks) and `CommitTransition` (its
writes): the update is by id alone, so other commits may come between. `cancel()` adds
`restoreStock`, a second transaction. The cancellation record's `create()` has four actions
(checks, insert, order update, history) and `process()` one per line and one for the flag.
`status`, `stock`, `listing`, `history`, `cancellation`, `payment` are columns; `announced` is
what the outbox holds; `returned`, `shelved` and `returns` are history variables.

Left out: variants, products without
`trackStock`, cash and bank transfer (`assertPaidAllowed` lets them through whatever the
payment row says), totals, field updates, notifications. `order.status` and the payment are
read by consecutive statements of one transaction and modelled as one read. In `Orders` alone
no payment row exists; `Payments` writes it.

### Payments

`psp` is the provider's view of each checkout. `verify(o, k)` is the set of verdicts a query may return;
an abandoned checkout and a reversed charge both come back as FAILED, as `reconcile()` reads
them. A webhook may arrive at any time and any number of times once a checkout has an
outcome, so losing, repeating and reordering need no actions of their own. `job` frames:
`save` (initialize), `ask`, `reconcile`, `settle` (webhook, verify), `push`, `recordRefund`,
`refundPayment`, `refundOrder` (refund). `credits` counts the commits that add to the
customer's totals, charge the commission and write `payment.succeeded`: one transaction
writes all three.

Left out: payment links, direct sends, amounts and fees, the transaction log
(its errors are swallowed).

### OutboxRelay and EventDelivery

`channel` distinguishes the states `ensureChannel()` can be in: none yet, open, dead but still
cached, and `failed`, the rejected connect promise that stays in `connecting`. The client
publishes without confirms, so `socket` holds what the client accepted and the broker has not.
The refinement mapping takes the outbox for `committed` and the events the exchange received
for `delivered`.

### WebhookIngest

`request` frames walk a callback's notices: claim the key, publish, next; `Answer` sends 200.
Routes for payments and carriers send one notice, WhatsApp several, and delivery statuses have no
key. `channel`, `timers` and `connectRabbit` follow `main.ts`: each close event starts one timer,
or two if an error event precedes it, and a failed attempt starts none. `RedisFails` is a claim whose
connection breaks: before Redis saw the SET, or after it was applied. ioredis sends the command again,
and a SET that was applied then answers null, so the notice is passed over as a duplicate of
itself; when the attempts run out the call throws and the answer is 500. Either way the key stays
behind, in `orphaned`, until it expires or a request publishes under it.

### AiConsumer

`aiEvent` is where the broker holds each event of the queue and `handler` what the engine does
with it; a handler may have sent its reply before it throws. `engine` is "deaf" after a
reconnect: `scheduleReconnect()` opens a channel and nobody calls `consume()` again. A handler that
outlives its channel can neither acknowledge nor reject; the rejected promise ends the process.

### Refunds and OrderItems

`Refunds` has one frame per call; each check and each write by id is an action, because none of the
services opens a transaction around them. `process()` of the order side settles a row and sums
the rows it sees; the payment side asks the provider between its check and its write. `refund()` of
the payments endpoint asks the provider first (`AskProvider`), then writes a PROCESSING row
(`BookRefund`), the payment (`MarkRefunded`) and the order (`TurnRefunded`), whatever the amount; `direct`
remembers its rows. `CancelSale` and `Reconciles` are what the order desk and a verdict of the
provider write of the same rows.
`OrderItems` gives each statement of an item change its own action (line, shelf, sum, total), next to
a checkout that takes units and `adjust()`, a read and an absolute write.

### Deliveries

What is mounted: `quote` and `book` of `services/deliveries.service.ts` under `/deliveries`
(`modules/logistics`), and the tracking webhooks of `modules/deliveries` under `/webhooks/delivery`. Nothing
mounts `delivery.routes.ts`, whose create, update, remove and cancel are modelled with the rest of
its service; the quote and book it has too are of the same shape. `booked` is the parcels carriers
accepted. The webhook routes are public and check no signature, so `handleTrackingUpdate` takes any
status in `Reported`, at any time and again; an unknown one is read as IN_TRANSIT. `tracked` remembers
which statuses the row took while its tracking code was that of an accepted parcel. `book()` reads, asks the carrier and commits;
a tracking update commits the row (`TrackDelivery`) and moves the order in a second step
(`MoveOrder`). `DeskMoves` is the order desk, reduced to its machine.

### Sessions and Idempotency

`Rotate` is the conditional `updateMany` of `refresh()`; the insert of the successor is a later
action, so a crash may leave a login without a session. `overtaken` remembers the refreshes a
password change could not see. `Idempotency` follows one key through its marker (30 seconds), the
handler and the saved answer; Redis may fail at the lookup (the request runs unprotected) and at
the save.

### Campaigns, Responder and Outbound

`Campaigns` keeps the rows, the statement each API call is at and the chunk each job has in hand;
`lost` marks that Redis refused a job or that a call or a job was cut short for good. `Responder` separates what a
turn reads before the model call from what it writes after it. `Outbound` separates the job's
read, the provider's acceptance, the verdict and BullMQ's record of completion, and an agent's
edit from its commit.

### Subscriptions

Each call reads the merchant's rows and writes one by id; account and billing use different
rules for what "current" means. The partial unique index of the migration
(`20260201000100_security_rls_functions`, lines 241 to 245) refuses a second live row, so
`InsertSubscription` and `SetRenewed` throw next to one. `lapsed` marks that the last live row
was cancelled for good, or that a replacement was cut between its two statements.

## Runs

Passing runs:

| Run | Instance | Shows |
|---|---|---|
| `OrdersRace` | one order of two lines, a cart for more than there is, two calls in flight, two restocks (190,555 states) | `TypeOK`, `ListingMatchesStock`, `StockAccounted`, `RestockPerAttempt`, `RestockNeedsCancellation`, and `MovesFollowTheMachine`: a move off `ORDER_TRANSITIONS` is that of a call another one overtook |
| `PaymentsOneJob` | two checkouts, one payment handler, one order call | `MoneyTypeOK`, `CreditedOnce` |
| `PaymentsRace` | one checkout, two payment handlers, one order call | `RecordedMoneyReleasesOrder`, `BooksFollowProvider`, `RefundRowsAccepted` |
| `Messaging` | relay: two events, two jobs, batches of two, an outage, a crash, a failing query; engine: two events, a channel that takes one, two drops (50,638 states) | `PublishedWhileCalm`, `CopiesBounded`, `OutboxDrains`, `DeliversAll` (refinement with liveness); `NoEventSkipped`, `AiRunsBounded`, `AiSettles` |
| `IngestFaults` | three notices in two callbacks, two requests, an expiry per key, a Redis failure, an outage, a crash | `TypeOK`, `OnePublishPerClaim`, and `AnswerIsCovered` for the behaviours without outage and crash, except for a key Redis set without the handler learning it |
| `BackOffice` | nine services, one per behaviour, two or three overlapping calls each and a crash, expiry or fault (797,719 states) | one line per service below |

| Service in `BackOffice` | Properties | What they say |
|---|---|---|
| sessions | `OneLivePerLogin`, `LinkSetsPasswordOnce`, `PasswordChangeEndsSessions` | two refreshes never leave two sessions; two clicks set one password; a password change ends every session but one a refresh was already replacing |
| deliveries | `CarrierMovesForward`, `OrderFollowsRow` | whatever is reported, late or repeated, never takes an order back; unless the desk did it, an order is SHIPPED or DELIVERED only when its row took that status for a parcel a carrier accepted |
| refunds | `RefundedIsBacked`, `PushesBounded` | unless an overlapping call undid a settled row, REFUNDED means that the settled rows cover the total, or that the provider accepted a refund of the payment whose row is PROCESSING; a row is pushed at most once per overlapping call and per crash |
| idempotency | `EffectsBounded`, `ReplayIsReal` | one effect per key, plus one per lapse or unprotected request; no replay without an effect |
| responder | `RepliesBounded`, `HandOffSilencesBot` | replies per message are bounded by the runs of its one job; while an escalation is open the bot is off, unless an agent gave the thread back or a call died half way |
| campaigns | `RunningIsDispatched` | a running campaign with queued rows has a job on its way |
| outbound | `AcceptedBounded`, `SentAsStored` | one acceptance per message and per fault before SENT; a SENT row shows what was sent unless an edit raced the job |
| items | `ItemsBalance` | shelf, lines, total and other orders add up, unless two changes of one order, a stale adjustment, a cancelled order or a crash came between |
| subscriptions | `SubscriptionKept` | a merchant who had a subscription is without one only after a cancellation, or while a replacement is under way or after it was cut |

`BackOffice` is one run for nine models: a behaviour picks one service and follows it, and the
others stay in their initial state. Some of the services share tables: deliveries, refunds and item changes
write `orders.status` or the order's lines, refunds and payments `order_refunds` and `payments`. Each module
therefore carries what others write of its rows as an action (`DeskMoves`, `CancelSale`, `Reconciles`,
`OtherOrder`), or the other service itself (`Refunds`), and the run does not show what two of these
models would do to each other beyond that. `BackOfficeTypeOK` is the conjunction
of their type invariants. `Messaging` joins the two ends of the exchange in the same way.

What three of these say no more than: `HandOffSilencesBot` is about the bot flag; a turn that is past
its read when the hand-off commits still replies. `CarrierMovesForward` is about the carriers' own writes;
a desk commit by id that read an older status is outside it (`DeskMoves` reads and writes in one step).
`RepliesBounded` counts the backend's replies, not those of the AI engine to the same event.

Runs in which the code does other than its documents or comments say; each finding quotes the line:

| Run | Violated | Trace |
|---|---|---|
| `CancelRepeat` | `CancelIsIdempotent` | the second cancel finds CANCELLED, skips the transition and restocks |
| `PaidCancelled` | `PaidLeavesByCancellationOnly` | a cancel that read PENDING_PAYMENT commits over PAID |
| `DoubleCredit` | `CreditedOnce` | two reconciliations read PENDING_PAYMENT |
| `RelayOutage` | `ProcessedWasPublished` | the publish error is swallowed, the row marked |
| `IngestKeyHeld` | `HeldKeyWasPublished` | the publish throws, the key stays |
| `ItemsCrash` | `TotalsResync` | an item change is three separate statements; one that is cut leaves the total off the lines |

Other disagreements the models reach, which have no run of their own:

- Two transitions that read the same status overwrite each other (`transition()` against
  `docs/orders/README.md:54`), and a capture that fails between check and commit leaves an
  order PAID (`:60`). Both are the race of `PaidCancelled`.
- Two `process()` calls, or one that died before the flag, restock twice
  (`cancellations.service.ts:73` against `docs/orders/README.md:95`); `RestockPerAttempt` is what remains.
- A crash between the insert and the update leaves an open cancellation record on a live
  order (`cancellations.service.ts:23` against `docs/orders/README.md:93`), and no cancellation
  record's move is announced in the outbox (against `orders.service.ts:23`).
- Two relay jobs may publish one row (`worker.ts:173` against
  `docs/developer/02-architecture-overview.md:94`); `CopiesBounded` is what remains.
- A rejected first connect is cached for the life of the process (`lib/rabbit.ts:23`), and the
  webhook handler gives up after one failed reconnect (`webhook-handler/src/main.ts:63`).
- Redis may apply the SET of a claim and lose the reply: the repeated SET answers null, the callback is
  answered 200 as a duplicate and nothing is published, against "If Redis or RabbitMQ is down we return
  503 so providers RETRY" (`ingest.service.ts:10`); `AnswerIsCovered` exempts exactly that key (`orphaned`).
- `refund()` of the payments endpoint sets the order REFUNDED after a part of the amount, on a PROCESSING
  row (`payments.service.ts:270`), against "only when the SUCCEEDED amount covers the full payable"
  (`refunds.service.ts:10`); `RefundedIsBacked` is what remains.
- The 200 leaves before the broker has the notice (`ingest.service.ts:38` against
  `docs/architecture/data-flow.md:72`), and two notices of one transaction share a key
  (`payments.routes.ts:106` against `docs/api/webhooks.md:50`).
- Campaign rows stay `queued` after their message is enqueued, so each chunk selects the same
  rows, sends them again and never completes the campaign (`worker.ts:155` against `worker.ts:105`
  and `campaigns.service.ts:62`, "must not double-send"). A launch whose job Redis refuses stays
  RUNNING (`lost` in `Campaigns`).
- A retried turn drafts and sends its reply again (`worker.ts:66`, "idempotent per waMessageId");
  `RepliesBounded` is what remains. A crash between the insert of an inbound message and its dispatch
  leaves it unanswered, one between an escalation and the thread update leaves the bot on.
- A message can be edited or deleted while its job is at the provider (`messages.service.ts:182`);
  `SentAsStored` excludes exactly those (`meddled`).
- A failed send has the provider id `''`, and `waMessageId` is unique (`worker.ts:94`): a second failed
  message cannot store its verdict. In `Outbound` that is a query that fails (`JobCut`), no more.
- An item of a cancelled order can be changed, which returns its units twice; the update that
  takes the last unit leaves the product ACTIVE and an adjustment above zero leaves it
  OUT_OF_STOCK.
- Two PENDING refunds may together exceed the total; a crash between SUCCEEDED and the status
  of the order is never made up for.
- A new quote resets a booked or delivered row, and booking it with another carrier makes a
  second parcel; cancelling a delivery leaves the parcel; a late update takes the delivery's status back
  (`delivery.service.ts:394`), though never the order's.
- The tracking webhooks verify nothing (`delivery-webhook.routes.ts:22`, `:48`, `:74`, TODO) although their comment
  says signatures are checked per route (`:10`); `Deliveries` lets any status be reported.
- Item changes balance only while no two of them meet: `ItemsBalance` excludes overlapping changes, stale
  adjustments, cancelled orders and crashes, against "one transaction" of `docs/orders/README.md:70`;
  `ItemsCrash` is the shortest of these.
- The middleware reads `Idempotency-Key`; the frontend sends `X-Idempotency-Key`
  (`frontend/src/lib/api/client.ts:70`, `docs/developer/02-architecture-overview.md:105`). The marker lapses
  after 30 seconds while the handler may still run; a 4xx is replayed as 200.
- A replacement of a subscription that is cut between its two statements leaves the merchant
  with none (`SubscriptionKept` excludes exactly that); nothing enforces `cancelAtPeriodEnd`, and PAST_DUE and
  EXPIRED are never set.
- The AI engine is deaf after a reconnect until it restarts; an event returned before its first
  try counts as redelivered and is dead-lettered after one try (`NoEventSkipped` says so); no code binds a
  queue to the dead-letter exchange.
- A refresh that gave up its row before a password change inserts its successor after it
  (`PasswordChangeEndsSessions` excludes exactly those).

**Bounds.** `MaxReturns`, `MaxCheckouts`, `MaxRefunds`, `MaxOutages`, `MaxCrashes`, `MaxFailures`,
`MaxPosts`, `MaxExpiries`, `MaxErrors`, `MaxDrops`, `MaxPicks`, `MaxRuns`, `MaxLaunches`, `MaxMishaps`,
`MaxSendFaults`, `MaxRefundCrashes`, `MaxItemCrashes`, `MaxRows`, `MaxQuantity` and `MaxShelf` cap
counters in the guards. Two concurrent handlers
on one row are enough to show a lost update or a stale decision between two reads and two
commits; two lines and two restocks let a restock stop half way and run again, and two carts let the
stock guard refuse one. A checkout is one atomic step, so a second order would only take from a shelf
the first one shares; the theorems hold for any number of orders. Two checkouts of a payment give a webhook for
a reference that the row has left; two jobs with batches of two read the same rows, and an event
emitted after a read waits for the next job. A batch smaller than the backlog is not exercised, as
both are two; the theorems hold for any size. `PaymentsRace` has one checkout and no restocks: its properties do not mention stock, and the second checkout is in `PaymentsOneJob`. Calls, jobs and
requests are interchangeable and are declared symmetric in runs without liveness. In `BackOffice`
the two calls of each service share the model values `c1`, `c2`, and its two rows, its carriers and the
first two of its tokens or requests `r1`, `r2`, so one symmetry set serves every service: none of them
tells these apart. Three tokens let a
refresh be followed by another while a third login exists; two carriers and two picks give a
second parcel; two launches and two jobs let an old chunk finish under a new launch; a channel of
one makes the second event wait; two drops lose an event before and after its first try.

**Deadlock.** The systems here may stop: orders reach terminal states, the outbox empties, the
bounded retries end. Every run says `CHECK_DEADLOCK FALSE` for that reason.

**Fairness.** `OutboxRelay` assumes weak fairness of each job (BullMQ repeats it every ten
seconds), of the network, of the broker's recovery and of the delivery of a close event.
`AiConsumer` assumes that the broker delivers to a consumer with room and that handlers begin
and end, with an error if need be; it does not assume that a
lost connection comes back to life, and `AiSettles` claims nothing once one was lost, because the engine stays deaf.
Emitting events, outages, crashes, drops and failures are never assumed to happen. The other modules
state no fairness: no handler has to finish.

## Proofs

Every safety invariant and action property that a passing run checks is also a theorem, for every
value of the constants: any number of rows, calls, jobs, events, notices and carriers, any supply,
amounts and bounds. (One of them, `CreditedOnce`, needs one
payment handler at a time, as its run does.)

**Types.** `TypeCorrect`, `MoneyTypeCorrect`, `IngestTypeCorrect`, `RelayTypeCorrect`,
`AiTypeCorrect`, `SessionTypeCorrect`, `IdempotencyTypeCorrect`, `CampaignTypeCorrect`,
`ResponderTypeCorrect`, `OutboundTypeCorrect`, `DeliveryTypeCorrect`, `RefundTypeCorrect`,
`ItemTypeCorrect` and `SubscriptionTypeCorrect` prove each module's type invariant. Most are inductive as
they stand. `ItemTypeCorrect` needs `ItemFrameInv` (what a frame carries to its write is in range), and
`IngestTypeCorrect` the shape of the sequences a request walks. `MessagingTypeCorrect` and
`BackOfficeTypeCorrect` lift the step lemmas to the two compositions: a step of the whole is a step
of one part and leaves the others alone.

| Theorem | Statement | Inductive invariant and why it is needed |
|---|---|---|
| `ListingCorrect` | `Spec => []ListingMatchesStock` | with the types it is inductive: an order that empties a product marks it, units that come back relist it |
| `RestockCorrect` | `Spec => []RestockNeedsCancellation` | `RestockInv` adds what a frame of a restock remembers: its order was cancelled, or has a record |
| `StockCorrect` | `Spec => []StockAccounted` | `FreshInv`: an order not created yet took and returned nothing, so its creation moves exactly one term of the sum |
| `AttemptCorrect` | `Spec => []RestockPerAttempt` | `AttemptInv`: what came back, plus a line for every call that still owes one, is at most the lines of the returns begun |
| `MovesLegal` | `Spec => MovesFollowTheMachine` | `ReadAsLegal`: a commit in flight is a move the machine allows from what it read, and a marking call read a status to cancel and has its record |
| `RecordedMoneyReleased` | `MoneySpec => []RecordedMoneyReleasesOrder` | `ReleaseInv`: a commit or settle frame that saw the order leave PENDING_PAYMENT implies that it has, and it never returns there |
| `BooksCorrect` | `MoneySpec => []BooksFollowProvider` | `BooksInv`: a SUCCEEDED verdict in flight stands for a captured checkout, and a capture is permanent |
| `RefundRowsCorrect` | `MoneySpec => []RefundRowsAccepted` | `RowsInv`: recorded rows plus frames that owe one are at most the accepted pushes (a cardinality argument over `Jobs`) |
| `CreditsCorrect` | `MoneySpec => []CreditsPerHandler` | `CreditInv`: credits, plus the handlers that still saw PENDING_PAYMENT, are at most the handlers, since the first credit ends PENDING_PAYMENT for good |
| `SerialCreditedOnce` | one job slot `=> (MoneySpec => []CreditedOnce)` | `CreditsCorrect` with one handler |
| `DeskKept` | `MoneySpec => []` the order desk's invariants | `DeskInv` joins their inductive invariants; a payment handler only moves the payment and the status of an existing order, and never to CANCELLED |
| `PaidLostByStaleCancel` | `MoneySpec => [][LosesPaid(o) => StaleCancel(o)]` | `ReadAsLegal`, as above: no payment handler disturbs it |
| `OnePublish` | `Spec => []OnePublishPerClaim` | `ClaimInv`: a key's budget is 1 and 1 per expiry; a notice written, a request that claimed the key and a key free to be claimed each take one of it |
| `AnswerCorrect` | `Spec => []AnswerIsCovered` | `CoverInv`: while nothing went down the channel is open, a held key is covered or orphaned, and so is every notice a request has behind it |
| `HeldKeyCorrect` | `Spec => [](Undisturbed => ` each held key is orphaned, about to be published under, or was `)` | `CoverInv` says such a key is covered; `WrittenOnce` (a notice in the socket was written for its key) makes the cover a publish |
| `PublishedCorrect` | `Spec => []PublishedWhileCalm` | `CalmChannel` (every publish finds a channel) and `HeadIsSent` (a published head is in the socket or the exchange) |
| `CopiesCorrect` | `Spec => []CopiesBounded` | `CopiesInv`: until a row is marked, each copy is a job that still holds it or was cut; once it is, no job reads it again and each that still has it to send sends it once. `RowsDistinct`: no batch holds a row twice |
| `DeliveryRefined` | `Spec => Delivery!Safety` | `KnownRows`: whatever is in a batch or the socket was committed; each step is a commit, a delivery, a fault or a stutter |
| `SkippedCorrect` | `AiSpec => []NoEventSkipped` | `TriesCounted`: a redelivered event has a finished try or a drop behind it |
| `AiRunsCorrect` | `AiSpec => []AiRunsBounded` | `RunsPaid`: every run but two is paid by a drop |
| `RotationCorrect` | `SessionSpec => []OneLivePerLogin` | `RotationInv`: a call that gave up a row holds the only right to its login's next one, and no row of it is live meanwhile |
| `LinkCorrect` | `SessionSpec => []LinkSetsPasswordOnce` | `LinkInv`: only one call uses a consumed link, and it has not set the password yet |
| `PasswordChangeCorrect` | `SessionSpec => []PasswordChangeEndsSessions` | `EndingInv`: a call that still exchanges a row of an ended login is one the change was told of (`overtaken`) |
| `EffectsCorrect` | `IdempotencySpec => []EffectsBounded` | `EffectsPaid`: effects, entitled requests and a free key are paid by the lapses (a cardinality argument) |
| `ReplayCorrect` | `IdempotencySpec => []ReplayIsReal` | `SuccessIsReal`: a saved success stands for an effect |
| `DispatchCorrect` | `CampaignSpec => []RunningIsDispatched` | inductive: whoever gives up the job hands one on, stops the campaign or is counted in `lost` |
| `RepliesCorrect` | `ResponderSpec => []RepliesBounded` | `TurnInv`: a message has one job, which waits or runs, never both; while it may still reply, the run it is in has not |
| `HandOffCorrect` | `ResponderSpec => []HandOffSilencesBot` | with the types it is inductive |
| `AcceptedOnce` | `OutboundSpec => []AcceptedBounded` | `AcceptInv`: a job past its read works on a row that is not SENT, and until WhatsApp accepts a fault pays for every earlier acceptance |
| `SentStored` | `OutboundSpec => []SentAsStored` | `StoredInv`: unless an edit met the job, the text in flight, at WhatsApp and on the row is one |
| `CarrierForwardCorrect` | `DeliverySpec => CarrierMovesForward` | each of the three writers of the status follows the machine |
| `StatusCorrect` | `DeliverySpec => []OrderFollowsRow` | `RowInv`: the parcel of a row a tracking update found was booked, and so is the one a call is about to commit; a call about to move the order left its status in `tracked` |
| `RefundCoverage` | `RefundSpec => []RefundedIsBacked` | `InsertInv`: no two calls insert one row, so an insert overwrites nothing; `DirectInv`: a row of the payments endpoint, once written, is PROCESSING and no call may still change it; `SpendInv`: a call about to mark the payment has written one; `BackedInv`: a call about to turn the order saw a sum that still holds, or wrote such a row |
| `RefundPushes` | `RefundSpec => []PushesBounded` | `PushInv`: pushes and calls about to push are within the calls and crashes; a PENDING row that was accepted has a call about to record it, or one that died |
| `ItemsCorrect` | `ItemSpec => []ItemsBalance` | `ChangeInv`: the ledger of a change statement by statement: off by the difference between the move of the stock and the write of the line, the total off until the last write |
| `KeepsSubscription` | `SubscriptionSpec => []SubscriptionKept` | with the types, which say that the row of a frame exists, it is inductive: only the index makes it so, as a refused insert means another live row |

**What holds beside the findings.** Most findings have a theorem that says how far the code goes
wrong and when it does not: `PaidLostByStaleCancel` (the trace of `PaidCancelled` is the only way),
`CreditsCorrect` (`DoubleCredit`'s second credit needs a second handler at the same time),
`HeldKeyCorrect` (`IngestKeyHeld` needs an outage, a crash or a reply that Redis loses),
`PublishedCorrect` (`RelayOutage` needs an outage) and `ItemsCorrect` (`ItemsCrash` needs the crash).
`CancelRepeat` needs no overlap at all; `RestockCorrect` and `AttemptCorrect` are what remains of it:
lines come back for a cancellation only, and once per return begun.

**Sums.** `StockAccounted`, `RefundedIsBacked`, `ItemsBalance` and `OnePublishPerClaim` sum over rows, with
`SumFunctionOnSet` of the community modules. `SumFacts` proves what they need from its definition:
a fold chooses some element first, and a set of subsets of a finite set has a minimal one
(`MinimalSubset`), so a smallest subset on which a fact about sums fails would give a smaller one. That
yields, without an induction theorem, that any element may be taken out of a sum (`SumTakesOut`), that
changing one term moves the sum by its difference (`SumMoves`), and that sums are monotone.

**Assumptions.** Proofs rest on the named assumptions of the modules, which TLC evaluates in the
runs, and on the library's facts about sequences and finite sets. They say that bounds are naturals, that
the values for "none" are not among the real ones, and that the sets that are counted or summed
are finite: orders, calls, jobs, requests, notices, line items and refund rows. A database
holds finitely many rows and a process finitely many handlers, so the code justifies them.

**Only model-checked.** The liveness properties `OutboxDrains` and `AiSettles`, and the liveness half of
`DeliversAll`: fairness and ENABLED are out of the prover's reach. The six violated properties are
refuted by a trace, which is not a matter of proof.

## Plan

What a next step would add: variants and the inventory ledger, delivery claims, the invoice cycle of
subscriptions, the verification codes and lockout of `auth.service.ts`, the rate limiter; and the
theorems of those parts; a composition of payments, refunds and item changes over one order row, with
`DeskKept` and `RefundCoverage` lifted to it.

## Not modelled

Frontends, design system and seed data, which are most of the repository's lines, are presentation and
data. AI prompts and scoring have no shared state of their own; analytics only reads; provider
adapters call external HTTP services, whose answers are choices in `Payments`, `Deliveries` and
`Outbound`; BullMQ owns the retries of outbound webhooks; infrastructure is declarative and the
`_legacy-nestjs-scaffold` is not built. Of authentication the sessions and the reset links are
modelled, not credentials, lockout, verification codes and cryptography. CRUD endpoints that read one row and
write it back (stores, catalogue, tags, templates) have no protocol to check.
