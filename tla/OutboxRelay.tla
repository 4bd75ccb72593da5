---------------------------- MODULE OutboxRelay ----------------------------
(***************************************************************************)
(* From the outbox table to the RabbitMQ exchange: relayOutbox() in        *)
(* apps/backend/src/worker.ts over publishDomainEvent() and                *)
(* ensureChannel() in apps/backend/src/lib/rabbit.ts.                      *)
(*                                                                         *)
(* Handlers write the row of an event in the transaction of the change it  *)
(* tells of.  Every ten seconds a maintenance job reads a batch of         *)
(* unprocessed rows, publishes each and marks it processed.  The jobs of   *)
(* one worker process run concurrently and share one connection.  The      *)
(* client writes to a socket without publisher confirms, so what it        *)
(* accepted still has to reach the broker.                                 *)
(***************************************************************************)
EXTENDS Naturals, Sequences, FiniteSets

CONSTANTS
  Events,       \* rows a behaviour may write
  Relays,       \* relay jobs that may run at the same time
  OUTBOX_BATCH,
  MaxOutages,   \* bound: times the broker goes down
  MaxCrashes,   \* bound: crashes of the worker process
  MaxFailures   \* bound: relay jobs the database fails

ASSUME RelayBounds ==
  /\ OUTBOX_BATCH \in Nat \ {0}
  /\ MaxOutages \in Nat /\ MaxCrashes \in Nat /\ MaxFailures \in Nat
  /\ IsFiniteSet(Relays)

VARIABLES
  outbox,    \* the committed rows, oldest first
  processed, \* rows with processedAt set
  broker,    \* "up" or "down"
  channel,   \* the worker's channel: "none", "open", "dead" (its close event is yet to
             \* come) or "failed" (the rejected connect promise is cached)
  socket,    \* events written to the channel that the broker is yet to receive
  copies,    \* how many times the exchange received each event
  relay,     \* each job: the rows still to do, and whether the first is published
  outages, crashes, failures

vars == <<outbox, processed, broker, channel, socket, copies, relay,
          outages, crashes, failures>>
jobs == <<outbox, processed, relay>>
faults == <<outages, crashes, failures>>

Idle == [todo |-> <<>>, published |-> FALSE]

Init ==
  /\ outbox = <<>>
  /\ processed = {}
  /\ broker = "up"
  /\ channel = "none"
  /\ socket = <<>>
  /\ copies = [e \in Events |-> 0]
  /\ relay = [r \in Relays |-> Idle]
  /\ outages = 0 /\ crashes = 0 /\ failures = 0

Written == {outbox[i] : i \in DOMAIN outbox}
EveryRow == DOMAIN outbox                                      \* mutant
Unprocessed == {i \in DOMAIN outbox : outbox[i] \notin processed}

-----------------------------------------------------------------------------
\* A handler's transaction commits with its event.
Emit(e) ==
  /\ e \notin Written
  /\ outbox' = Append(outbox, e)
  /\ UNCHANGED <<processed, broker, channel, socket, copies, relay, faults>>

\* The query: the oldest unprocessed rows, at most OUTBOX_BATCH of them.
IsBatch(rows) ==
  /\ \A i, j \in DOMAIN rows : i < j => rows[i] < rows[j]
  /\ \A row \in Unprocessed : \/ \E i \in DOMAIN rows : rows[i] = row
                              \/ Len(rows) = OUTBOX_BATCH /\ rows[OUTBOX_BATCH] < row

BeginRelay(r) ==
  /\ relay[r] = Idle
  /\ \E n \in 1 .. OUTBOX_BATCH : \E rows \in [1 .. n -> Unprocessed] :
       /\ IsBatch(rows)
       /\ relay' = [relay EXCEPT ![r] = [todo |-> [i \in 1 .. n |-> outbox[rows[i]]],
                                         published |-> FALSE]]
  /\ UNCHANGED <<outbox, processed, broker, channel, socket, copies, faults>>

NeverStored(chan) == IF chan # "none" THEN chan ELSE "failed"   \* mutant
\* The channel a publish finds: a failed connect is never tried again.
ensureChannel(chan) == IF chan # "none" THEN chan
                       ELSE IF broker = "up" THEN "open" ELSE "failed"

\* Without a channel the event is dropped with a warning, and the job goes on.
publishDomainEvent(r) ==
  /\ relay[r].todo # <<>>
  /\ ~relay[r].published
  /\ channel' = ensureChannel(channel)
  /\ socket' = IF channel' = "open" THEN Append(socket, Head(relay[r].todo)) ELSE socket
  /\ relay' = [relay EXCEPT ![r].published = TRUE]
  /\ UNCHANGED <<outbox, processed, broker, copies, faults>>

MarkFirst(r) ==                                                \* mutant
  /\ relay[r].todo # <<>>
  /\ processed' = processed \cup {Head(relay[r].todo)}
  /\ relay' = [relay EXCEPT ![r] = [todo |-> Tail(@.todo), published |-> FALSE]]
  /\ UNCHANGED <<outbox, broker, channel, socket, copies, faults>>
MarkIfSent(r) ==                                               \* mutant
  /\ relay[r].published
  /\ processed' = IF channel = "open" THEN processed \cup {Head(relay[r].todo)}
                                      ELSE processed
  /\ relay' = [relay EXCEPT ![r] = [todo |-> Tail(@.todo), published |-> FALSE]]
  /\ UNCHANGED <<outbox, broker, channel, socket, copies, faults>>
StaysPublished(r) ==                                           \* mutant
  /\ relay[r].published
  /\ processed' = processed \cup {Head(relay[r].todo)}
  /\ relay' = [relay EXCEPT ![r].todo = Tail(@)]
  /\ UNCHANGED <<outbox, broker, channel, socket, copies, faults>>
MarkProcessed(r) ==
  /\ relay[r].published
  /\ processed' = processed \cup {Head(relay[r].todo)}
  /\ relay' = [relay EXCEPT ![r] = [todo |-> Tail(@.todo), published |-> FALSE]]
  /\ UNCHANGED <<outbox, broker, channel, socket, copies, faults>>

\* A query of the job fails; the rows it has not marked stay unprocessed.
RelayFails(r) ==
  /\ relay[r] # Idle
  /\ failures < MaxFailures
  /\ failures' = failures + 1
  /\ relay' = [relay EXCEPT ![r] = Idle]
  /\ UNCHANGED <<outbox, processed, broker, channel, socket, copies, outages, crashes>>

-----------------------------------------------------------------------------
(* RabbitMQ and the worker process, external.                              *)

Receive ==
  /\ channel = "open"
  /\ socket # <<>>
  /\ copies' = [copies EXCEPT ![Head(socket)] = @ + 1]
  /\ socket' = Tail(socket)
  /\ UNCHANGED <<jobs, broker, channel, faults>>

BrokerDown ==
  /\ broker = "up"
  /\ outages < MaxOutages
  /\ outages' = outages + 1
  /\ broker' = "down"
  /\ channel' = IF channel = "open" THEN "dead" ELSE channel
  /\ socket' = <<>>
  /\ UNCHANGED <<jobs, copies, crashes, failures>>

BrokerUp ==
  /\ broker = "down"
  /\ broker' = "up"
  /\ UNCHANGED <<jobs, channel, socket, copies, faults>>

\* The connection's close event resets the cached channel.
ChannelClosed ==
  /\ channel = "dead"
  /\ channel' = "none"
  /\ UNCHANGED <<jobs, broker, socket, copies, faults>>

Crash ==
  /\ crashes < MaxCrashes
  /\ crashes' = crashes + 1
  /\ relay' = [r \in Relays |-> Idle]
  /\ channel' = "none"
  /\ socket' = <<>>
  /\ UNCHANGED <<outbox, processed, broker, copies, outages, failures>>

-----------------------------------------------------------------------------
Relay(r) == BeginRelay(r) \/ publishDomainEvent(r) \/ MarkProcessed(r)

Next ==
  \/ \E e \in Events : Emit(e)
  \/ \E r \in Relays : Relay(r) \/ RelayFails(r)
  \/ Receive \/ BrokerDown \/ BrokerUp \/ ChannelClosed \/ Crash

\* The repeatable job comes back every ten seconds and the network moves.
Fairness ==
  /\ \A r \in Relays : WF_vars(Relay(r))
  /\ WF_vars(Receive)
  /\ WF_vars(BrokerUp)
  /\ WF_vars(ChannelClosed)

Spec     == Init /\ [][Next]_vars
FairSpec == Spec /\ Fairness

-----------------------------------------------------------------------------
(* Properties.                                                             *)

\* Rows, frames and the connection have the shapes the worker gives them; a job that has
\* published still holds the row to mark.
TypeOK ==
  /\ outbox \in Seq(Events)
  /\ processed \subseteq Events
  /\ broker \in {"up", "down"}
  /\ channel \in {"none", "open", "dead", "failed"}
  /\ socket \in Seq(Events)
  /\ copies \in [Events -> Nat]
  /\ relay \in [Relays -> [todo : Seq(Events), published : BOOLEAN]]
  /\ \A r \in Relays : relay[r].published => relay[r].todo # <<>>
  /\ outages \in Nat /\ crashes \in Nat /\ failures \in Nat

InSocket(e) == \E i \in DOMAIN socket : socket[i] = e
Sent(e) == copies[e] + Cardinality({i \in DOMAIN socket : socket[i] = e})

Calm == outages + crashes = 0

\* "outbox accumulates in PG; relay catches up on recovery": a row leaves the outbox only
\* once its event is in the exchange or on its way there.
ProcessedWasPublished == \A e \in processed : copies[e] > 0 \/ InSocket(e)

\* The same while broker and worker stay up, however jobs overlap and fail.
PublishedWhileCalm == Calm => ProcessedWasPublished

\* The relay repeats an event only as often as jobs overlap, fail or crash: every job
\* sends a row once, and a marked row is never read again.
CopiesBounded ==
  \A e \in Events : Sent(e) <= Cardinality(Relays) * (1 + crashes) + failures

\* The outbox drains: every row is eventually processed, through outages and crashes.
OutboxDrains == \A e \in Events : (e \in Written) ~> (e \in processed)

\* The relay implements EventDelivery: at least once, until an outage or a crash.
Delivery == INSTANCE EventDelivery
  WITH committed <- Written, delivered <- {e \in Events : copies[e] > 0}, lossy <- ~Calm
DeliversAll == Delivery!Spec
=============================================================================
