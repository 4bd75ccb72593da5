--------------------------- MODULE WebhookIngest ---------------------------
(***************************************************************************)
(* The front door for provider callbacks, apps/webhook-handler: claim a    *)
(* dedupe key in Redis, publish to RabbitMQ, answer 200                    *)
(* (services/ingest.service.ts, main.ts and the routes of modules/).       *)
(*                                                                         *)
(* A provider posts a notice again until it is answered 200, and may post  *)
(* it again anyway.  A WhatsApp callback carries several messages, each    *)
(* claimed and published in turn; the other providers send one notice.     *)
(* The broker and the provider are external.                               *)
(***************************************************************************)
EXTENDS Naturals, Sequences, FiniteSets, Functions

CONSTANTS
  Notices,      \* what providers tell: payments, shipments, messages, delivery statuses
  KeyOf,        \* the dedupe key the route derives from a notice
  NoKey,        \* the key of a notice the routes do not dedupe
  Batches,      \* the callbacks providers send, as sequences of notices
  Requests,     \* callbacks in flight at the same time
  MaxPosts,     \* bound: times a callback is posted
  MaxExpiries,  \* bound: times a key's 48 h run out
  MaxOutages,   \* bound: times the broker goes down
  MaxCrashes,   \* bound: crashes of the handler
  MaxErrors     \* bound: Redis calls that get no answer

Keys == {KeyOf[n] : n \in Notices} \ {NoKey}

ASSUME IngestAssumption ==
  /\ Batches \subseteq Seq(Notices)
  /\ IsFiniteSet(Notices) /\ IsFiniteSet(Requests)
  /\ {MaxPosts, MaxExpiries, MaxOutages, MaxCrashes, MaxErrors} \subseteq Nat

VARIABLES
  claimed,   \* dedupe keys held in Redis
  orphaned,  \* history variable: keys set by a call that never learned it, and nothing
             \* published under them since
  broker,    \* "up" or "down"
  channel,   \* "open", "dead" (its close event is yet to come), "none", or "booting"
  timers,    \* reconnect timers running
  socket,    \* notices written to the channel that the broker is yet to receive
  written,   \* history variable: times each notice was written to a channel
  queued,    \* notices the exchange received
  request,   \* each callback in flight: its batch, what is left, is the first claimed
  posts,     \* times each callback was posted
  answered,  \* callbacks answered 200
  expiries,  \* times each key expired
  outages, crashes, errors

redis  == <<claimed, orphaned, expiries>>
amqp   == <<broker, channel, timers, socket, written, queued>>
http   == <<request, posts, answered>>
faults == <<outages, crashes, errors>>
vars   == <<redis, amqp, http, faults>>

NoRequest == [batch |-> <<>>, todo |-> <<>>, fresh |-> FALSE]
Members(s) == {s[i] : i \in DOMAIN s}

Init ==
  /\ claimed = {}
  /\ orphaned = {}
  /\ broker = "up"
  /\ channel = "open"
  /\ timers = 0
  /\ socket = <<>>
  /\ written = [n \in Notices |-> 0]
  /\ queued = {}
  /\ request = [r \in Requests |-> NoRequest]
  /\ posts = [b \in Batches |-> 0]
  /\ answered = {}
  /\ expiries = [k \in Keys |-> 0]
  /\ outages = 0 /\ crashes = 0 /\ errors = 0

-----------------------------------------------------------------------------
(* The provider, external.                                                 *)

Post(r, b) ==
  /\ channel # "booting"
  /\ request[r] = NoRequest
  /\ posts[b] < MaxPosts
  /\ posts' = [posts EXCEPT ![b] = @ + 1]
  /\ request' = [request EXCEPT ![r] = [batch |-> b, todo |-> b, fresh |-> FALSE]]
  /\ UNCHANGED <<redis, amqp, answered, faults>>

-----------------------------------------------------------------------------
(* A callback with a valid signature and body.                             *)

ClaimUnused(k) == TRUE                                         \* mutant
Claims(k) == k = NoKey \/ k \notin claimed

HeldAlways(k) == {k}                                           \* mutant
Held(k) == {k} \ {NoKey}

SkipRest(r) == [request EXCEPT ![r].todo = <<>>, ![r].fresh = FALSE]   \* mutant
Skip(r) == [request EXCEPT ![r].todo = Tail(@), ![r].fresh = FALSE]

\* SET NX: a key somebody holds makes the notice a duplicate, which is passed over.
acquireDedupeKey(r) ==
  /\ request[r].todo # <<>>
  /\ ~request[r].fresh
  /\ LET k == KeyOf[Head(request[r].todo)]
     IN \/ /\ Claims(k)
           /\ claimed' = claimed \cup Held(k)
           /\ request' = [request EXCEPT ![r].fresh = TRUE]
        \/ /\ ~Claims(k)
           /\ request' = Skip(r)
           /\ UNCHANGED claimed
  /\ UNCHANGED <<orphaned, amqp, posts, answered, expiries, faults>>

\* The connection fails before Redis has seen the SET, or after it has applied it.  ioredis
\* sends the command again once it has reconnected, and a SET that was applied then
\* answers null: the notice is passed over as a duplicate of itself.  When the attempts run
\* out the call throws and the error handler sends 500.
RedisFails(r) ==
  /\ request[r].todo # <<>>
  /\ ~request[r].fresh /\ KeyOf[Head(request[r].todo)] # NoKey
  /\ errors < MaxErrors
  /\ errors' = errors + 1
  /\ LET k == KeyOf[Head(request[r].todo)]
         Applied == /\ claimed' = claimed \cup {k}
                    /\ orphaned' = orphaned \cup ({k} \ claimed)
         Throws  == request' = [request EXCEPT ![r] = NoRequest]
     IN \/ Throws /\ UNCHANGED <<claimed, orphaned>>
        \/ Throws /\ Applied
        \/ request' = Skip(r) /\ Applied
  /\ UNCHANGED <<expiries, amqp, posts, answered, outages, crashes>>

\* Without an open channel the call throws and the error handler sends 500.
publish(r) ==
  /\ request[r].fresh
  /\ LET n == Head(request[r].todo)
     IN \/ /\ channel = "open"
           /\ socket' = Append(socket, n)
           /\ written' = [written EXCEPT ![n] = @ + 1]
           /\ orphaned' = orphaned \ {KeyOf[n]}
           /\ request' = Skip(r)
        \/ /\ channel # "open"
           /\ request' = [request EXCEPT ![r] = NoRequest]
           /\ UNCHANGED <<orphaned, socket, written>>
  /\ UNCHANGED <<claimed, expiries, broker, channel, timers, queued, posts, answered, faults>>

Answer(r) ==
  /\ request[r] # NoRequest
  /\ request[r].todo = <<>>
  /\ answered' = answered \cup {request[r].batch}
  /\ request' = [request EXCEPT ![r] = NoRequest]
  /\ UNCHANGED <<redis, amqp, posts, faults>>

\* The key's 48 hours run out.
ExpireKey(k) ==
  /\ k \in claimed
  /\ expiries[k] < MaxExpiries
  /\ expiries' = [expiries EXCEPT ![k] = @ + 1]
  /\ claimed' = claimed \ {k}
  /\ UNCHANGED <<orphaned, amqp, http, faults>>

-----------------------------------------------------------------------------
(* RabbitMQ, external, and the handler's connection to it.                 *)

Receive ==
  /\ channel = "open"
  /\ socket # <<>>
  /\ queued' = queued \cup {Head(socket)}
  /\ socket' = Tail(socket)
  /\ UNCHANGED <<redis, broker, channel, timers, written, http, faults>>

BrokerDown ==
  /\ broker = "up"
  /\ outages < MaxOutages
  /\ outages' = outages + 1
  /\ broker' = "down"
  /\ channel' = IF channel = "open" THEN "dead" ELSE channel
  /\ socket' = <<>>
  /\ UNCHANGED <<redis, timers, written, queued, http, crashes, errors>>

BrokerUp ==
  /\ broker = "down"
  /\ broker' = "up"
  /\ UNCHANGED <<redis, channel, timers, socket, written, queued, http, faults>>

\* reconnect() runs for the close event, and before it for the error event if there is
\* one; each run starts a timer.
ChannelClosed ==
  /\ channel = "dead"
  /\ channel' = "none"
  /\ \E started \in 1..2 : timers' = timers + started
  /\ UNCHANGED <<redis, broker, socket, written, queued, http, faults>>

\* A failed attempt is swallowed and starts no further timer.
connectRabbit ==
  /\ timers > 0
  /\ timers' = timers - 1
  /\ channel' = IF broker = "up" THEN "open" ELSE channel
  /\ UNCHANGED <<redis, broker, socket, written, queued, http, faults>>

Crash ==
  /\ channel # "booting"
  /\ crashes < MaxCrashes
  /\ crashes' = crashes + 1
  /\ channel' = "booting"
  /\ timers' = 0
  /\ socket' = <<>>
  /\ request' = [r \in Requests |-> NoRequest]
  /\ UNCHANGED <<redis, broker, written, queued, posts, answered, outages, errors>>

\* The handler listens only after its first connect; until then it is restarted.
bootstrap ==
  /\ channel = "booting"
  /\ broker = "up"
  /\ channel' = "open"
  /\ UNCHANGED <<redis, broker, timers, socket, written, queued, http, faults>>

-----------------------------------------------------------------------------
Handle(r) == acquireDedupeKey(r) \/ publish(r) \/ Answer(r)

Next ==
  \/ \E r \in Requests, b \in Batches : Post(r, b)
  \/ \E r \in Requests : Handle(r) \/ RedisFails(r)
  \/ \E k \in Keys : ExpireKey(k)
  \/ Receive \/ BrokerDown \/ BrokerUp \/ ChannelClosed \/ connectRabbit
  \/ Crash \/ bootstrap

Spec == Init /\ [][Next]_vars

-----------------------------------------------------------------------------
(* Properties.                                                             *)

\* Redis, the socket and the frames have the shapes the handler gives them.
TypeOK ==
  /\ claimed \subseteq Keys /\ orphaned \subseteq Keys
  /\ broker \in {"up", "down"}
  /\ channel \in {"open", "dead", "none", "booting"}
  /\ timers \in Nat
  /\ socket \in Seq(Notices)
  /\ written \in [Notices -> Nat]
  /\ queued \subseteq Notices
  /\ \A r \in Requests :
       /\ request[r] = NoRequest \/ request[r].batch \in Batches
       /\ request[r].todo \in Seq(Notices)
       /\ request[r].fresh => request[r].todo # <<>>
  /\ posts \in [Batches -> Nat]
  /\ answered \subseteq Batches
  /\ expiries \in [Keys -> Nat]

WrittenFor(k) == SumFunctionOnSet(written, {n \in Notices : KeyOf[n] = k})

\* "SET NX with 48h TTL collapses duplicates before they touch any queue": between two
\* expiries of a key one notice is published under it, however many retries overlap.
OnePublishPerClaim == \A k \in Keys : WrittenFor(k) <= 1 + expiries[k]

Publishing(k) ==
  \E r \in Requests : request[r].fresh /\ KeyOf[Head(request[r].todo)] = k

Undisturbed == outages = 0 /\ crashes = 0
Sent(n) == n \in queued \/ n \in Members(socket)

\* The notice, or one with its key, is in the exchange or on its way there, or a request
\* that claimed the key is about to publish.
Covered(n) ==
  \/ Sent(n)
  \/ /\ KeyOf[n] # NoKey
     /\ Publishing(KeyOf[n]) \/ \E m \in Notices : KeyOf[m] = KeyOf[n] /\ Sent(m)

\* While the broker and the handler stay up, 200 covers each notice of the callback, also
\* for the duplicate that is answered before the first request has published.  Only a key
\* that Redis set without the handler learning it answers for a notice nobody publishes.
AnswerIsCovered ==
  Undisturbed =>
    \A b \in answered : \A n \in Members(b) : Covered(n) \/ KeyOf[n] \in orphaned

\* "Release a claimed dedupe key when we fail BEFORE publishing": a key that is held, with
\* no request working under it, stands for a published notice.
HeldKeyWasPublished ==
  \A k \in claimed : Publishing(k) \/ WrittenFor(k) > 0
=============================================================================
