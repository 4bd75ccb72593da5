------------------------ MODULE WebhookIngestProofs ------------------------
(***************************************************************************)
(* What holds of the front door for every set of notices, requests and     *)
(* callbacks, and every bound on posts, expiries, outages, crashes and     *)
(* failed Redis calls.                                                     *)
(***************************************************************************)
EXTENDS WebhookIngest, SumFacts

-----------------------------------------------------------------------------
(* Types.  A request is in flight with a frame, and a step of the front    *)
(* door moves at most one of them on, except a crash, which drops all.     *)

Frames == [batch : Seq(Notices), todo : Seq(Notices), fresh : BOOLEAN]
FramesTyped == request \in [Requests -> Frames]
IngestTypes == TypeOK /\ FramesTyped

Moves(r, f) == request' = [request EXCEPT ![r] = f]

LEMMA NoRequestTyped == NoRequest \in Frames
  BY DEF NoRequest, Frames

LEMMA MovesTyped ==
  ASSUME IngestTypes, NEW r \in Requests, NEW f, Moves(r, f)
  PROVE  /\ request'[r] = f
         /\ \A q \in Requests : q # r => request'[q] = request[q]
         /\ f \in Frames => FramesTyped'
  BY DEF IngestTypes, FramesTyped, Moves

\* What the steps of a request do to its frame.
LEMMA FrameSteps ==
  ASSUME IngestTypes, NEW r \in Requests
  PROVE  /\ request[r] \in Frames
         /\ request[r].todo # <<>> => /\ Head(request[r].todo) \in Notices
                                      /\ Tail(request[r].todo) \in Seq(Notices)
         /\ request' = Skip(r) =>
              Moves(r, [request[r] EXCEPT !.todo = Tail(@), !.fresh = FALSE])
         /\ request' = [request EXCEPT ![r].fresh = TRUE] =>
              Moves(r, [request[r] EXCEPT !.fresh = TRUE])
<1>1. request \in [Requests -> Frames] /\ request[r] \in Frames
  BY DEF IngestTypes, FramesTyped
<1>2. request[r].todo \in Seq(Notices)
  BY <1>1 DEF Frames
<1>3. request[r].todo # <<>> => /\ Head(request[r].todo) \in Notices
                                /\ Tail(request[r].todo) \in Seq(Notices)
  BY <1>2
<1>4. Skip(r) = [request EXCEPT ![r] = [request[r] EXCEPT !.todo = Tail(@), !.fresh = FALSE]]
  BY <1>1 DEF Skip, Frames
<1>5. [request EXCEPT ![r].fresh = TRUE] = [request EXCEPT ![r] = [request[r] EXCEPT !.fresh = TRUE]]
  BY <1>1 DEF Frames
<1>6. QED
  BY <1>1, <1>3, <1>4, <1>5 DEF Moves

\* What the type invariant says of one frame.
FrameOK(f) ==
  /\ f \in Frames
  /\ f = NoRequest \/ f.batch \in Batches
  /\ f.fresh => f.todo # <<>>

LEMMA RequestsMove ==
  ASSUME IngestTypes, NEW r \in Requests, NEW f, FrameOK(f), Moves(r, f)
  PROVE  /\ FramesTyped'
         /\ \A q \in Requests :
              /\ request'[q] = NoRequest \/ request'[q].batch \in Batches
              /\ request'[q].todo \in Seq(Notices)
              /\ request'[q].fresh => request'[q].todo # <<>>
<1>1. FramesTyped' /\ request'[r] = f /\ \A q \in Requests : q # r => request'[q] = request[q]
  BY MovesTyped DEF FrameOK
<1>2. \A q \in Requests :
        /\ request[q] = NoRequest \/ request[q].batch \in Batches
        /\ request[q].todo \in Seq(Notices)
        /\ request[q].fresh => request[q].todo # <<>>
  BY DEF IngestTypes, TypeOK
<1>3. f.todo \in Seq(Notices)
  BY DEF FrameOK, Frames
<1>4. QED
  BY <1>1, <1>2, <1>3 DEF FrameOK

\* Every step of a request leaves a frame of the right shape.
LEMMA FramesOK ==
  ASSUME IngestTypes, NEW r \in Requests
  PROVE  /\ FrameOK(NoRequest)
         /\ \A b \in Batches : FrameOK([batch |-> b, todo |-> b, fresh |-> FALSE])
         /\ request[r].todo # <<>> =>
              /\ FrameOK([request[r] EXCEPT !.todo = Tail(@), !.fresh = FALSE])
              /\ FrameOK([request[r] EXCEPT !.fresh = TRUE])
<1>1. FrameOK(NoRequest)
  BY NoRequestTyped DEF FrameOK, NoRequest
<1>2. \A b \in Batches : FrameOK([batch |-> b, todo |-> b, fresh |-> FALSE])
  BY IngestAssumption DEF FrameOK, Frames
<1>3. ASSUME request[r].todo # <<>>
      PROVE  /\ FrameOK([request[r] EXCEPT !.todo = Tail(@), !.fresh = FALSE])
             /\ FrameOK([request[r] EXCEPT !.fresh = TRUE])
  <2>1. request[r] \in Frames /\ Tail(request[r].todo) \in Seq(Notices)
    BY <1>3, FrameSteps
  <2>2. request[r] # NoRequest
    BY <1>3 DEF NoRequest
  <2>3. request[r].batch \in Batches
    BY <2>2 DEF IngestTypes, TypeOK
  <2>4. QED
    BY <1>3, <2>1, <2>3 DEF FrameOK, Frames
<1>4. QED
  BY <1>1, <1>2, <1>3

LEMMA KeysFacts == NoKey \notin Keys /\ \A n \in Notices : KeyOf[n] \in Keys \/ KeyOf[n] = NoKey
  BY DEF Keys

LEMMA IngestTypesStep == IngestTypes /\ [Next]_vars => IngestTypes'
<1> SUFFICES ASSUME IngestTypes, [Next]_vars PROVE IngestTypes'
  OBVIOUS
<1>1. CASE UNCHANGED vars
  BY <1>1 DEF vars, redis, amqp, http, faults, TypeOK, FramesTyped, IngestTypes
<1>2. ASSUME NEW r \in Requests, NEW b \in Batches, Post(r, b)
      PROVE  IngestTypes'
  <2>1. Moves(r, [batch |-> b, todo |-> b, fresh |-> FALSE])
    BY <1>2 DEF Post, Moves
  <2>2. posts' \in [Batches -> Nat]
    BY <1>2 DEF Post, TypeOK, IngestTypes
  <2>3. QED
    BY <1>2, <2>1, <2>2, FramesOK, RequestsMove
       DEF Post, TypeOK, redis, amqp, faults, IngestTypes
<1>3. ASSUME NEW r \in Requests, acquireDedupeKey(r) \/ publish(r) \/ Answer(r) \/ RedisFails(r)
      PROVE  IngestTypes'
  <2>1. \E f : FrameOK(f) /\ Moves(r, f)
    <3>1. CASE acquireDedupeKey(r)
      BY <3>1, FramesOK, FrameSteps DEF acquireDedupeKey
    <3>2. CASE publish(r)
      <4>1. request[r].todo # <<>>
        BY <3>2 DEF publish, IngestTypes, TypeOK
      <4>2. QED
        BY <3>2, <4>1, FramesOK, FrameSteps DEF publish, Moves
    <3>3. CASE Answer(r)
      BY <3>3, FramesOK DEF Answer, Moves
    <3>4. CASE RedisFails(r)
      <4>1. /\ request[r].todo # <<>>
            /\ request' = Skip(r) \/ request' = [request EXCEPT ![r] = NoRequest]
        BY <3>4 DEF RedisFails
      <4>2. QED
        BY <4>1, FramesOK, FrameSteps DEF Moves
    <3>5. QED
      BY <1>3, <3>1, <3>2, <3>3, <3>4
  <2>2. /\ FramesTyped'
        /\ \A q \in Requests :
              /\ request'[q] = NoRequest \/ request'[q].batch \in Batches
              /\ request'[q].todo \in Seq(Notices)
              /\ request'[q].fresh => request'[q].todo # <<>>
    BY <2>1, RequestsMove
  <2>3. claimed' \subseteq Keys /\ orphaned' \subseteq Keys
    <3>1. CASE acquireDedupeKey(r)
      <4>1. Head(request[r].todo) \in Notices
        BY <3>1, FrameSteps DEF acquireDedupeKey
      <4>2. Held(KeyOf[Head(request[r].todo)]) \subseteq Keys
        BY <4>1 DEF Held, Keys
      <4>3. QED
        BY <3>1, <4>2 DEF acquireDedupeKey, IngestTypes, TypeOK
    <3>2. CASE publish(r) \/ Answer(r)
      BY <3>2 DEF publish, Answer, redis, IngestTypes, TypeOK
    <3>3. CASE RedisFails(r)
      <4>1. KeyOf[Head(request[r].todo)] \in Keys
        BY <3>3, FrameSteps, KeysFacts DEF RedisFails
      <4>2. QED
        BY <3>3, <4>1 DEF RedisFails, IngestTypes, TypeOK
    <3>4. QED
      BY <1>3, <3>1, <3>2, <3>3
  <2>4. socket' \in Seq(Notices) /\ written' \in [Notices -> Nat]
    <3>1. CASE publish(r)
      <4>1. Head(request[r].todo) \in Notices
        BY <3>1, FrameSteps DEF publish, IngestTypes, TypeOK
      <4>2. socket \in Seq(Notices) /\ written \in [Notices -> Nat]
        BY DEF IngestTypes, TypeOK
      <4>3. CASE channel = "open"
        <5>1. /\ socket' = Append(socket, Head(request[r].todo))
              /\ written' = [written EXCEPT ![Head(request[r].todo)] = @ + 1]
          BY <3>1, <4>3 DEF publish
        <5>2. QED
          BY <4>1, <4>2, <5>1
      <4>4. CASE channel # "open"
        BY <3>1, <4>2, <4>4 DEF publish
      <4>5. QED
        BY <4>3, <4>4
    <3>2. CASE acquireDedupeKey(r) \/ Answer(r) \/ RedisFails(r)
      BY <3>2 DEF acquireDedupeKey, Answer, RedisFails, amqp, IngestTypes, TypeOK
    <3>3. QED
      BY <1>3, <3>1, <3>2
  <2>5. answered' \subseteq Batches
    <3>1. CASE Answer(r)
      BY <3>1 DEF Answer, IngestTypes, TypeOK
    <3>2. CASE acquireDedupeKey(r) \/ publish(r) \/ RedisFails(r)
      BY <3>2 DEF acquireDedupeKey, publish, RedisFails, IngestTypes, TypeOK
    <3>3. QED
      BY <1>3, <3>1, <3>2
  <2>6. UNCHANGED <<broker, channel, timers, queued, posts, expiries>>
    BY <1>3 DEF acquireDedupeKey, publish, Answer, RedisFails, amqp, redis
  <2>7. QED
    BY <2>2, <2>3, <2>4, <2>5, <2>6 DEF TypeOK, IngestTypes
<1>4. ASSUME NEW k \in Keys, ExpireKey(k)
      PROVE  IngestTypes'
  <2>1. claimed' \subseteq Keys /\ expiries' \in [Keys -> Nat]
    BY <1>4 DEF ExpireKey, TypeOK, IngestTypes
  <2>2. QED
    BY <1>4, <2>1 DEF ExpireKey, TypeOK, FramesTyped, amqp, http, faults, IngestTypes
<1>5. CASE Receive
  <2>1. queued' \subseteq Notices /\ socket' \in Seq(Notices)
    BY <1>5 DEF Receive, TypeOK, IngestTypes
  <2>2. QED
    BY <1>5, <2>1 DEF Receive, TypeOK, FramesTyped, IngestTypes, redis, http, faults
<1>6. CASE BrokerDown \/ BrokerUp \/ ChannelClosed \/ connectRabbit \/ bootstrap
  <2>1. timers' \in Nat
    BY <1>6 DEF BrokerDown, BrokerUp, ChannelClosed, connectRabbit, bootstrap, TypeOK, IngestTypes
  <2>2. socket' \in Seq(Notices)
    <3>1. socket \in Seq(Notices) /\ <<>> \in Seq(Notices)
      BY DEF TypeOK, IngestTypes
    <3>2. socket' = socket \/ socket' = <<>>
      BY <1>6 DEF BrokerDown, BrokerUp, ChannelClosed, connectRabbit, bootstrap
    <3>3. QED
      BY <3>1, <3>2
  <2>3. broker' \in {"up", "down"} /\ channel' \in {"open", "dead", "none", "booting"}
    BY <1>6 DEF BrokerDown, BrokerUp, ChannelClosed, connectRabbit, bootstrap, TypeOK, IngestTypes
  <2>4. UNCHANGED <<claimed, orphaned, expiries, written, queued, request, posts, answered>>
    BY <1>6 DEF BrokerDown, BrokerUp, ChannelClosed, connectRabbit, bootstrap, redis, http
  <2>5. QED
    BY <2>1, <2>2, <2>3, <2>4 DEF TypeOK, FramesTyped, IngestTypes
<1>7. CASE Crash
  <2>1. FramesTyped' /\ \A q \in Requests : request'[q] = NoRequest
    BY <1>7, NoRequestTyped DEF Crash, FramesTyped
  <2>2. NoRequest.todo = <<>> /\ <<>> \in Seq(Notices) /\ ~NoRequest.fresh
    BY DEF NoRequest
  <2>3. \A q \in Requests : /\ request'[q] = NoRequest \/ request'[q].batch \in Batches
                            /\ request'[q].todo \in Seq(Notices)
                            /\ request'[q].fresh => request'[q].todo # <<>>
    BY <2>1, <2>2
  <2>4. QED
    BY <1>7, <2>1, <2>3 DEF Crash, TypeOK, IngestTypes, redis
<1>8. QED
  BY <1>1, <1>2, <1>3, <1>4, <1>5, <1>6, <1>7 DEF Next, Handle

LEMMA IngestTypesInit == Init => IngestTypes
<1> SUFFICES ASSUME Init PROVE IngestTypes
  OBVIOUS
<1>1. NoRequest.todo = <<>> /\ <<>> \in Seq(Notices) /\ ~NoRequest.fresh
  BY DEF NoRequest
<1>2. \A q \in Requests : /\ request[q] = NoRequest \/ request[q].batch \in Batches
                          /\ request[q].todo \in Seq(Notices)
                          /\ request[q].fresh => request[q].todo # <<>>
  BY <1>1 DEF Init
<1>3. FramesTyped
  BY NoRequestTyped DEF Init, FramesTyped
<1>4. QED
  BY <1>2, <1>3 DEF Init, IngestTypes, TypeOK

LEMMA IngestTyped == Spec => []IngestTypes
  BY IngestTypesInit, IngestTypesStep, PTL DEF Spec

\* Redis, the socket and the frames of the requests keep the shapes the handler gives them.
THEOREM IngestTypeCorrect == Spec => []TypeOK
<1>1. IngestTypes => TypeOK
  BY DEF IngestTypes
<1>2. QED
  BY <1>1, IngestTyped, PTL

-----------------------------------------------------------------------------
(* One publish per claim.  A key's budget of publishes is 1, and 1 more    *)
(* for each expiry; a notice written, a request that claimed the key and   *)
(* is about to publish, and a key free for the next request to claim, each *)
(* take one of it.                                                         *)

Working(req, k) == {r \in Requests : req[r].fresh /\ KeyOf[Head(req[r].todo)] = k}
Free(held, k) == IF k \in held THEN 0 ELSE 1

ClaimInv ==
  \A k \in Keys :
    WrittenFor(k) + Cardinality(Working(request, k)) + Free(claimed, k) <= 1 + expiries[k]

Under(k) == {n \in Notices : KeyOf[n] = k}

LEMMA WrittenIsNat ==
  ASSUME TypeOK, NEW k
  PROVE  WrittenFor(k) \in Nat
<1>1. IsFiniteSet(Under(k))
  BY IngestAssumption, FS_Subset DEF Under
<1>2. NatOn(written, Under(k))
  BY DEF NatOn, TypeOK, Under
<1>3. \A n \in Under(k) : written[n] <= written[n]
  BY <1>2 DEF NatOn
<1>4. SumFunctionOnSet(written, Under(k)) \in Nat
  BY <1>1, <1>2, <1>3, SumMonotone
<1>5. QED
  BY <1>4 DEF WrittenFor, Under

\* A notice written counts under its key, and under no other.
LEMMA CountUnder ==
  ASSUME NEW f, NEW n \in Notices, NEW k, NEW g,
         \A m \in Notices : f[m] \in Int /\ g[m] \in Int,
         g[n] = f[n] + 1, \A m \in Notices : m # n => g[m] = f[m]
  PROVE  SumFunctionOnSet(g, Under(k)) = IF KeyOf[n] = k THEN SumFunctionOnSet(f, Under(k)) + 1
                                                         ELSE SumFunctionOnSet(f, Under(k))
<1>1. IsFiniteSet(Under(k))
  BY IngestAssumption, FS_Subset DEF Under
<1>2. IntOn(f, Under(k)) /\ IntOn(g, Under(k))
  BY DEF IntOn, Under
<1>3. f[n] \in Int
  OBVIOUS
<1>5. CASE KeyOf[n] = k
  <2>1. n \in Under(k) /\ \A m \in Under(k) : m # n => g[m] = f[m]
    BY <1>5 DEF Under
  <2>2. SumFunctionOnSet(g, Under(k)) = SumFunctionOnSet(f, Under(k)) + (g[n] - f[n])
    BY <1>1, <1>2, <2>1, SumMoves
  <2>3. SumFunctionOnSet(f, Under(k)) \in Int
    BY <1>1, <1>2, SumIsInt
  <2>4. QED
    BY <1>3, <1>5, <2>2, <2>3
<1>6. CASE KeyOf[n] # k
  <2>1. \A m \in Under(k) : g[m] = f[m]
    BY <1>6 DEF Under
  <2>2. SumFunctionOnSet(g, Under(k)) = SumFunctionOnSet(f, Under(k))
    BY <1>1, <1>2, <2>1, SumAgrees
  <2>3. QED
    BY <1>6, <2>2
<1>7. QED
  BY <1>5, <1>6

LEMMA WrittenMoves ==
  ASSUME NEW n \in Notices, \A m \in Notices : written[m] \in Int /\ written'[m] \in Int,
         written'[n] = written[n] + 1, \A m \in Notices : m # n => written'[m] = written[m], NEW k
  PROVE  WrittenFor(k)' = IF KeyOf[n] = k THEN WrittenFor(k) + 1 ELSE WrittenFor(k)
<1>1. SumFunctionOnSet(written', Under(k)) =
        IF KeyOf[n] = k THEN SumFunctionOnSet(written, Under(k)) + 1
                        ELSE SumFunctionOnSet(written, Under(k))
  BY CountUnder
<1>2. QED
  BY <1>1 DEF WrittenFor, Under

\* One frame that moves changes the requests at work under a key by at most itself.
LEMMA WorkingMoves ==
  ASSUME IngestTypes, NEW r \in Requests, NEW f, Moves(r, f), NEW k
  PROVE  /\ Cardinality(Working(request, k)) \in Nat
         /\ Cardinality(Working(request', k)) \in Nat
         /\ Cardinality(Working(request', k)) <= Cardinality(Working(request, k)) + 1
         /\ ~(f.fresh /\ KeyOf[Head(f.todo)] = k) =>
              Cardinality(Working(request', k)) <= Cardinality(Working(request, k))
         /\ /\ request[r].fresh /\ KeyOf[Head(request[r].todo)] = k
            /\ ~(f.fresh /\ KeyOf[Head(f.todo)] = k)
            => Cardinality(Working(request', k)) + 1 <= Cardinality(Working(request, k))
<1> DEFINE A == Working(request, k)
           B == Working(request', k)
<1>1. request'[r] = f /\ \A q \in Requests : q # r => request'[q] = request[q]
  BY MovesTyped
<1>2. IsFiniteSet(A)
  BY IngestAssumption, FS_Subset DEF Working
<1>3. B \subseteq A \cup {r}
  BY <1>1 DEF Working
<1>4. ~(f.fresh /\ KeyOf[Head(f.todo)] = k) => r \notin B /\ B \subseteq A
  BY <1>1 DEF Working
<1>5. request[r].fresh /\ KeyOf[Head(request[r].todo)] = k => r \in A
  BY DEF Working
<1> HIDE DEF A, B
<1>6. /\ Cardinality(A) \in Nat /\ IsFiniteSet(B) /\ Cardinality(B) \in Nat
      /\ Cardinality(B) <= Cardinality(A) + 1
      /\ B \subseteq A => Cardinality(B) <= Cardinality(A)
      /\ r \in A /\ r \notin B => Cardinality(B) + 1 <= Cardinality(A)
  BY <1>2, <1>3, CountMoves
<1>7. QED
  BY <1>4, <1>5, <1>6 DEF A, B

LEMMA ClaimInit == Init => ClaimInv
<1> SUFFICES ASSUME Init, NEW k \in Keys
             PROVE  WrittenFor(k) + Cardinality(Working(request, k)) + Free(claimed, k)
                      <= 1 + expiries[k]
  BY DEF ClaimInv
<1>1. Working(request, k) = {}
  BY DEF Init, Working, NoRequest
<1>2. WrittenFor(k) = 0
  <2> DEFINE Bad == {S \in SUBSET Under(k) : SumFunctionOnSet(written, S) # 0}
  <2>1. IsFiniteSet(Under(k)) /\ \A n \in Under(k) : written[n] = 0
    BY IngestAssumption, FS_Subset DEF Init, Under
  <2>2. Bad = {}
    <3>1. SUFFICES ASSUME Bad # {} PROVE FALSE
      OBVIOUS
    <3>2. PICK U \in Bad : \A V \in Bad : V \subseteq U => V = U
      <4>1. Bad \subseteq SUBSET Under(k)
        OBVIOUS
      <4> HIDE DEF Bad
      <4>2. QED
        BY <2>1, <3>1, <4>1, MinimalSubset
    <3>3. U # {}
      BY <3>2, SumOfNone
    <3>4. PICK n \in U : TRUE
      BY <3>3
    <3>5. SumFunctionOnSet(written, U \ {n}) = 0
      BY <3>2, <3>4
    <3>6. IsFiniteSet(U) /\ IntOn(written, U)
      BY <2>1, <3>2, FS_Subset DEF IntOn
    <3>7. SumFunctionOnSet(written, U) = written[n] + SumFunctionOnSet(written, U \ {n})
      BY <3>4, <3>6, SumTakesOut
    <3>8. QED
      BY <2>1, <3>2, <3>4, <3>5, <3>7
  <2>3. QED
    BY <2>2 DEF WrittenFor, Under
<1>3. expiries[k] = 0 /\ Free(claimed, k) = 1
  BY DEF Init, Free
<1>4. QED
  BY <1>1, <1>2, <1>3, FS_EmptySet

\* A key's budget, before and after a step.
LEMMA ClaimStep == IngestTypes /\ ClaimInv /\ [Next]_vars => ClaimInv'
<1> SUFFICES ASSUME IngestTypes, ClaimInv, [Next]_vars, NEW k \in Keys
             PROVE  WrittenFor(k)' + Cardinality(Working(request', k)) + Free(claimed', k)
                      <= 1 + expiries'[k]
  BY DEF ClaimInv, WrittenFor, Working, Free
<1> DEFINE w == WrittenFor(k)
           c == Cardinality(Working(request, k))
           d == Cardinality(Working(request', k))
           x == expiries[k]
           Budget == w + c + Free(claimed, k) <= 1 + x
<1>1. TypeOK /\ w \in Nat /\ c \in Nat /\ x \in Nat /\ Free(claimed, k) \in {0, 1} /\ Budget
  <2>1. TypeOK
    BY DEF IngestTypes
  <2>2. IsFiniteSet(Working(request, k))
    BY IngestAssumption, FS_Subset DEF Working
  <2>3. QED
    BY <2>1, <2>2, FS_CardinalityType, WrittenIsNat DEF ClaimInv, TypeOK, Free
<1>2. written' = written => WrittenFor(k)' = w
  BY DEF WrittenFor
<1>3. ASSUME NEW r \in Requests, NEW f, Moves(r, f), ~(f.fresh /\ KeyOf[Head(f.todo)] = k),
             UNCHANGED <<written, expiries>>, claimed \subseteq claimed'
      PROVE  WrittenFor(k)' + d + Free(claimed', k) <= 1 + expiries'[k]
  <2>1. d \in Nat /\ d <= c
    BY <1>3, WorkingMoves
  <2>2. /\ WrittenFor(k)' = w /\ expiries'[k] = x
        /\ Free(claimed', k) \in {0, 1} /\ Free(claimed', k) <= Free(claimed, k)
    BY <1>2, <1>3 DEF Free
  <2> HIDE DEF w, c, d, x
  <2>3. QED
    BY <1>1, <2>1, <2>2 DEF Budget
<1>4. ASSUME request' = request, UNCHANGED <<written, claimed, expiries>>
      PROVE  WrittenFor(k)' + d + Free(claimed', k) <= 1 + expiries'[k]
  <2>1. d = c /\ WrittenFor(k)' = w /\ Free(claimed', k) = Free(claimed, k) /\ expiries'[k] = x
    BY <1>2, <1>4
  <2>2. QED
    BY <1>1, <2>1
<1>5. ASSUME NEW r \in Requests, NEW b \in Batches, Post(r, b)
      PROVE  WrittenFor(k)' + d + Free(claimed', k) <= 1 + expiries'[k]
  <2>1. Moves(r, [batch |-> b, todo |-> b, fresh |-> FALSE])
    BY <1>5 DEF Post, Moves
  <2>2. UNCHANGED <<written, claimed, expiries>>
    BY <1>5 DEF Post, redis, amqp
  <2>3. QED
    BY <1>3, <2>1, <2>2
<1>6. ASSUME NEW r \in Requests, acquireDedupeKey(r)
      PROVE  WrittenFor(k)' + d + Free(claimed', k) <= 1 + expiries'[k]
  <2> DEFINE m == Head(request[r].todo)
  <2>1. m \in Notices /\ UNCHANGED <<written, expiries>>
    BY <1>6, FrameSteps DEF acquireDedupeKey, amqp
  <2>2. CASE Claims(KeyOf[m]) /\ claimed' = claimed \cup Held(KeyOf[m])
             /\ request' = [request EXCEPT ![r].fresh = TRUE]
    <3> DEFINE f == [request[r] EXCEPT !.fresh = TRUE]
    <3>1. Moves(r, f) /\ f.todo = request[r].todo
      BY <2>2, FrameSteps DEF Frames
    <3>2. CASE KeyOf[m] = k
      <4>1. d \in Nat /\ d <= c + 1
        BY <3>1, WorkingMoves
      <4>2. Free(claimed, k) = 1 /\ Free(claimed', k) = 0
        BY <2>2, <3>2, KeysFacts DEF Claims, Held, Free
      <4>3. WrittenFor(k)' = w /\ expiries'[k] = x
        BY <1>2, <2>1
      <4> HIDE DEF w, c, d, x
      <4>4. QED
        BY <1>1, <4>1, <4>2, <4>3 DEF Budget
    <3>3. CASE KeyOf[m] # k
      <4>1. d \in Nat /\ d <= c
        BY <3>1, <3>3, WorkingMoves
      <4>2. Free(claimed', k) = Free(claimed, k)
        BY <2>2, <3>3 DEF Held, Free
      <4>3. WrittenFor(k)' = w /\ expiries'[k] = x
        BY <1>2, <2>1
      <4> HIDE DEF w, c, d, x
      <4>4. QED
        BY <1>1, <4>1, <4>2, <4>3 DEF Budget
    <3>4. QED
      BY <3>2, <3>3
  <2>3. CASE request' = Skip(r) /\ UNCHANGED claimed
    <3> DEFINE f == [request[r] EXCEPT !.todo = Tail(@), !.fresh = FALSE]
    <3>1. Moves(r, f) /\ ~f.fresh
      BY <2>3, FrameSteps DEF Frames
    <3> HIDE DEF f
    <3>2. QED
      BY <1>3, <2>1, <2>3, <3>1
  <2>4. QED
    BY <1>6, <2>2, <2>3 DEF acquireDedupeKey
<1>7. ASSUME NEW r \in Requests, publish(r)
      PROVE  WrittenFor(k)' + d + Free(claimed', k) <= 1 + expiries'[k]
  <2> DEFINE m == Head(request[r].todo)
  <2>1. m \in Notices /\ request[r].fresh /\ UNCHANGED <<claimed, expiries>>
    BY <1>1, <1>7, FrameSteps DEF publish, redis, TypeOK
  <2>2. CASE written' = [written EXCEPT ![m] = @ + 1] /\ request' = Skip(r)
    <3> DEFINE f == [request[r] EXCEPT !.todo = Tail(@), !.fresh = FALSE]
    <3>1. Moves(r, f) /\ ~f.fresh
      BY <2>2, FrameSteps DEF Frames
    <3> HIDE DEF f
    <3>2. WrittenFor(k)' = IF KeyOf[m] = k THEN w + 1 ELSE w
      <4>1. /\ \A n \in Notices : written[n] \in Int /\ written'[n] \in Int
            /\ written'[m] = written[m] + 1
            /\ \A n \in Notices : n # m => written'[n] = written[n]
        BY <1>1, <2>1, <2>2 DEF TypeOK
      <4>2. QED
        BY <2>1, <4>1, WrittenMoves
    <3>3. d \in Nat /\ d <= c /\ (KeyOf[m] = k => d + 1 <= c)
      BY <2>1, <3>1, WorkingMoves
    <3>4. Free(claimed', k) = Free(claimed, k) /\ expiries'[k] = x
      BY <2>1
    <3> HIDE DEF w, c, d, x
    <3>5. QED
      BY <1>1, <3>2, <3>3, <3>4 DEF Budget
  <2>3. CASE request' = [request EXCEPT ![r] = NoRequest] /\ UNCHANGED <<socket, written>>
    <3>1. Moves(r, NoRequest) /\ ~NoRequest.fresh
      BY <2>3 DEF Moves, NoRequest
    <3>2. QED
      BY <1>3, <2>1, <2>3, <3>1
  <2>4. QED
    BY <1>7, <2>2, <2>3 DEF publish
<1>8. ASSUME NEW r \in Requests, Answer(r) \/ RedisFails(r)
      PROVE  WrittenFor(k)' + d + Free(claimed', k) <= 1 + expiries'[k]
  <2>1. \E f : Moves(r, f) /\ ~f.fresh
    <3>1. CASE request' = [request EXCEPT ![r] = NoRequest]
      <4>1. Moves(r, NoRequest)
        BY <3>1 DEF Moves
      <4>2. ~NoRequest.fresh
        BY DEF NoRequest
      <4>3. QED
        BY <4>1, <4>2
    <3>2. CASE request' = Skip(r)
      <4>1. ~[request[r] EXCEPT !.todo = Tail(@), !.fresh = FALSE].fresh
        BY FrameSteps DEF Frames
      <4>2. QED
        BY <3>2, <4>1, FrameSteps
    <3>3. QED
      BY <1>8, <3>1, <3>2 DEF Answer, RedisFails
  <2>2. UNCHANGED <<written, expiries>> /\ claimed \subseteq claimed'
    BY <1>8 DEF Answer, RedisFails, redis, amqp
  <2>3. QED
    BY <1>3, <2>1, <2>2
<1>9. ASSUME NEW key \in Keys, ExpireKey(key)
      PROVE  WrittenFor(k)' + d + Free(claimed', k) <= 1 + expiries'[k]
  <2>1. d = c /\ WrittenFor(k)' = w
    BY <1>2, <1>9 DEF ExpireKey, amqp, http
  <2>2. /\ k = key => Free(claimed', k) = 1 /\ Free(claimed, k) = 0 /\ expiries'[k] = x + 1
        /\ k # key => Free(claimed', k) = Free(claimed, k) /\ expiries'[k] = x
    BY <1>1, <1>9 DEF ExpireKey, Free, TypeOK
  <2> HIDE DEF w, c, d, x
  <2>3. QED
    BY <1>1, <2>1, <2>2 DEF Budget
<1>10. CASE Receive \/ BrokerDown \/ BrokerUp \/ ChannelClosed \/ connectRabbit \/ bootstrap
  <2>1. request' = request /\ UNCHANGED <<written, claimed, expiries>>
    BY <1>10 DEF Receive, BrokerDown, BrokerUp, ChannelClosed, connectRabbit, bootstrap,
                 redis, http
  <2>2. QED
    BY <1>4, <2>1
<1>11. CASE Crash
  <2>1. Working(request', k) = {} /\ UNCHANGED <<written, claimed, expiries>>
    BY <1>11 DEF Crash, Working, NoRequest, redis
  <2>2. d = 0 /\ WrittenFor(k)' = w /\ Free(claimed', k) = Free(claimed, k) /\ expiries'[k] = x
    BY <1>2, <2>1, FS_EmptySet
  <2> HIDE DEF w, c, x
  <2>3. QED
    BY <1>1, <2>2 DEF Budget
<1>12. CASE UNCHANGED vars
  BY <1>4, <1>12 DEF vars, redis, amqp, http
<1>13. QED
  BY <1>5, <1>6, <1>7, <1>8, <1>9, <1>10, <1>11, <1>12 DEF Next, Handle

\* Between two expiries of a dedupe key one notice is published under it, however many
\* retries of a callback overlap and wherever the handler or the broker fails.
THEOREM OnePublish == Spec => []OnePublishPerClaim
<1>1. IngestTypes /\ ClaimInv => OnePublishPerClaim
  <2> SUFFICES ASSUME IngestTypes, ClaimInv, NEW k \in Keys
               PROVE  WrittenFor(k) <= 1 + expiries[k]
    BY DEF OnePublishPerClaim
  <2>1. IsFiniteSet(Working(request, k))
    BY IngestAssumption, FS_Subset DEF Working
  <2>2. /\ WrittenFor(k) \in Nat /\ expiries[k] \in Nat
        /\ Cardinality(Working(request, k)) \in Nat
    BY <2>1, FS_CardinalityType, WrittenIsNat DEF IngestTypes, TypeOK
  <2>3. WrittenFor(k) + Cardinality(Working(request, k)) + Free(claimed, k) <= 1 + expiries[k]
        /\ Free(claimed, k) \in Nat
    BY DEF ClaimInv, Free
  <2>4. QED
    BY <2>2, <2>3
<1>2. QED
  BY <1>1, ClaimInit, ClaimStep, IngestTyped, PTL DEF Spec

-----------------------------------------------------------------------------
(* What a 200 stands for.  While nothing went down, the channel is open, a *)
(* key that is held is settled, and what a request has behind it is        *)
(* settled; what is settled once stays so.                                 *)

KeySent(k) == \E m \in Notices : KeyOf[m] = k /\ Sent(m)

\* A key that is settled stands for a notice sent or about to be, or was set by a call that
\* never learned it.
KeySettled(k) == Publishing(k) \/ KeySent(k) \/ k \in orphaned
Settled(n) == Sent(n) \/ (KeyOf[n] # NoKey /\ KeySettled(KeyOf[n]))

BehindSettled(f) == \A n \in Members(f.batch) : n \in Members(f.todo) \/ Settled(n)

CoverInv ==
  /\ outages \in Nat /\ crashes \in Nat
  /\ Undisturbed =>
       /\ channel = "open"
       /\ \A k \in claimed : KeySettled(k)
       /\ \A r \in Requests : BehindSettled(request[r])
       /\ \A b \in answered : \A n \in Members(b) : Settled(n)

LEMMA MembersFacts ==
  /\ Members(<<>>) = {}
  /\ \A s \in Seq(Notices), n \in Notices : Members(Append(s, n)) = Members(s) \cup {n}
  /\ \A s \in Seq(Notices) : s # <<>> => Members(s) = Members(Tail(s)) \cup {Head(s)}
  /\ \A s \in Seq(Notices) : Members(s) \subseteq Notices
<1>1. Members(<<>>) = {}
  BY DEF Members
<1>2. ASSUME NEW s \in Seq(Notices), NEW n \in Notices
      PROVE  Members(Append(s, n)) = Members(s) \cup {n}
  <2>1. /\ DOMAIN s = 1 .. Len(s) /\ Len(s) \in Nat
        /\ DOMAIN Append(s, n) = 1 .. Len(s) + 1
        /\ \A i \in 1 .. Len(s) : Append(s, n)[i] = s[i]
        /\ Append(s, n)[Len(s) + 1] = n
    OBVIOUS
  <2>2. DOMAIN Append(s, n) = DOMAIN s \cup {Len(s) + 1}
    BY <2>1
  <2>3. QED
    BY <2>1, <2>2 DEF Members
<1>3. ASSUME NEW s \in Seq(Notices), s # <<>>
      PROVE  Members(s) = Members(Tail(s)) \cup {Head(s)}
  <2>1. /\ DOMAIN s = 1 .. Len(s) /\ Len(s) \in Nat \ {0}
        /\ DOMAIN Tail(s) = 1 .. Len(s) - 1
        /\ \A i \in 1 .. Len(s) - 1 : Tail(s)[i] = s[i + 1]
        /\ Head(s) = s[1]
    BY <1>3
  <2>2. \A i \in DOMAIN Tail(s) : i + 1 \in DOMAIN s /\ Tail(s)[i] = s[i + 1]
    BY <2>1
  <2>3. \A i \in DOMAIN s : i = 1 \/ (i - 1 \in DOMAIN Tail(s) /\ Tail(s)[i - 1] = s[i])
    BY <2>1
  <2>4. 1 \in DOMAIN s
    BY <2>1
  <2>5. Members(s) \subseteq Members(Tail(s)) \cup {Head(s)}
    BY <2>1, <2>3 DEF Members
  <2>6. Members(Tail(s)) \cup {Head(s)} \subseteq Members(s)
    BY <2>1, <2>2, <2>4 DEF Members
  <2>7. QED
    BY <2>5, <2>6
<1>4. \A s \in Seq(Notices) : Members(s) \subseteq Notices
  BY DEF Members
<1>5. QED
  BY <1>1, <1>2, <1>3, <1>4

LEMMA CoverInit == Init => CoverInv
<1> SUFFICES ASSUME Init PROVE CoverInv
  OBVIOUS
<1>1. \A r \in Requests : request[r].batch = <<>>
  BY DEF Init, NoRequest
<1>2. QED
  BY <1>1, MembersFacts DEF Init, CoverInv, BehindSettled

\* A notice that is covered stays covered, when nothing that is sent is lost and no request
\* gives up a publish.
LEMMA SettledStays ==
  ASSUME \A n \in Notices : Sent(n) => Sent(n)',
         \A k \in Keys : Publishing(k) \/ k \in orphaned => KeySettled(k)'
  PROVE  /\ \A k \in Keys : KeySettled(k) => KeySettled(k)'
         /\ \A n \in Notices : Settled(n) => Settled(n)'
<1>1. \A k : KeySent(k) => KeySent(k)'
  BY DEF KeySent
<1>2. QED
  BY <1>1, KeysFacts DEF Settled, KeySettled


\* Every other request goes on publishing, and the one that moves if its new frame says so.
LEMMA PublishingMoves ==
  ASSUME IngestTypes, NEW r \in Requests, NEW f, Moves(r, f), NEW k
  PROVE  /\ Publishing(k) => Publishing(k)' \/ (request[r].fresh /\ KeyOf[Head(request[r].todo)] = k)
         /\ f.fresh /\ KeyOf[Head(f.todo)] = k => Publishing(k)'
<1>1. request'[r] = f /\ \A q \in Requests : q # r => request'[q] = request[q]
  BY MovesTyped
<1>2. QED
  BY <1>1 DEF Publishing

LEMMA SocketOnly ==
  ASSUME IngestTypes, NEW n \in Notices
  PROVE  /\ UNCHANGED <<queued, socket>> => (Sent(n) <=> Sent(n)')
         /\ \A m \in Notices : queued' = queued /\ socket' = Append(socket, m) =>
              Sent(m)' /\ (Sent(n) => Sent(n)')
         /\ socket # <<>> /\ queued' = queued \cup {Head(socket)} /\ socket' = Tail(socket) =>
              (Sent(n) => Sent(n)')
<1>1. socket \in Seq(Notices)
  BY DEF IngestTypes, TypeOK
<1>2. ASSUME UNCHANGED <<queued, socket>> PROVE Sent(n) <=> Sent(n)'
  BY <1>2 DEF Sent
<1>3. ASSUME NEW m \in Notices, queued' = queued, socket' = Append(socket, m)
      PROVE  Sent(m)' /\ (Sent(n) => Sent(n)')
  <2>1. Members(socket)' = Members(socket) \cup {m}
    <3>1. Members(socket') = Members(socket) \cup {m}
      BY <1>1, <1>3, MembersFacts
    <3>2. QED
      BY <3>1 DEF Members
  <2>2. QED
    BY <1>3, <2>1 DEF Sent
<1>4. ASSUME socket # <<>>, queued' = queued \cup {Head(socket)}, socket' = Tail(socket)
      PROVE  Sent(n) => Sent(n)'
  <2>1. Members(socket) = Members(socket)' \cup {Head(socket)}
    <3>1. Members(socket) = Members(socket') \cup {Head(socket)}
      BY <1>1, <1>4, MembersFacts
    <3>2. QED
      BY <3>1 DEF Members
  <2>2. QED
    BY <1>4, <2>1 DEF Sent
<1>5. QED
  BY <1>2, <1>3, <1>4

\* A request that moves on to a frame that leaves only what is covered behind it.
LEMMA FramesSettled ==
  ASSUME IngestTypes, NEW r \in Requests, NEW f, Moves(r, f), FrameOK(f),
         \A q \in Requests : BehindSettled(request[q]),
         \A n \in Notices : Settled(n) => Settled(n)',
         \A n \in Members(f.batch) : n \in Members(f.todo) \/ Settled(n)'
  PROVE  \A q \in Requests : BehindSettled(request[q])'
<1> SUFFICES ASSUME NEW q \in Requests, NEW n \in Members(request'[q].batch)
             PROVE  n \in Members(request'[q].todo) \/ Settled(n)'
  BY DEF BehindSettled, Members
<1>1. request'[r] = f /\ \A p \in Requests : p # r => request'[p] = request[p]
  BY MovesTyped
<1>2. CASE q = r
  BY <1>1, <1>2
<1>3. CASE q # r
  <2>1. n \in Members(request[q].batch) /\ request'[q].todo = request[q].todo
    BY <1>1, <1>3
  <2>2. n \in Notices
    <3>1. request[q].batch \in Seq(Notices)
      BY FrameSteps DEF Frames
    <3>2. QED
      BY <2>1, <3>1, MembersFacts
  <2>3. QED
    BY <2>1, <2>2 DEF BehindSettled
<1>4. QED
  BY <1>2, <1>3

LEMMA CoverStep == IngestTypes /\ CoverInv /\ [Next]_vars => CoverInv'
<1> SUFFICES ASSUME IngestTypes, CoverInv, [Next]_vars
             PROVE  CoverInv'
  OBVIOUS
<1>1. outages' \in Nat /\ crashes' \in Nat /\ (Undisturbed' => Undisturbed)
  <2>1. outages \in Nat /\ crashes \in Nat
    BY DEF CoverInv
  <2>2. \/ outages' = outages /\ crashes' = crashes
        \/ outages' = outages + 1 /\ crashes' = crashes
        \/ outages' = outages /\ crashes' = crashes + 1
    BY DEF Next, Handle, Post, acquireDedupeKey, RedisFails, publish, Answer, ExpireKey, Receive,
           BrokerDown, BrokerUp, ChannelClosed, connectRabbit, Crash, bootstrap, vars, faults
  <2>3. QED
    BY <2>1, <2>2 DEF Undisturbed
<1> SUFFICES ASSUME Undisturbed'
             PROVE  /\ channel' = "open"
                    /\ \A k \in claimed' : KeySettled(k)'
                    /\ \A r \in Requests : BehindSettled(request[r])'
                    /\ \A b \in answered' : \A n \in Members(b) : Settled(n)'
  BY <1>1 DEF CoverInv, BehindSettled, Members
<1> DEFINE Goal == /\ channel' = "open"
                   /\ \A k \in claimed' : KeySettled(k)'
                   /\ \A r \in Requests : BehindSettled(request[r])'
                   /\ \A b \in answered' : \A n \in Members(b) : Settled(n)'
<1>2. /\ TypeOK /\ channel = "open" /\ claimed \subseteq Keys
      /\ \A k \in claimed : KeySettled(k)
      /\ \A r \in Requests : BehindSettled(request[r])
      /\ \A b \in answered : \A n \in Members(b) : Settled(n)
      /\ \A b \in answered : Members(b) \subseteq Notices
  <2>1. answered \subseteq Batches /\ claimed \subseteq Keys
    BY DEF IngestTypes, TypeOK
  <2>2. \A b \in Batches : Members(b) \subseteq Notices
    BY IngestAssumption, MembersFacts
  <2>3. QED
    BY <1>1, <2>1, <2>2 DEF CoverInv, IngestTypes
<1>3. ASSUME \A n \in Notices : Sent(n) => Sent(n)',
             \A k \in Keys : Publishing(k) \/ k \in orphaned => KeySettled(k)'
      PROVE  /\ \A k \in Keys : KeySettled(k) => KeySettled(k)'
             /\ \A n \in Notices : Settled(n) => Settled(n)'
             /\ \A k \in claimed : KeySettled(k)'
             /\ \A b \in answered : \A n \in Members(b) : Settled(n)'
  <2>1. /\ \A k \in Keys : KeySettled(k) => KeySettled(k)'
        /\ \A n \in Notices : Settled(n) => Settled(n)'
    BY <1>3, SettledStays
  <2>2. QED
    BY <1>2, <2>1
<1>4. ASSUME request' = request, claimed' \subseteq claimed, answered' = answered,
             channel' = "open", orphaned' = orphaned, \A n \in Notices : Sent(n) => Sent(n)'
      PROVE  Goal
  <2>1. \A k : Publishing(k)' <=> Publishing(k)
    BY <1>4 DEF Publishing
  <2>2. /\ \A n \in Notices : Settled(n) => Settled(n)'
        /\ \A k \in claimed : KeySettled(k)'
        /\ \A b \in answered : \A n \in Members(b) : Settled(n)'
    <3>1. \A k \in Keys : Publishing(k) \/ k \in orphaned => KeySettled(k)'
      BY <1>4, <2>1 DEF KeySettled
    <3>2. QED
      BY <1>3, <1>4, <3>1
  <2>3. \A r \in Requests : BehindSettled(request[r])'
    <3>1. SUFFICES ASSUME NEW r \in Requests, NEW n \in Members(request[r].batch)
                   PROVE  n \in Members(request[r].todo) \/ Settled(n)'
      BY <1>4 DEF BehindSettled, Members
    <3>2. request[r].batch \in Seq(Notices)
      BY FrameSteps DEF Frames
    <3>3. n \in Notices
      BY <3>2, MembersFacts
    <3>4. QED
      BY <1>2, <2>2, <3>3 DEF BehindSettled
  <2>4. QED
    BY <1>4, <2>2, <2>3
<1>5. ASSUME NEW r \in Requests, NEW f, FrameOK(f), Moves(r, f), ~request[r].fresh,
             UNCHANGED <<queued, socket, channel>>, orphaned \subseteq orphaned'
      PROVE  /\ \A k \in claimed : KeySettled(k)'
             /\ \A b \in answered : \A n \in Members(b) : Settled(n)'
             /\ \A n \in Notices : Settled(n) => Settled(n)'
             /\ (\A n \in Members(f.batch) : n \in Members(f.todo) \/ Settled(n)') =>
                  \A q \in Requests : BehindSettled(request[q])'
  <2>1. \A n \in Notices : Sent(n) => Sent(n)'
    BY <1>5, SocketOnly
  <2>2. \A k \in Keys : Publishing(k) \/ k \in orphaned => KeySettled(k)'
    BY <1>5, PublishingMoves DEF KeySettled
  <2>3. /\ \A n \in Notices : Settled(n) => Settled(n)'
        /\ \A k \in claimed : KeySettled(k)'
        /\ \A b \in answered : \A n \in Members(b) : Settled(n)'
    BY <1>3, <2>1, <2>2
  <2>4. QED
    BY <1>2, <1>5, <2>3, FramesSettled
<1>6. ASSUME NEW r \in Requests, NEW b \in Batches, Post(r, b)
      PROVE  Goal
  <2> DEFINE f == [batch |-> b, todo |-> b, fresh |-> FALSE]
  <2>1. Moves(r, f) /\ FrameOK(f) /\ ~request[r].fresh
    <3>1. request[r] = NoRequest /\ Moves(r, f)
      BY <1>6 DEF Post, Moves
    <3>2. FrameOK(f)
      BY FramesOK
    <3>3. QED
      BY <3>1, <3>2 DEF NoRequest
  <2>2. UNCHANGED <<queued, socket, channel, claimed, orphaned, answered>>
    BY <1>6 DEF Post, redis, amqp
  <2>3. f.batch = f.todo
    OBVIOUS
  <2> HIDE DEF f
  <2>4. QED
    BY <1>2, <1>5, <2>1, <2>2, <2>3
<1>7. ASSUME NEW r \in Requests, acquireDedupeKey(r)
      PROVE  Goal
  <2>0. PICK m \in Notices : m = Head(request[r].todo)
    BY <1>7, FrameSteps DEF acquireDedupeKey
  <2>1. /\ ~request[r].fresh /\ request[r].todo # <<>>
        /\ UNCHANGED <<queued, socket, channel, orphaned, answered>>
    BY <1>7 DEF acquireDedupeKey, amqp
  <2>2. BehindSettled(request[r]) /\ Members(request[r].batch) \subseteq Notices
    <3>1. request[r].batch \in Seq(Notices)
      BY FrameSteps DEF Frames
    <3>2. QED
      BY <1>2, <3>1, MembersFacts
  <2>3. CASE claimed' = claimed \cup Held(KeyOf[m]) /\ request' = [request EXCEPT ![r].fresh = TRUE]
    <3> DEFINE f == [request[r] EXCEPT !.fresh = TRUE]
    <3>1. Moves(r, f) /\ FrameOK(f)
      BY <2>1, <2>3, FramesOK, FrameSteps
    <3>2. f.todo = request[r].todo /\ f.batch = request[r].batch /\ f.fresh
      BY FrameSteps DEF Frames
    <3> HIDE DEF f
    <3>3. KeySettled(KeyOf[m])'
      BY <2>0, <3>1, <3>2, PublishingMoves DEF KeySettled
    <3>4. /\ \A k \in claimed : KeySettled(k)'
          /\ \A b \in answered : \A n \in Members(b) : Settled(n)'
          /\ \A n \in Notices : Settled(n) => Settled(n)'
          /\ (\A n \in Members(f.batch) : n \in Members(f.todo) \/ Settled(n)') =>
                  \A q \in Requests : BehindSettled(request[q])'
      BY <1>5, <2>1, <3>1
    <3>5. \A n \in Members(f.batch) : n \in Members(f.todo) \/ Settled(n)'
      BY <2>2, <3>2, <3>4 DEF BehindSettled
    <3>6. claimed' \subseteq claimed \cup {KeyOf[m]}
      BY <2>3 DEF Held
    <3>7. QED
      BY <1>2, <2>1, <3>3, <3>4, <3>5, <3>6
  <2>4. CASE ~Claims(KeyOf[m]) /\ request' = Skip(r) /\ UNCHANGED claimed
    <3> DEFINE f == [request[r] EXCEPT !.todo = Tail(@), !.fresh = FALSE]
    <3>1. Moves(r, f) /\ FrameOK(f)
      BY <2>1, <2>4, FramesOK, FrameSteps
    <3>2. f.todo = Tail(request[r].todo) /\ f.batch = request[r].batch
      BY FrameSteps DEF Frames
    <3> HIDE DEF f
    <3>3. Members(request[r].todo) = Members(f.todo) \cup {m}
      <4>1. request[r].todo \in Seq(Notices)
        BY FrameSteps DEF Frames
      <4>2. QED
        BY <2>0, <2>1, <3>2, <4>1, MembersFacts
    <3>4. /\ \A k \in claimed : KeySettled(k)'
          /\ \A b \in answered : \A n \in Members(b) : Settled(n)'
          /\ \A n \in Notices : Settled(n) => Settled(n)'
          /\ (\A n \in Members(f.batch) : n \in Members(f.todo) \/ Settled(n)') =>
                  \A q \in Requests : BehindSettled(request[q])'
      BY <1>5, <2>1, <3>1
    <3>5. Settled(m)'
      BY <1>2, <2>1, <2>4, <3>4 DEF Claims, Settled
    <3>6. \A n \in Members(f.batch) : n \in Members(f.todo) \/ Settled(n)'
      BY <2>2, <3>2, <3>3, <3>4, <3>5 DEF BehindSettled
    <3>7. QED
      BY <1>2, <2>1, <2>4, <3>4, <3>6
  <2>5. QED
    BY <1>7, <2>0, <2>3, <2>4 DEF acquireDedupeKey
<1>8. ASSUME NEW r \in Requests, publish(r)
      PROVE  Goal
  <2>0. PICK m \in Notices : m = Head(request[r].todo)
    BY <1>2, <1>8, FrameSteps DEF publish, TypeOK
  <2> DEFINE f == [request[r] EXCEPT !.todo = Tail(@), !.fresh = FALSE]
  <2>1. /\ request[r].fresh /\ request[r].todo # <<>>
        /\ queued' = queued /\ socket' = Append(socket, m) /\ request' = Skip(r)
        /\ orphaned' = orphaned \ {KeyOf[m]} /\ UNCHANGED <<channel, claimed, answered>>
    BY <1>2, <1>8, <2>0 DEF publish, TypeOK
  <2>2. Moves(r, f) /\ FrameOK(f)
    BY <2>1, FramesOK, FrameSteps
  <2>3. f.todo = Tail(request[r].todo) /\ f.batch = request[r].batch
    BY FrameSteps DEF Frames
  <2> HIDE DEF f
  <2>4. Members(request[r].todo) = Members(f.todo) \cup {m}
        /\ Members(request[r].batch) \subseteq Notices /\ BehindSettled(request[r])
    <3>1. request[r].todo \in Seq(Notices) /\ request[r].batch \in Seq(Notices)
      BY FrameSteps DEF Frames
    <3>2. QED
      BY <1>2, <2>0, <2>1, <2>3, <3>1, MembersFacts
  <2>5. Sent(m)' /\ \A n \in Notices : Sent(n) => Sent(n)'
    BY <2>1, SocketOnly
  <2>6. Settled(m)' /\ KeySettled(KeyOf[m])'
    BY <2>1, <2>5 DEF Settled, KeySettled, KeySent
  <2>7. \A k \in Keys : Publishing(k) \/ k \in orphaned => KeySettled(k)'
    <3>1. \A k \in Keys : Publishing(k) => KeySettled(k)'
      BY <2>0, <2>2, <2>6, PublishingMoves DEF KeySettled
    <3>2. \A k \in orphaned : KeySettled(k)'
      BY <2>1, <2>6 DEF KeySettled
    <3>3. QED
      BY <3>1, <3>2
  <2>8. /\ \A n \in Notices : Settled(n) => Settled(n)'
        /\ \A k \in claimed : KeySettled(k)'
        /\ \A b \in answered : \A n \in Members(b) : Settled(n)'
    BY <1>3, <2>5, <2>7
  <2>9. \A n \in Members(f.batch) : n \in Members(f.todo) \/ Settled(n)'
    BY <2>3, <2>4, <2>6, <2>8 DEF BehindSettled
  <2>10. \A q \in Requests : BehindSettled(request[q])'
    BY <1>2, <2>2, <2>8, <2>9, FramesSettled
  <2>11. QED
    BY <1>2, <2>1, <2>8, <2>10
<1>9. ASSUME NEW r \in Requests, Answer(r)
      PROVE  Goal
  <2>1. /\ Moves(r, NoRequest) /\ FrameOK(NoRequest) /\ ~request[r].fresh
        /\ UNCHANGED <<queued, socket, channel, claimed, orphaned>>
    BY <1>2, <1>9, FramesOK DEF Answer, Moves, redis, amqp, TypeOK
  <2>2. Members(NoRequest.batch) = {}
    BY MembersFacts DEF NoRequest
  <2>3. /\ \A k \in claimed : KeySettled(k)'
        /\ \A b \in answered : \A n \in Members(b) : Settled(n)'
        /\ \A n \in Notices : Settled(n) => Settled(n)'
        /\ \A q \in Requests : BehindSettled(request[q])'
    BY <1>5, <2>1, <2>2
  <2>4. \A b \in answered' : \A n \in Members(b) : Settled(n)'
    <3>1. request[r].todo = <<>> /\ answered' = answered \cup {request[r].batch}
      BY <1>9 DEF Answer
    <3>2. request[r].batch \in Seq(Notices)
      BY FrameSteps DEF Frames
    <3>3. \A n \in Members(request[r].batch) : Settled(n) /\ n \in Notices
      BY <1>2, <3>1, <3>2, MembersFacts DEF BehindSettled
    <3>4. QED
      BY <2>3, <3>1, <3>3
  <2>5. QED
    BY <1>2, <2>1, <2>3, <2>4
<1>10. ASSUME NEW r \in Requests, RedisFails(r)
       PROVE  Goal
  <2>0. PICK m \in Notices : m = Head(request[r].todo)
    BY <1>10, FrameSteps DEF RedisFails
  <2>1. /\ ~request[r].fresh /\ request[r].todo # <<>> /\ KeyOf[m] \in Keys
        /\ UNCHANGED <<queued, socket, channel, answered>>
    BY <1>10, <2>0, KeysFacts DEF RedisFails, amqp
  <2>2. /\ orphaned \subseteq orphaned'
        /\ claimed' \subseteq claimed \cup {KeyOf[m]}
        /\ KeyOf[m] \in claimed' => KeyOf[m] \in claimed \/ KeyOf[m] \in orphaned'
    BY <1>10, <2>0 DEF RedisFails
  <2>3. ASSUME NEW f, FrameOK(f), Moves(r, f),
               \A n \in Members(f.batch) : n \in Members(f.todo) \/ n = m \/ Settled(n)',
               f = NoRequest \/ KeyOf[m] \in claimed'
        PROVE  Goal
    <3>1. /\ \A k \in claimed : KeySettled(k)'
          /\ \A b \in answered : \A n \in Members(b) : Settled(n)'
          /\ \A n \in Notices : Settled(n) => Settled(n)'
          /\ (\A n \in Members(f.batch) : n \in Members(f.todo) \/ Settled(n)') =>
                  \A q \in Requests : BehindSettled(request[q])'
      BY <1>5, <2>1, <2>2, <2>3
    <3>2. KeyOf[m] \in claimed' => KeySettled(KeyOf[m])'
      BY <2>2, <3>1 DEF KeySettled
    <3>3. \A n \in Members(f.batch) : n \in Members(f.todo) \/ Settled(n)'
      <4>1. CASE f = NoRequest
        BY <4>1, MembersFacts DEF NoRequest
      <4>2. CASE KeyOf[m] \in claimed'
        <5>1. KeySettled(KeyOf[m])' /\ KeyOf[m] # NoKey
          BY <2>1, <3>2, <4>2, KeysFacts
        <5>2. Settled(m)'
          BY <5>1 DEF Settled
        <5>3. QED
          BY <2>3, <5>1, <5>2
      <4>3. QED
        BY <2>3, <4>1, <4>2
    <3>4. QED
      BY <1>2, <2>1, <2>2, <3>1, <3>2, <3>3
  <2>4. CASE request' = [request EXCEPT ![r] = NoRequest]
    <3>1. Moves(r, NoRequest) /\ FrameOK(NoRequest) /\ Members(NoRequest.batch) = {}
      BY <2>4, FramesOK, MembersFacts DEF Moves, NoRequest
    <3>2. QED
      BY <2>3, <3>1
  <2>5. CASE request' = Skip(r) /\ KeyOf[m] \in claimed'
    <3> DEFINE f == [request[r] EXCEPT !.todo = Tail(@), !.fresh = FALSE]
    <3>1. Moves(r, f) /\ FrameOK(f)
      BY <2>1, <2>5, FramesOK, FrameSteps
    <3>2. f.todo = Tail(request[r].todo) /\ f.batch = request[r].batch
      BY FrameSteps DEF Frames
    <3> HIDE DEF f
    <3>3. Members(request[r].todo) = Members(f.todo) \cup {m}
          /\ Members(request[r].batch) \subseteq Notices /\ BehindSettled(request[r])
      <4>1. request[r].todo \in Seq(Notices) /\ request[r].batch \in Seq(Notices)
        BY FrameSteps DEF Frames
      <4>2. QED
        BY <1>2, <2>0, <2>1, <3>2, <4>1, MembersFacts
    <3>4. \A n \in Notices : Settled(n) => Settled(n)'
      BY <1>5, <2>1, <2>2, <3>1
    <3>5. \A n \in Members(f.batch) : n \in Members(f.todo) \/ n = m \/ Settled(n)'
      BY <3>2, <3>3, <3>4 DEF BehindSettled
    <3>6. QED
      BY <2>3, <2>5, <3>1, <3>5
  <2>6. QED
    BY <1>10, <2>0, <2>4, <2>5 DEF RedisFails
<1>11. ASSUME NEW k \in Keys, ExpireKey(k)
      PROVE  Goal
  <2>1. /\ request' = request /\ claimed' \subseteq claimed /\ answered' = answered
        /\ channel' = "open" /\ UNCHANGED <<queued, socket, orphaned>>
    BY <1>2, <1>11 DEF ExpireKey, amqp, http
  <2>2. QED
    BY <1>4, <2>1, SocketOnly
<1>12. CASE Receive
  <2>1. /\ request' = request /\ claimed' = claimed /\ answered' = answered /\ channel' = "open"
        /\ orphaned' = orphaned /\ socket # <<>> /\ queued' = queued \cup {Head(socket)} /\ socket' = Tail(socket)
    BY <1>2, <1>12 DEF Receive, redis, http
  <2>2. \A n \in Notices : Sent(n) => Sent(n)'
    BY <2>1, SocketOnly
  <2>3. QED
    BY <1>4, <2>1, <2>2
<1>13. CASE BrokerUp \/ ChannelClosed \/ connectRabbit \/ bootstrap \/ UNCHANGED vars
  <2>1. /\ request' = request /\ claimed' = claimed /\ answered' = answered
        /\ channel' = "open" /\ UNCHANGED <<queued, socket, orphaned>>
    BY <1>2, <1>13 DEF BrokerUp, ChannelClosed, connectRabbit, bootstrap, redis, http, vars, amqp
  <2>2. QED
    BY <1>4, <2>1, SocketOnly
<1>14. CASE BrokerDown \/ Crash
  <2>1. outages' = outages + 1 \/ crashes' = crashes + 1
    BY <1>14 DEF BrokerDown, Crash
  <2>2. QED
    BY <1>1, <2>1 DEF Undisturbed
<1>15. QED
  BY <1>6, <1>7, <1>8, <1>9, <1>10, <1>11, <1>12, <1>13, <1>14 DEF Next, Handle

\* While broker and handler stay up, a provider that is answered 200 may forget the callback:
\* each of its notices is in the exchange or on its way there, itself or one with its key, or a
\* request that claimed the key is about to publish.  The one exception is a key that Redis set
\* for a call that never learned it, which costs a notice.
THEOREM AnswerCorrect == Spec => []AnswerIsCovered
<1>1. CoverInv => AnswerIsCovered
  <2>1. \A n : Settled(n) => Covered(n) \/ KeyOf[n] \in orphaned
    BY DEF Settled, KeySettled, Covered, KeySent
  <2>2. QED
    BY <2>1 DEF CoverInv, AnswerIsCovered
<1>2. QED
  BY <1>1, CoverInit, CoverStep, IngestTyped, PTL DEF Spec

-----------------------------------------------------------------------------
(* What a held key stands for.  Only a fault between the claim and the     *)
(* publish leaves a key that is held for a notice nobody wrote.            *)

WrittenOnce == \A n \in Notices : Sent(n) => written[n] > 0

LEMMA WrittenOnceStep == IngestTypes /\ WrittenOnce /\ [Next]_vars => WrittenOnce'
<1> SUFFICES ASSUME IngestTypes, WrittenOnce, [Next]_vars, NEW n \in Notices, Sent(n)'
             PROVE  written'[n] > 0
  BY DEF WrittenOnce
<1>0. socket \in Seq(Notices) /\ written \in [Notices -> Nat] /\ socket' \in Seq(Notices)
  <2>1. IngestTypes'
    BY IngestTypesStep
  <2>2. QED
    BY <2>1 DEF IngestTypes, TypeOK
<1>1. ASSUME written' = written, queued' \cup Members(socket') \subseteq queued \cup Members(socket)
      PROVE  written'[n] > 0
  BY <1>1 DEF WrittenOnce, Sent
<1>2. ASSUME NEW r \in Requests, publish(r)
      PROVE  written'[n] > 0
  <2>1. CASE UNCHANGED <<socket, written>>
    BY <1>1, <1>2, <2>1 DEF publish
  <2>2. CASE ~UNCHANGED <<socket, written>>
    <3>1. PICK m : /\ m = Head(request[r].todo)
                   /\ socket' = Append(socket, m) /\ written' = [written EXCEPT ![m] = @ + 1]
                   /\ queued' = queued
      BY <1>2, <2>2 DEF publish
    <3>2. m \in Notices
      BY <1>2, <3>1 DEF publish, IngestTypes, TypeOK
    <3>3. Members(socket') = Members(socket) \cup {m}
      BY <1>0, <3>1, <3>2, MembersFacts
    <3>4. n = m \/ Sent(n)
      BY <3>1, <3>3 DEF Sent
    <3>5. QED
      BY <1>0, <3>1, <3>2, <3>4 DEF WrittenOnce
  <2>3. QED
    BY <2>1, <2>2
<1>3. CASE Receive
  <2>1. /\ socket # <<>> /\ queued' = queued \cup {Head(socket)} /\ socket' = Tail(socket)
        /\ written' = written
    BY <1>3 DEF Receive
  <2>2. Members(socket) = Members(socket') \cup {Head(socket)}
    BY <1>0, <2>1, MembersFacts
  <2>3. QED
    BY <1>1, <2>1, <2>2
<1>4. CASE BrokerDown \/ Crash
  <2>1. socket' = <<>> /\ UNCHANGED <<queued, written>>
    BY <1>4 DEF BrokerDown, Crash
  <2>2. QED
    BY <1>1, <2>1, MembersFacts
<1>5. ASSUME UNCHANGED <<queued, socket, written>>
      PROVE  written'[n] > 0
  BY <1>1, <1>5
<1>6. ASSUME NEW r \in Requests,
             acquireDedupeKey(r) \/ RedisFails(r) \/ Answer(r) \/ \E b \in Batches : Post(r, b)
      PROVE  written'[n] > 0
  BY <1>5, <1>6 DEF acquireDedupeKey, RedisFails, Answer, Post, amqp
<1>7. CASE \/ \E k \in Keys : ExpireKey(k)
           \/ BrokerUp \/ ChannelClosed \/ connectRabbit \/ bootstrap \/ UNCHANGED vars
  BY <1>5, <1>7 DEF ExpireKey, BrokerUp, ChannelClosed, connectRabbit, bootstrap, vars, amqp
<1>8. QED
  BY <1>2, <1>3, <1>4, <1>6, <1>7 DEF Next, Handle

\* A notice written under a key counts for it.
LEMMA WrittenCounts ==
  ASSUME TypeOK, NEW n \in Notices, written[n] > 0
  PROVE  WrittenFor(KeyOf[n]) > 0
<1>1. IsFiniteSet(Under(KeyOf[n])) /\ n \in Under(KeyOf[n])
  BY IngestAssumption, FS_Subset DEF Under
<1>2. IntOn(written, Under(KeyOf[n])) /\ NatOn(written, Under(KeyOf[n]))
  BY DEF IntOn, NatOn, TypeOK, Under
<1> DEFINE rest == Under(KeyOf[n]) \ {n}
<1>3. SumFunctionOnSet(written, Under(KeyOf[n])) = written[n] + SumFunctionOnSet(written, rest)
  BY <1>1, <1>2, SumTakesOut
<1>4. SumFunctionOnSet(written, rest) \in Nat
  <2>1. NatOn(written, rest) /\ IsFiniteSet(rest) /\ \A m \in rest : written[m] <= written[m]
    BY <1>1, <1>2, FS_Subset DEF NatOn
  <2> HIDE DEF rest
  <2>2. QED
    BY <2>1, SumMonotone
<1>5. written[n] \in Nat
  BY DEF TypeOK
<1>6. QED
  BY <1>3, <1>4, <1>5 DEF WrittenFor, Under

\* "Release a claimed dedupe key when we fail BEFORE publishing" needs no release while broker
\* and handler stay up and Redis tells what it set: such a key, while it is held, stands for a
\* notice that was published, or that a request is about to publish.  IngestKeyHeld shows that
\* one outage is enough to break it; so is one reply that Redis loses.
THEOREM HeldKeyCorrect ==
  Spec => [](Undisturbed =>
               \A k \in claimed : k \in orphaned \/ Publishing(k) \/ WrittenFor(k) > 0)
<1> DEFINE Accounted == Undisturbed =>
                     \A k \in claimed : k \in orphaned \/ Publishing(k) \/ WrittenFor(k) > 0
<1>1. Init => WrittenOnce
  BY MembersFacts DEF Init, WrittenOnce, Sent
<1>2. ASSUME IngestTypes, CoverInv, WrittenOnce
      PROVE  Accounted
  <2>1. SUFFICES ASSUME Undisturbed, NEW k \in claimed, KeySent(k)
                 PROVE  WrittenFor(k) > 0
    BY <1>2 DEF CoverInv, KeySettled
  <2>2. PICK m \in Notices : KeyOf[m] = k /\ written[m] > 0
    BY <1>2, <2>1 DEF KeySent, WrittenOnce
  <2>3. QED
    BY <1>2, <2>2, WrittenCounts DEF IngestTypes
<1>3. QED
  BY <1>1, <1>2, CoverInit, CoverStep, WrittenOnceStep, IngestTyped, PTL DEF Spec
=============================================================================
