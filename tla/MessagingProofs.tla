--------------------------- MODULE MessagingProofs ---------------------------
(***************************************************************************)
(* What holds of the two ends of the exchange, for any number of events,   *)
(* relay jobs and rows in a batch, any prefetch, and every bound on        *)
(* outages, crashes and failures: the outbox relay, its refinement of the  *)
(* promise to the consumers, the AI engine's queue, and the types of both  *)
(* in the run that composes them.                                          *)
(***************************************************************************)
EXTENDS MCMessaging, SequenceTheorems, SumFacts

-----------------------------------------------------------------------------
(* The outbox relay.                                                       *)

LEMMA Appended ==
  ASSUME NEW S, NEW s \in Seq(S), NEW e \in S
  PROVE  /\ Append(s, e) \in Seq(S)
         /\ \A i \in DOMAIN s : i \in DOMAIN Append(s, e) /\ Append(s, e)[i] = s[i]
         /\ Len(s) + 1 \in DOMAIN Append(s, e) /\ Append(s, e)[Len(s) + 1] = e
         /\ \A i \in DOMAIN Append(s, e) : i \in DOMAIN s \/ Append(s, e)[i] = e
BY AppendProperties, LenProperties

LEMMA Taken ==
  ASSUME NEW S, NEW s \in Seq(S), s # <<>>
  PROVE  /\ Head(s) \in S /\ Tail(s) \in Seq(S)
         /\ s[1] = Head(s)
         /\ \A i \in DOMAIN s : i # 1 => i - 1 \in DOMAIN Tail(s) /\ Tail(s)[i - 1] = s[i]
         /\ \A i \in DOMAIN Tail(s) : i + 1 \in DOMAIN s /\ Tail(s)[i] = s[i + 1]
<1>1. /\ Head(s) \in S /\ Tail(s) \in Seq(S) /\ Len(Tail(s)) = Len(s) - 1
      /\ \A i \in 1 .. Len(Tail(s)) : Tail(s)[i] = s[i + 1]
  BY HeadTailProperties
<1>2. /\ Len(s) \in Nat \ {0} /\ DOMAIN s = 1 .. Len(s)
      /\ DOMAIN Tail(s) = 1 .. Len(Tail(s))
  BY <1>1, EmptySeq, LenProperties
<1>3. Head(s) = s[1]
  BY <1>2
<1>4. \A i \in DOMAIN s : i # 1 => i - 1 \in DOMAIN Tail(s) /\ Tail(s)[i - 1] = s[i]
  <2> SUFFICES ASSUME NEW i \in DOMAIN s, i # 1
               PROVE  i - 1 \in DOMAIN Tail(s) /\ Tail(s)[i - 1] = s[i]
    OBVIOUS
  <2>1. i - 1 \in 1 .. Len(Tail(s)) /\ (i - 1) + 1 = i
    BY <1>1, <1>2
  <2>2. QED
    BY <1>1, <1>2, <2>1
<1>5. \A i \in DOMAIN Tail(s) : i + 1 \in DOMAIN s /\ Tail(s)[i] = s[i + 1]
  BY <1>1, <1>2
<1>6. QED
  BY <1>1, <1>3, <1>4, <1>5

LEMMA BatchTyped ==
  ASSUME NEW S, outbox \in Seq(S), NEW n \in Nat, NEW rows \in [1 .. n -> Unprocessed]
  PROVE  [i \in 1 .. n |-> outbox[rows[i]]] \in Seq(S)
<1>1. \A i \in 1 .. n : outbox[rows[i]] \in S
  BY ElementOfSeq, LenProperties DEF Unprocessed
<1>2. [i \in 1 .. n |-> outbox[rows[i]]] \in [1 .. n -> S]
  BY <1>1
<1>3. QED
  BY <1>2

LEMMA RowsWritten == ASSUME TypeOK PROVE outbox \in Seq(Written) /\ Written \subseteq Events
<1>1. outbox \in Seq(Events)
  BY DEF TypeOK
<1>2. \A i \in DOMAIN outbox : outbox[i] \in Written /\ outbox[i] \in Events
  BY <1>1, ElementOfSeq, LenProperties DEF Written
<1>3. DOMAIN outbox = 1 .. Len(outbox) /\ Len(outbox) \in Nat
  BY <1>1, LenProperties
<1>4. outbox \in [1 .. Len(outbox) -> Written]
  <2>1. outbox \in [1 .. Len(outbox) -> Events]
    BY <1>1, LenProperties
  <2>2. QED
    BY <1>2, <1>3, <2>1
<1>5. Written \subseteq Events
  BY <1>2 DEF Written
<1>6. outbox \in Seq(Written)
  BY <1>3, <1>4
<1>7. QED
  BY <1>5, <1>6

-----------------------------------------------------------------------------
LEMMA RelayTypeStep ==
  ASSUME TypeOK, [Next]_vars
  PROVE  TypeOK'
<1> USE RelayBounds
<1>1. CASE UNCHANGED vars
  BY <1>1 DEF vars, faults, TypeOK
<1>2. ASSUME NEW e \in Events, Emit(e)
      PROVE  TypeOK'
  <2>1. outbox' \in Seq(Events)
    BY <1>2, Appended DEF Emit, TypeOK
  <2>2. QED
    BY <1>2, <2>1 DEF Emit, faults, TypeOK
<1>3. ASSUME NEW r \in Relays, BeginRelay(r)
      PROVE  TypeOK'
  <2>1. PICK todo \in Seq(Events) :
          relay' = [relay EXCEPT ![r] = [todo |-> todo, published |-> FALSE]]
    <3>1. PICK n \in 1 .. OUTBOX_BATCH : \E rows \in [1 .. n -> Unprocessed] :
            relay' = [relay EXCEPT ![r] = [todo |-> [i \in 1 .. n |-> outbox[rows[i]]],
                                           published |-> FALSE]]
      BY <1>3 DEF BeginRelay
    <3>2. n \in Nat /\ outbox \in Seq(Events)
      BY DEF TypeOK
    <3>3. QED
      BY <3>1, <3>2, BatchTyped
  <2>2. /\ relay' \in [Relays -> [todo : Seq(Events), published : BOOLEAN]]
        /\ \A q \in Relays : relay'[q].published => relay'[q].todo # <<>>
    BY <2>1 DEF TypeOK
  <2>3. QED
    BY <1>3, <2>2 DEF BeginRelay, faults, TypeOK
<1>4. ASSUME NEW r \in Relays, publishDomainEvent(r)
      PROVE  TypeOK'
  <2>1. relay[r].todo \in Seq(Events) /\ relay[r].todo # <<>>
    BY <1>4 DEF publishDomainEvent, TypeOK
  <2>2. socket' \in Seq(Events)
    BY <1>4, <2>1, Taken, Appended DEF publishDomainEvent, TypeOK
  <2>3. channel' \in {"none", "open", "dead", "failed"}
    BY <1>4 DEF publishDomainEvent, ensureChannel, TypeOK
  <2>4. /\ relay' \in [Relays -> [todo : Seq(Events), published : BOOLEAN]]
        /\ \A q \in Relays : relay'[q].published => relay'[q].todo # <<>>
    BY <1>4, <2>1 DEF publishDomainEvent, TypeOK
  <2>5. QED
    BY <1>4, <2>2, <2>3, <2>4 DEF publishDomainEvent, faults, TypeOK
<1>5. ASSUME NEW r \in Relays, MarkProcessed(r)
      PROVE  TypeOK'
  <2>1. relay[r].todo \in Seq(Events) /\ relay[r].todo # <<>>
    BY <1>5 DEF MarkProcessed, TypeOK
  <2>2. Head(relay[r].todo) \in Events /\ Tail(relay[r].todo) \in Seq(Events)
    BY <2>1, Taken
  <2>3. /\ relay' \in [Relays -> [todo : Seq(Events), published : BOOLEAN]]
        /\ \A q \in Relays : relay'[q].published => relay'[q].todo # <<>>
    BY <1>5, <2>2 DEF MarkProcessed, TypeOK
  <2>4. QED
    BY <1>5, <2>2, <2>3 DEF MarkProcessed, faults, TypeOK
<1>6. ASSUME NEW r \in Relays, RelayFails(r)
      PROVE  TypeOK'
  <2>1. /\ relay' \in [Relays -> [todo : Seq(Events), published : BOOLEAN]]
        /\ \A q \in Relays : relay'[q].published => relay'[q].todo # <<>>
    BY <1>6, EmptySeq DEF RelayFails, Idle, TypeOK
  <2>2. failures' \in Nat
    BY <1>6 DEF RelayFails, TypeOK
  <2>3. QED
    BY <1>6, <2>1, <2>2 DEF RelayFails, TypeOK
<1>7. CASE Receive
  <2>1. Head(socket) \in Events /\ Tail(socket) \in Seq(Events)
    BY <1>7, Taken DEF Receive, TypeOK
  <2>2. copies' \in [Events -> Nat]
    BY <1>7, <2>1 DEF Receive, TypeOK
  <2>3. QED
    BY <1>7, <2>1, <2>2 DEF Receive, jobs, faults, TypeOK
<1>8. CASE BrokerDown
  BY <1>8, EmptySeq DEF BrokerDown, jobs, TypeOK
<1>9. CASE BrokerUp \/ ChannelClosed
  BY <1>9 DEF BrokerUp, ChannelClosed, jobs, faults, TypeOK
<1>10. CASE Crash
  <2>1. /\ relay' \in [Relays -> [todo : Seq(Events), published : BOOLEAN]]
        /\ \A q \in Relays : relay'[q].published => relay'[q].todo # <<>>
    BY <1>10, EmptySeq DEF Crash, Idle
  <2>2. crashes' \in Nat /\ socket' \in Seq(Events)
    BY <1>10, EmptySeq DEF Crash, TypeOK
  <2>3. QED
    BY <1>10, <2>1, <2>2 DEF Crash, TypeOK
<1>11. QED
  BY <1>1, <1>2, <1>3, <1>4, <1>5, <1>6, <1>7, <1>8, <1>9, <1>10 DEF Next, Relay

LEMMA RelayTypeInit == Init => TypeOK
BY EmptySeq DEF Init, Idle, TypeOK

\* Rows, frames, connection and jobs keep their types.
THEOREM RelayTypeCorrect == Spec => []TypeOK
BY RelayTypeInit, RelayTypeStep, PTL DEF Spec
-----------------------------------------------------------------------------
(* What is on its way was committed; while broker and worker stay up,      *)
(* every publish finds a channel and nothing on its way is lost.           *)

Reached(e) == copies[e] > 0 \/ InSocket(e)

KnownRows ==
  /\ socket \in Seq(Written)
  /\ \A r \in Relays : relay[r].todo \in Seq(Written)
  /\ \A e \in Events : copies[e] > 0 => e \in Written

CalmChannel == Calm => broker = "up" /\ channel \in {"none", "open"}
HeadIsSent  == Calm => \A r \in Relays : relay[r].published => Reached(Head(relay[r].todo))

LEMMA CalmBefore ==
  ASSUME TypeOK, [Next]_vars, Calm'
  PROVE  Calm
<1>1. outages' >= outages /\ crashes' >= crashes
  BY DEF TypeOK, Next, Relay, vars, faults, Emit, BeginRelay, publishDomainEvent, MarkProcessed,
         RelayFails, Receive, BrokerDown, BrokerUp, ChannelClosed, Crash
<1>2. outages \in Nat /\ crashes \in Nat /\ outages' \in Nat /\ crashes' \in Nat
  BY RelayTypeStep DEF TypeOK
<1>3. outages' + crashes' = 0
  BY DEF Calm
<1>4. ASSUME NEW a \in Nat, NEW b \in Nat, NEW c \in Nat, NEW d \in Nat,
             c + d = 0, c >= a, d >= b
      PROVE  a + b = 0
  BY <1>4
<1>5. outages + crashes = 0
  BY <1>1, <1>2, <1>3, <1>4
<1>6. QED
  BY <1>5 DEF Calm

LEMMA WrittenGrows ==
  ASSUME TypeOK, [Next]_vars
  PROVE  Written \subseteq Written'
<1>1. CASE UNCHANGED outbox
  BY <1>1 DEF Written
<1>2. ASSUME NEW e \in Events, Emit(e)
      PROVE  Written \subseteq Written'
  BY <1>2, Appended DEF Emit, Written, TypeOK
<1>3. UNCHANGED outbox \/ \E e \in Events : Emit(e)
  BY DEF Next, Relay, vars, jobs, BeginRelay, publishDomainEvent, MarkProcessed,
         RelayFails, Receive, BrokerDown, BrokerUp, ChannelClosed, Crash
<1>4. QED
  BY <1>1, <1>2, <1>3

LEMMA KnownStep ==
  ASSUME TypeOK, KnownRows, [Next]_vars
  PROVE  KnownRows'
<1>1. Written \subseteq Written' /\ Written \subseteq Events
  BY WrittenGrows, RowsWritten
<1>2. /\ socket \in Seq(Written')
      /\ \A r \in Relays : relay[r].todo \in Seq(Written')
      /\ \A e \in Events : copies[e] > 0 => e \in Written'
  BY <1>1, SeqMonotonic DEF KnownRows
<1>3. CASE UNCHANGED <<socket, relay, copies>>
  BY <1>2, <1>3 DEF KnownRows
<1>4. ASSUME NEW r \in Relays, BeginRelay(r)
      PROVE  KnownRows'
  <2>1. PICK todo \in Seq(Written) :
          relay' = [relay EXCEPT ![r] = [todo |-> todo, published |-> FALSE]]
    <3>1. PICK n \in 1 .. OUTBOX_BATCH : \E rows \in [1 .. n -> Unprocessed] :
            relay' = [relay EXCEPT ![r] = [todo |-> [i \in 1 .. n |-> outbox[rows[i]]],
                                           published |-> FALSE]]
      BY <1>4 DEF BeginRelay
    <3>2. n \in Nat /\ outbox \in Seq(Written)
      BY RowsWritten, RelayBounds
    <3>3. QED
      BY <3>1, <3>2, BatchTyped
  <2>2. \A q \in Relays : relay'[q].todo \in Seq(Written')
    BY <1>1, <1>2, <2>1, SeqMonotonic DEF TypeOK
  <2>3. QED
    BY <1>2, <1>4, <2>2 DEF BeginRelay, KnownRows
<1>5. ASSUME NEW r \in Relays, publishDomainEvent(r)
      PROVE  KnownRows'
  <2>1. relay[r].todo \in Seq(Written') /\ relay[r].todo # <<>>
    BY <1>2, <1>5 DEF publishDomainEvent
  <2>2. Head(relay[r].todo) \in Written'
    BY <2>1, Taken
  <2>3. socket' \in Seq(Written')
    BY <1>2, <1>5, <2>2, Appended DEF publishDomainEvent
  <2>4. \A q \in Relays : relay'[q].todo = relay[q].todo
    BY <1>5 DEF publishDomainEvent, TypeOK
  <2>5. QED
    BY <1>2, <1>5, <2>3, <2>4 DEF publishDomainEvent, KnownRows
<1>6. ASSUME NEW r \in Relays, MarkProcessed(r)
      PROVE  KnownRows'
  <2>1. relay[r].todo \in Seq(Written') /\ relay[r].todo # <<>>
    BY <1>2, <1>6 DEF MarkProcessed, TypeOK
  <2>2. Tail(relay[r].todo) \in Seq(Written')
    BY <2>1, Taken
  <2>3. \A q \in Relays : relay'[q].todo \in Seq(Written')
    BY <1>2, <1>6, <2>2 DEF MarkProcessed, TypeOK
  <2>4. QED
    BY <1>2, <1>6, <2>3 DEF MarkProcessed, KnownRows
<1>7. ASSUME NEW r \in Relays, RelayFails(r)
      PROVE  KnownRows'
  <2>1. \A q \in Relays : relay'[q].todo \in Seq(Written')
    BY <1>2, <1>7, EmptySeq DEF RelayFails, Idle, TypeOK
  <2>2. QED
    BY <1>2, <1>7, <2>1 DEF RelayFails, KnownRows
<1>8. CASE Receive
  <2>1. Head(socket) \in Written' /\ Tail(socket) \in Seq(Written')
    BY <1>2, <1>8, Taken DEF Receive
  <2>2. \A e \in Events : copies'[e] > 0 => e \in Written'
    BY <1>2, <1>8, <2>1 DEF Receive, TypeOK
  <2>3. QED
    BY <1>2, <1>8, <2>1, <2>2 DEF Receive, jobs, KnownRows
<1>9. CASE BrokerDown
  BY <1>2, <1>9, EmptySeq DEF BrokerDown, jobs, KnownRows
<1>10. CASE Crash
  <2>1. socket' \in Seq(Written') /\ \A q \in Relays : relay'[q].todo \in Seq(Written')
    BY <1>10, EmptySeq DEF Crash, Idle
  <2>2. QED
    BY <1>2, <1>10, <2>1 DEF Crash, KnownRows
<1>11. \/ UNCHANGED <<socket, relay, copies>>
       \/ \E r \in Relays : Relay(r) \/ RelayFails(r)
       \/ Receive \/ BrokerDown \/ Crash
  BY DEF Next, vars, jobs, Emit, BrokerUp, ChannelClosed
<1>12. QED
  BY <1>3, <1>4, <1>5, <1>6, <1>7, <1>8, <1>9, <1>10, <1>11 DEF Relay

LEMMA CalmQuiet ==
  ASSUME TypeOK, [Next]_vars, Calm'
  PROVE  Calm /\ ~BrokerDown /\ ~Crash
<1>1. outages \in Nat /\ crashes \in Nat
  BY DEF TypeOK
<1>2. Calm /\ outages' + crashes' = 0
  BY CalmBefore DEF Calm
<1>3. outages + crashes = 0
  BY <1>2 DEF Calm
<1>4. ASSUME BrokerDown PROVE FALSE
  BY <1>1, <1>2, <1>3, <1>4 DEF BrokerDown
<1>5. ASSUME Crash PROVE FALSE
  BY <1>1, <1>2, <1>3, <1>5 DEF Crash
<1>6. QED
  BY <1>2, <1>4, <1>5

LEMMA ReachedStays ==
  ASSUME TypeOK, [Next]_vars, Calm', NEW e \in Events, Reached(e)
  PROVE  Reached(e)'
<1>1. CASE UNCHANGED <<socket, copies>>
  BY <1>1 DEF Reached, InSocket
<1>2. ASSUME NEW r \in Relays, publishDomainEvent(r)
      PROVE  Reached(e)'
  <2>1. relay[r].todo \in Seq(Events) /\ relay[r].todo # <<>>
    BY <1>2 DEF publishDomainEvent, TypeOK
  <2>2. Head(relay[r].todo) \in Events /\ socket \in Seq(Events)
    BY <2>1, Taken DEF TypeOK
  <2>3. \A i \in DOMAIN socket : i \in DOMAIN socket' /\ socket'[i] = socket[i]
    BY <1>2, <2>2, Appended DEF publishDomainEvent
  <2>4. UNCHANGED copies
    BY <1>2 DEF publishDomainEvent
  <2>5. QED
    BY <2>3, <2>4 DEF Reached, InSocket
<1>3. CASE Receive
  <2>1. socket \in Seq(Events) /\ socket # <<>>
    BY <1>3 DEF Receive, TypeOK
  <2>2. /\ Head(socket) \in Events /\ socket[1] = Head(socket)
        /\ \A i \in DOMAIN socket : i # 1 =>
             i - 1 \in DOMAIN Tail(socket) /\ Tail(socket)[i - 1] = socket[i]
    BY <2>1, Taken
  <2>3. copies'[Head(socket)] > 0 /\ (copies[e] > 0 => copies'[e] > 0)
    BY <1>3, <2>2 DEF Receive, TypeOK
  <2>4. socket' = Tail(socket)
    BY <1>3 DEF Receive
  <2>5. CASE copies[e] > 0
    BY <2>3, <2>5 DEF Reached
  <2>6. ASSUME NEW i \in DOMAIN socket, socket[i] = e
        PROVE  Reached(e)'
    <3>1. CASE i = 1
      BY <2>2, <2>3, <2>6, <3>1 DEF Reached
    <3>2. CASE i # 1
      BY <2>2, <2>4, <2>6, <3>2 DEF Reached, InSocket
    <3>3. QED
      BY <3>1, <3>2
  <2>7. QED
    BY <2>5, <2>6 DEF Reached, InSocket
<1>4. ~BrokerDown /\ ~Crash
  BY CalmQuiet
<1>5. \/ UNCHANGED <<socket, copies>>
      \/ \E r \in Relays : publishDomainEvent(r)
      \/ Receive
  BY <1>4 DEF Next, Relay, vars, jobs, Emit, BeginRelay, MarkProcessed, RelayFails, BrokerUp,
              ChannelClosed
<1>6. QED
  BY <1>1, <1>2, <1>3, <1>5

LEMMA CalmChannelStep ==
  ASSUME TypeOK, CalmChannel, [Next]_vars
  PROVE  CalmChannel'
<1> SUFFICES ASSUME Calm'
             PROVE  broker' = "up" /\ channel' \in {"none", "open"}
  BY DEF CalmChannel
<1>1. broker = "up" /\ channel \in {"none", "open"} /\ ~BrokerDown /\ ~Crash
  BY CalmQuiet DEF CalmChannel
<1>2. QED
  BY <1>1 DEF Next, Relay, vars, jobs, Emit, BeginRelay, publishDomainEvent, ensureChannel,
              MarkProcessed, RelayFails, Receive, BrokerUp, ChannelClosed

LEMMA HeadIsSentStep ==
  ASSUME TypeOK, CalmChannel, HeadIsSent, [Next]_vars
  PROVE  HeadIsSent'
<1> SUFFICES ASSUME Calm', NEW r \in Relays, relay'[r].published
             PROVE  Reached(Head(relay[r].todo))'
  BY DEF HeadIsSent
<1>1. Calm /\ ~BrokerDown /\ ~Crash
  BY CalmQuiet
<1>2. relay[r].todo \in Seq(Events)
  BY DEF TypeOK
<1>3. CASE relay[r].published /\ relay'[r].todo = relay[r].todo
  <2>1. PICK e \in Events : e = Head(relay[r].todo)
    BY <1>2, <1>3, Taken DEF TypeOK
  <2>2. Reached(e)
    BY <1>1, <1>3, <2>1 DEF HeadIsSent
  <2>3. Reached(e)' /\ e = Head(relay'[r].todo)
    BY <1>3, <2>1, <2>2, ReachedStays
  <2>4. QED
    BY <2>3 DEF Reached, InSocket
<1>4. CASE publishDomainEvent(r)
  <2>1. Head(relay[r].todo) \in Events /\ socket \in Seq(Events)
    BY <1>2, <1>4, Taken DEF publishDomainEvent, TypeOK
  <2>2. channel' = "open"
    BY <1>1, <1>4 DEF publishDomainEvent, ensureChannel, CalmChannel
  <2>3. socket' = Append(socket, Head(relay[r].todo)) /\ relay'[r].todo = relay[r].todo
    BY <1>4, <2>2 DEF publishDomainEvent, TypeOK
  <2>4. Len(socket) + 1 \in DOMAIN socket' /\ socket'[Len(socket) + 1] = Head(relay[r].todo)
    BY <2>1, <2>3, Appended
  <2>5. QED
    BY <2>3, <2>4 DEF Reached, InSocket
<1>5. publishDomainEvent(r) \/ (relay[r].published /\ relay'[r].todo = relay[r].todo)
  <2>1. CASE UNCHANGED relay
    BY <2>1
  <2>2. ASSUME NEW q \in Relays, BeginRelay(q)
        PROVE  relay[r].published /\ relay'[r].todo = relay[r].todo
    <3>1. PICK todo : relay' = [relay EXCEPT ![q] = [todo |-> todo, published |-> FALSE]]
      BY <2>2 DEF BeginRelay
    <3>2. q # r
      BY <3>1 DEF TypeOK
    <3>3. QED
      BY <3>1, <3>2 DEF TypeOK
  <2>3. ASSUME NEW q \in Relays, publishDomainEvent(q), q # r
        PROVE  relay[r].published /\ relay'[r].todo = relay[r].todo
    BY <2>3 DEF publishDomainEvent, TypeOK
  <2>4. ASSUME NEW q \in Relays, MarkProcessed(q) \/ RelayFails(q)
        PROVE  relay[r].published /\ relay'[r].todo = relay[r].todo
    <3>1. PICK frame : relay' = [relay EXCEPT ![q] = frame] /\ ~frame.published
      BY <2>4 DEF MarkProcessed, RelayFails, Idle
    <3>2. q # r
      BY <3>1 DEF TypeOK
    <3>3. QED
      BY <3>1, <3>2 DEF TypeOK
  <2>5. \/ UNCHANGED relay
        \/ \E q \in Relays : Relay(q) \/ RelayFails(q)
    BY <1>1 DEF Next, vars, jobs, Emit, Receive, BrokerUp, ChannelClosed
  <2>6. QED
    BY <2>1, <2>2, <2>3, <2>4, <2>5 DEF Relay
<1>6. QED
  BY <1>3, <1>4, <1>5

LEMMA PublishedStep ==
  ASSUME TypeOK, HeadIsSent, PublishedWhileCalm, [Next]_vars
  PROVE  PublishedWhileCalm'
<1> SUFFICES ASSUME Calm', NEW e \in processed'
             PROVE  Reached(e)'
  BY DEF PublishedWhileCalm, ProcessedWasPublished, Reached
<1>1. Calm /\ processed \subseteq Events
  BY CalmQuiet DEF TypeOK
<1>2. CASE e \in processed
  <2>1. Reached(e) /\ e \in Events
    BY <1>1, <1>2 DEF PublishedWhileCalm, ProcessedWasPublished, Reached
  <2>2. QED
    BY <2>1, ReachedStays
<1>3. ASSUME NEW r \in Relays, MarkProcessed(r), e = Head(relay[r].todo)
      PROVE  Reached(e)'
  <2>1. relay[r].todo \in Seq(Events) /\ relay[r].todo # <<>>
    BY <1>3 DEF MarkProcessed, TypeOK
  <2>2. e \in Events /\ Reached(e)
    BY <1>1, <1>3, <2>1, Taken DEF MarkProcessed, HeadIsSent
  <2>3. QED
    BY <2>2, ReachedStays
<1>4. \/ e \in processed
      \/ \E r \in Relays : MarkProcessed(r) /\ e = Head(relay[r].todo)
  BY DEF Next, Relay, vars, jobs, Emit, BeginRelay, publishDomainEvent, MarkProcessed,
         RelayFails, Receive, BrokerDown, BrokerUp, ChannelClosed, Crash
<1>5. QED
  BY <1>2, <1>3, <1>4

RelayInv == TypeOK /\ KnownRows /\ CalmChannel /\ HeadIsSent /\ PublishedWhileCalm

LEMMA RelayInvInit == Init => RelayInv
<1> SUFFICES ASSUME Init PROVE RelayInv
  OBVIOUS
<1>1. KnownRows
  <2>1. socket \in Seq(Written) /\ \A r \in Relays : relay[r].todo \in Seq(Written)
    BY EmptySeq DEF Init, Idle
  <2>2. \A e \in Events : ~(copies[e] > 0)
    BY DEF Init
  <2>3. QED
    BY <2>1, <2>2 DEF KnownRows
<1>2. CalmChannel /\ PublishedWhileCalm
  BY DEF Init, CalmChannel, PublishedWhileCalm, ProcessedWasPublished
<1>3. HeadIsSent
  BY DEF Init, HeadIsSent, Idle
<1>4. QED
  BY <1>1, <1>2, <1>3, RelayTypeInit DEF RelayInv

LEMMA RelayInvStep == RelayInv /\ [Next]_vars => RelayInv'
BY RelayTypeStep, KnownStep, CalmChannelStep, HeadIsSentStep, PublishedStep DEF RelayInv

\* While broker and worker stay up a processed row's event is in the exchange or on its way
\* there, however many jobs read the same rows, fail and start over.
THEOREM PublishedCorrect == Spec => []PublishedWhileCalm
<1>1. RelayInv => PublishedWhileCalm
  BY DEF RelayInv
<1>2. QED
  BY <1>1, RelayInvInit, RelayInvStep, PTL DEF Spec

-----------------------------------------------------------------------------
(* The refinement: what the exchange has received is what was delivered.   *)

DeliveredEvents == {e \in Events : copies[e] > 0}

LEMMA DeliveryInitial == Init => Delivery!Init
<1> SUFFICES ASSUME Init PROVE Delivery!Init
  OBVIOUS
<1>1. Written = {}
  BY DEF Init, Written
<1>2. {e \in Events : copies[e] > 0} = {}
  BY DEF Init
<1>3. Calm
  BY DEF Init, Calm
<1>4. QED
  BY <1>1, <1>2, <1>3 DEF Delivery!Init

\* What no step but a commit, a delivery or a fault changes.
LEMMA FaultCounts ==
  ASSUME [Next]_vars, ~BrokerDown, ~Crash
  PROVE  Calm' <=> Calm
BY DEF Next, Relay, vars, jobs, faults, Calm, Emit, BeginRelay, publishDomainEvent,
       MarkProcessed, RelayFails, Receive, BrokerUp, ChannelClosed

LEMMA DeliveryStep ==
  ASSUME TypeOK, KnownRows, [Next]_vars
  PROVE  [Delivery!Next]_(Delivery!vars)
<1>1. CASE UNCHANGED <<outbox, copies, outages, crashes>>
  <2>1. Written' = Written /\ DeliveredEvents' = DeliveredEvents /\ (Calm' <=> Calm)
    BY <1>1 DEF Written, DeliveredEvents, Calm
  <2>2. QED
    BY <2>1 DEF Delivery!vars, DeliveredEvents
<1>2. ASSUME NEW e \in Events, Emit(e)
      PROVE  Delivery!Commit(e)
  <2>1. Written' = Written \cup {e}
    <3>1. outbox \in Seq(Events)
      BY DEF TypeOK
    <3>2. /\ \A i \in DOMAIN outbox : i \in DOMAIN outbox' /\ outbox'[i] = outbox[i]
          /\ Len(outbox) + 1 \in DOMAIN outbox' /\ outbox'[Len(outbox) + 1] = e
          /\ \A i \in DOMAIN outbox' : i \in DOMAIN outbox \/ outbox'[i] = e
      BY <1>2, <3>1, Appended DEF Emit
    <3>3. QED
      BY <3>2 DEF Written
  <2>2. e \notin Written /\ DeliveredEvents' = DeliveredEvents /\ (Calm' <=> Calm)
    BY <1>2 DEF Emit, faults, DeliveredEvents, Calm
  <2>3. QED
    BY <2>1, <2>2 DEF Delivery!Commit, DeliveredEvents
<1>3. CASE Receive
  <2>1. PICK e \in Events : e = Head(socket) /\ e \in Written
    <3>1. Head(socket) \in Written
      BY <1>3, Taken DEF Receive, KnownRows
    <3>2. QED
      BY <3>1, RowsWritten
  <2>2. copies' = [copies EXCEPT ![e] = @ + 1] /\ copies \in [Events -> Nat]
    BY <1>3, <2>1 DEF Receive, TypeOK
  <2>3. DeliveredEvents' = DeliveredEvents \cup {e}
    BY <2>2 DEF DeliveredEvents
  <2>4. Written' = Written /\ (Calm' <=> Calm)
    BY <1>3 DEF Receive, jobs, faults, Written, Calm
  <2>5. CASE e \in DeliveredEvents
    BY <2>3, <2>4, <2>5 DEF Delivery!vars, DeliveredEvents
  <2>6. CASE e \notin DeliveredEvents
    <3>1. Delivery!Deliver(e)
      BY <2>1, <2>3, <2>4, <2>6 DEF Delivery!Deliver, DeliveredEvents
    <3>2. QED
      BY <3>1 DEF Delivery!Next
  <2>7. QED
    BY <2>5, <2>6
<1>4. CASE BrokerDown \/ Crash
  <2>1. outages' + crashes' # 0
    BY <1>4 DEF BrokerDown, Crash, TypeOK
  <2>2. ~Calm'
    BY <2>1 DEF Calm
  <2>3. Written' = Written /\ DeliveredEvents' = DeliveredEvents
    BY <1>4 DEF BrokerDown, Crash, jobs, Written, DeliveredEvents
  <2>4. Delivery!Fail
    BY <2>2, <2>3 DEF Delivery!Fail, DeliveredEvents
  <2>5. QED
    BY <2>4 DEF Delivery!Next
<1>5. \/ UNCHANGED <<outbox, copies, outages, crashes>>
      \/ \E e \in Events : Emit(e)
      \/ Receive \/ BrokerDown \/ Crash
  BY DEF Next, Relay, vars, jobs, faults, BeginRelay, publishDomainEvent, MarkProcessed,
         RelayFails, BrokerUp, ChannelClosed
<1>6. QED
  BY <1>1, <1>2, <1>3, <1>4, <1>5 DEF Delivery!Next

\* Nothing reaches the exchange that was not committed, nothing committed is taken back and
\* a fault is never forgotten: the safety half of what the backend promises its consumers.
THEOREM DeliveryRefined == Spec => Delivery!Safety
<1>1. RelayInv /\ [Next]_vars => [Delivery!Next]_(Delivery!vars)
  BY DeliveryStep DEF RelayInv
<1>2. QED
  BY <1>1, DeliveryInitial, RelayInvInit, RelayInvStep, PTL DEF Spec, Delivery!Safety

-----------------------------------------------------------------------------
(* How often an event is repeated.  A job that sent an unprocessed row     *)
(* still holds it, or was cut: each crash cuts every job, each failure     *)
(* one.  Once the row is marked no job reads it again, and each that still *)
(* holds it sends it once.                                                 *)

InFlight(s, e) == {i \in DOMAIN s : s[i] = e}
Distinct(s) == \A i, j \in DOMAIN s : s[i] = s[j] => i = j

Sending(jobFrames, e) ==
  {r \in Relays : jobFrames[r].published /\ Head(jobFrames[r].todo) = e}
ToSend(jobFrames, e) ==
  {r \in Relays : /\ \E i \in DOMAIN jobFrames[r].todo : jobFrames[r].todo[i] = e
                  /\ ~(jobFrames[r].published /\ Head(jobFrames[r].todo) = e)}

Cuts == Cardinality(Relays) * crashes + failures

RowsDistinct == Distinct(outbox) /\ \A r \in Relays : Distinct(relay[r].todo)

CopiesInv ==
  \A e \in Events :
    /\ e \notin processed => Sent(e) <= Cuts + Cardinality(Sending(relay, e))
    /\ e \in processed =>
         Sent(e) + Cardinality(ToSend(relay, e)) <= Cuts + Cardinality(Relays)

LEMMA InFlightFinite ==
  ASSUME NEW S, NEW s \in Seq(S), NEW e
  PROVE  IsFiniteSet(InFlight(s, e)) /\ Cardinality(InFlight(s, e)) \in Nat
<1>1. DOMAIN s = 1 .. Len(s) /\ Len(s) \in Nat
  BY LenProperties
<1>2. IsFiniteSet(DOMAIN s)
  BY <1>1, FS_Interval
<1>3. InFlight(s, e) \subseteq DOMAIN s
  BY DEF InFlight
<1>4. IsFiniteSet(InFlight(s, e))
  BY <1>2, <1>3, FS_Subset
<1>5. QED
  BY <1>4, FS_CardinalityType

\* What is written to a socket is in flight once more, and what is read from it once less.
LEMMA InFlightAppend ==
  ASSUME NEW S, NEW s \in Seq(S), NEW x \in S, NEW e
  PROVE  Cardinality(InFlight(Append(s, x), e)) =
           Cardinality(InFlight(s, e)) + (IF x = e THEN 1 ELSE 0)
<1>1. /\ Append(s, x) \in Seq(S)
      /\ \A i \in DOMAIN s : i \in DOMAIN Append(s, x) /\ Append(s, x)[i] = s[i]
      /\ Len(s) + 1 \in DOMAIN Append(s, x) /\ Append(s, x)[Len(s) + 1] = x
      /\ DOMAIN Append(s, x) = DOMAIN s \cup {Len(s) + 1}
      /\ Len(s) + 1 \notin DOMAIN s
  <2>1. /\ DOMAIN s = 1 .. Len(s) /\ Len(s) \in Nat
        /\ DOMAIN Append(s, x) = 1 .. Len(s) + 1
    BY LenProperties, AppendProperties
  <2>2. QED
    BY <2>1, Appended
<1>2. IsFiniteSet(InFlight(s, e)) /\ Cardinality(InFlight(s, e)) \in Nat
  BY InFlightFinite
<1>3. CASE x = e
  <2>1. InFlight(Append(s, x), e) = InFlight(s, e) \cup {Len(s) + 1}
    BY <1>1, <1>3 DEF InFlight
  <2>2. Len(s) + 1 \notin InFlight(s, e)
    BY <1>1 DEF InFlight
  <2>3. QED
    BY <1>2, <1>3, <2>1, <2>2, FS_AddElement
<1>4. CASE x # e
  <2>1. InFlight(Append(s, x), e) = InFlight(s, e)
    BY <1>1, <1>4 DEF InFlight
  <2>2. QED
    BY <1>2, <1>4, <2>1
<1>5. QED
  BY <1>3, <1>4

LEMMA InFlightTail ==
  ASSUME NEW S, NEW s \in Seq(S), s # <<>>, NEW e
  PROVE  Cardinality(InFlight(Tail(s), e)) + (IF Head(s) = e THEN 1 ELSE 0)
           <= Cardinality(InFlight(s, e))
<1>1. /\ Tail(s) \in Seq(S) /\ s[1] = Head(s)
      /\ \A i \in DOMAIN Tail(s) : i + 1 \in DOMAIN s /\ Tail(s)[i] = s[i + 1]
      /\ DOMAIN Tail(s) \subseteq Nat \ {0} /\ 1 \in DOMAIN s
  <2>1. /\ Tail(s) \in Seq(S) /\ s[1] = Head(s)
        /\ \A i \in DOMAIN Tail(s) : i + 1 \in DOMAIN s /\ Tail(s)[i] = s[i + 1]
    BY Taken
  <2>2. DOMAIN Tail(s) = 1 .. Len(Tail(s)) /\ DOMAIN s = 1 .. Len(s) /\ Len(s) \in Nat
    BY <2>1, LenProperties
  <2>3. Len(s) # 0
    BY EmptySeq, LenProperties
  <2>4. QED
    BY <2>1, <2>2, <2>3
<1>2. /\ IsFiniteSet(InFlight(s, e)) /\ Cardinality(InFlight(s, e)) \in Nat
      /\ Cardinality(InFlight(Tail(s), e)) \in Nat
  BY <1>1, InFlightFinite
<1> DEFINE rest == InFlight(s, e) \ {1}
           shift == [i \in InFlight(Tail(s), e) |-> i + 1]
<1>3. IsFiniteSet(rest)
  BY <1>2, FS_Subset
<1>4. shift \in Injection(InFlight(Tail(s), e), rest)
  <2>1. \A i \in InFlight(Tail(s), e) : i \in Nat \ {0} /\ i + 1 \in rest
    BY <1>1 DEF InFlight
  <2>2. shift \in [InFlight(Tail(s), e) -> rest]
    BY <2>1
  <2>3. \A i, j \in InFlight(Tail(s), e) : shift[i] = shift[j] => i = j
    BY <2>1
  <2> HIDE DEF rest, shift
  <2>4. QED
    BY <2>2, <2>3 DEF Injection, IsInjective
<1> HIDE DEF shift
<1>5. Cardinality(InFlight(Tail(s), e)) <= Cardinality(rest)
  <2> HIDE DEF rest
  <2>1. QED
    BY <1>3, <1>4, FS_Injection
<1>6. CASE Head(s) = e
  <2>1. 1 \in InFlight(s, e)
    BY <1>1, <1>6 DEF InFlight
  <2>2. Cardinality(rest) = Cardinality(InFlight(s, e)) - 1
    BY <1>2, <2>1, FS_RemoveElement
  <2>3. QED
    BY <1>2, <1>5, <1>6, <2>2
<1>7. CASE Head(s) # e
  <2>1. 1 \notin InFlight(s, e)
    BY <1>1, <1>7 DEF InFlight
  <2>2. rest = InFlight(s, e)
    BY <2>1
  <2>3. QED
    BY <1>2, <1>5, <1>7, <2>2
<1>8. QED
  BY <1>6, <1>7

LEMMA SentIsNat ==
  ASSUME TypeOK, NEW e \in Events
  PROVE  /\ Sent(e) \in Nat /\ Sent(e) = copies[e] + Cardinality(InFlight(socket, e))
         /\ copies[e] \in Nat /\ copies[e] <= Sent(e)
         /\ Cardinality(InFlight(socket, e)) \in Nat
<1>1. /\ copies[e] \in Nat /\ Cardinality(InFlight(socket, e)) \in Nat
  <2>1. socket \in Seq(Events) /\ copies[e] \in Nat
    BY DEF TypeOK
  <2>2. QED
    BY <2>1, InFlightFinite
<1>2. Sent(e) = copies[e] + Cardinality(InFlight(socket, e))
  BY DEF Sent, InFlight
<1>3. QED
  BY <1>1, <1>2

\* One frame that moves: the jobs that hold a row sent, or yet to be sent.
LEMMA HoldersMove ==
  ASSUME TypeOK, NEW r \in Relays, NEW e,
         \A q \in Relays : q # r => relay'[q] = relay[q]
  PROVE  /\ IsFiniteSet(Sending(relay, e)) /\ Cardinality(Sending(relay, e)) \in Nat
         /\ Cardinality(Sending(relay', e)) \in Nat
         /\ Cardinality(ToSend(relay, e)) \in Nat /\ Cardinality(ToSend(relay', e)) \in Nat
         /\ Cardinality(Sending(relay, e)) <= Cardinality(Sending(relay', e)) + 1
         /\ r \notin Sending(relay, e) =>
              Cardinality(Sending(relay, e)) <= Cardinality(Sending(relay', e))
         /\ r \notin Sending(relay, e) /\ r \in Sending(relay', e) =>
              Cardinality(Sending(relay, e)) + 1 <= Cardinality(Sending(relay', e))
         /\ r \notin ToSend(relay', e) =>
              Cardinality(ToSend(relay', e)) <= Cardinality(ToSend(relay, e))
         /\ r \in ToSend(relay, e) =>
              Cardinality(ToSend(relay', e)) <= Cardinality(ToSend(relay, e))
         /\ r \in ToSend(relay, e) /\ r \notin ToSend(relay', e) =>
              Cardinality(ToSend(relay', e)) + 1 <= Cardinality(ToSend(relay, e))
<1> DEFINE A == Sending(relay, e)
           B == Sending(relay', e)
           C == ToSend(relay, e)
           D == ToSend(relay', e)
<1>1. IsFiniteSet(B) /\ IsFiniteSet(C)
  BY RelayBounds, FS_Subset DEF Sending, ToSend
<1>2. A \subseteq B \cup {r} /\ (r \notin A => A \subseteq B)
  BY DEF Sending
<1>3. D \subseteq C \cup {r} /\ (r \notin D => D \subseteq C) /\ (r \in C => D \subseteq C)
  BY DEF ToSend
<1> HIDE DEF A, B, C, D
<1>4. /\ Cardinality(B) \in Nat /\ IsFiniteSet(A) /\ Cardinality(A) \in Nat
      /\ Cardinality(A) <= Cardinality(B) + 1
      /\ A \subseteq B => Cardinality(A) <= Cardinality(B)
      /\ r \in B /\ r \notin A => Cardinality(A) + 1 <= Cardinality(B)
  BY <1>1, <1>2, CountMoves
<1>5. /\ Cardinality(C) \in Nat /\ IsFiniteSet(D) /\ Cardinality(D) \in Nat
      /\ D \subseteq C => Cardinality(D) <= Cardinality(C)
      /\ r \in C /\ r \notin D => Cardinality(D) + 1 <= Cardinality(C)
  BY <1>1, <1>3, CountMoves
<1>6. QED
  BY <1>2, <1>3, <1>4, <1>5 DEF A, B, C, D

\* No row is in the outbox twice, and no job holds a row twice.
LEMMA DistinctTail ==
  ASSUME NEW S, NEW s \in Seq(S), s # <<>>, Distinct(s)
  PROVE  /\ Distinct(Tail(s))
         /\ \A i \in DOMAIN Tail(s) : Tail(s)[i] # Head(s)
<1>1. /\ s[1] = Head(s)
      /\ \A i \in DOMAIN Tail(s) : i + 1 \in DOMAIN s /\ Tail(s)[i] = s[i + 1]
      /\ DOMAIN Tail(s) \subseteq Nat \ {0} /\ 1 \in DOMAIN s
  <2>1. /\ Tail(s) \in Seq(S) /\ s[1] = Head(s)
        /\ \A i \in DOMAIN Tail(s) : i + 1 \in DOMAIN s /\ Tail(s)[i] = s[i + 1]
    BY Taken
  <2>2. DOMAIN Tail(s) = 1 .. Len(Tail(s)) /\ DOMAIN s = 1 .. Len(s) /\ Len(s) \in Nat
    BY <2>1, LenProperties
  <2>3. Len(s) # 0
    BY EmptySeq, LenProperties
  <2>4. QED
    BY <2>1, <2>2, <2>3
<1>2. \A i \in DOMAIN Tail(s) : i + 1 # 1 /\ \A j \in DOMAIN Tail(s) : i + 1 = j + 1 => i = j
  BY <1>1
<1>3. QED
  BY <1>1, <1>2 DEF Distinct

LEMMA DistinctBatch ==
  ASSUME TypeOK, RowsDistinct, NEW n \in Nat, NEW rows \in [1 .. n -> Unprocessed], IsBatch(rows)
  PROVE  /\ Distinct([i \in 1 .. n |-> outbox[rows[i]]])
         /\ \A i \in 1 .. n : outbox[rows[i]] \notin processed
<1>1. \A i \in 1 .. n : rows[i] \in DOMAIN outbox /\ rows[i] \in Nat /\ outbox[rows[i]] \notin processed
  <2>1. DOMAIN outbox = 1 .. Len(outbox)
    BY LenProperties DEF TypeOK
  <2>2. QED
    BY <2>1 DEF Unprocessed
<1>2. \A i, j \in 1 .. n : i < j => rows[i] < rows[j]
  BY DEF IsBatch
<1>3. \A i, j \in 1 .. n : i # j => rows[i] # rows[j]
  BY <1>1, <1>2
<1>4. \A i, j \in 1 .. n : outbox[rows[i]] = outbox[rows[j]] => i = j
  BY <1>1, <1>3 DEF RowsDistinct, Distinct
<1>5. QED
  BY <1>1, <1>4 DEF Distinct

LEMMA DistinctStep == TypeOK /\ RowsDistinct /\ [Next]_vars => RowsDistinct'
<1> SUFFICES ASSUME TypeOK, RowsDistinct, [Next]_vars PROVE RowsDistinct'
  OBVIOUS
<1>1. CASE UNCHANGED <<outbox, relay>>
  BY <1>1 DEF RowsDistinct, Distinct
<1>2. ASSUME NEW e \in Events, Emit(e)
      PROVE  RowsDistinct'
  <2>1. outbox \in Seq(Events) /\ \A i \in DOMAIN outbox : outbox[i] # e
    BY <1>2 DEF Emit, Written, TypeOK
  <2>2. /\ \A i \in DOMAIN outbox : outbox'[i] = outbox[i]
        /\ outbox'[Len(outbox) + 1] = e
        /\ DOMAIN outbox' = DOMAIN outbox \cup {Len(outbox) + 1}
    <3>1. /\ DOMAIN outbox = 1 .. Len(outbox) /\ Len(outbox) \in Nat
          /\ DOMAIN Append(outbox, e) = 1 .. Len(outbox) + 1
      BY <2>1, LenProperties, AppendProperties
    <3>2. QED
      BY <1>2, <2>1, <3>1, Appended DEF Emit
  <2>3. Distinct(outbox')
    BY <2>1, <2>2 DEF RowsDistinct, Distinct
  <2>4. QED
    BY <1>2, <2>3 DEF Emit, RowsDistinct, Distinct
<1>3. ASSUME NEW r \in Relays, Relay(r) \/ RelayFails(r)
      PROVE  RowsDistinct'
  <2>1. outbox' = outbox /\ \A q \in Relays : q # r => relay'[q] = relay[q]
    BY <1>3 DEF Relay, BeginRelay, publishDomainEvent, MarkProcessed, RelayFails, TypeOK
  <2>2. Distinct(relay'[r].todo)
    <3>1. CASE BeginRelay(r)
      <4>1. PICK n \in 1 .. OUTBOX_BATCH : \E rows \in [1 .. n -> Unprocessed] :
              /\ IsBatch(rows)
              /\ relay' = [relay EXCEPT ![r] = [todo |-> [i \in 1 .. n |-> outbox[rows[i]]],
                                                published |-> FALSE]]
        BY <3>1 DEF BeginRelay
      <4>2. PICK rows \in [1 .. n -> Unprocessed] :
              /\ IsBatch(rows)
              /\ relay' = [relay EXCEPT ![r] = [todo |-> [i \in 1 .. n |-> outbox[rows[i]]],
                                                published |-> FALSE]]
        BY <4>1
      <4>3. n \in Nat
        OBVIOUS
      <4>4. relay'[r].todo = [i \in 1 .. n |-> outbox[rows[i]]]
        BY <4>2 DEF TypeOK
      <4>5. Distinct([i \in 1 .. n |-> outbox[rows[i]]])
        BY <4>2, <4>3, DistinctBatch
      <4>6. QED
        BY <4>4, <4>5
    <3>2. CASE publishDomainEvent(r)
      BY <3>2 DEF publishDomainEvent, RowsDistinct, TypeOK
    <3>3. CASE MarkProcessed(r)
      <4>1. relay[r].todo \in Seq(Events) /\ relay[r].todo # <<>> /\ Distinct(relay[r].todo)
        BY <3>3 DEF MarkProcessed, TypeOK, RowsDistinct
      <4>2. relay'[r].todo = Tail(relay[r].todo)
        BY <3>3 DEF MarkProcessed, TypeOK
      <4>3. QED
        BY <4>1, <4>2, DistinctTail
    <3>4. CASE RelayFails(r)
      BY <3>4 DEF RelayFails, Idle, Distinct, TypeOK
    <3>5. QED
      BY <1>3, <3>1, <3>2, <3>3, <3>4 DEF Relay
  <2>3. QED
    BY <2>1, <2>2 DEF RowsDistinct, Distinct
<1>4. CASE Crash
  <2>1. outbox' = outbox /\ \A q \in Relays : relay'[q].todo = <<>>
    BY <1>4 DEF Crash, Idle
  <2>2. QED
    BY <2>1 DEF RowsDistinct, Distinct
<1>5. QED
  BY <1>1, <1>2, <1>3, <1>4 DEF Next, vars, jobs, Receive, BrokerDown, BrokerUp, ChannelClosed

\* What an event may still cost, when no step cuts a job or sends it.
LEMMA CutsAreNat ==
  ASSUME TypeOK
  PROVE  /\ Cardinality(Relays) \in Nat /\ Cuts \in Nat
         /\ Cardinality(Relays) * (1 + crashes) + failures = Cuts + Cardinality(Relays)
         /\ UNCHANGED faults => Cuts' = Cuts
         /\ failures' = failures + 1 /\ crashes' = crashes => Cuts' = Cuts + 1
         /\ failures' = failures /\ crashes' = crashes + 1 => Cuts' = Cuts + Cardinality(Relays)
<1> DEFINE n == Cardinality(Relays)
<1>1. n \in Nat /\ crashes \in Nat /\ failures \in Nat
  BY RelayBounds, FS_CardinalityType DEF TypeOK
<1>2. Cuts = n * crashes + failures /\ Cuts' = n * crashes' + failures'
  BY DEF Cuts
<1> HIDE DEF n
<1>3. n * crashes \in Nat /\ n * (crashes + 1) = n * crashes + n /\ n * (1 + crashes) = n * crashes + n
  BY <1>1
<1>4. Cuts \in Nat /\ n * (1 + crashes) + failures = Cuts + n
  BY <1>1, <1>2, <1>3
<1>5. /\ UNCHANGED faults => Cuts' = Cuts
      /\ failures' = failures + 1 /\ crashes' = crashes => Cuts' = Cuts + 1
      /\ failures' = failures /\ crashes' = crashes + 1 => Cuts' = Cuts + n
  <2>1. UNCHANGED faults => Cuts' = Cuts
    BY <1>2 DEF faults
  <2>2. failures' = failures + 1 /\ crashes' = crashes => Cuts' = Cuts + 1
    BY <1>1, <1>2, <1>3
  <2>3. failures' = failures /\ crashes' = crashes + 1 => Cuts' = Cuts + n
    <3>1. SUFFICES ASSUME failures' = failures, crashes' = crashes + 1
                   PROVE  Cuts' = Cuts + n
      OBVIOUS
    <3>2. Cuts' = n * (crashes + 1) + failures
      BY <1>2, <3>1
    <3>3. QED
      BY <1>1, <1>2, <1>3, <3>2
  <2>4. QED
    BY <2>1, <2>2, <2>3
<1>6. QED
  BY <1>1, <1>4, <1>5 DEF n

\* The bound of one event.
Bounded(e) ==
  /\ e \notin processed => Sent(e) <= Cuts + Cardinality(Sending(relay, e))
  /\ e \in processed => Sent(e) + Cardinality(ToSend(relay, e)) <= Cuts + Cardinality(Relays)

LEMMA HoldersCounted ==
  ASSUME NEW e
  PROVE  /\ Cardinality(Sending(relay, e)) \in Nat
         /\ Cardinality(ToSend(relay, e)) \in Nat
         /\ Cardinality(Sending(relay, e)) + Cardinality(ToSend(relay, e)) <= Cardinality(Relays)
<1> DEFINE A == Sending(relay, e)
           B == ToSend(relay, e)
<1>1. /\ IsFiniteSet(A) /\ IsFiniteSet(B) /\ A \cap B = {} /\ A \cup B \subseteq Relays
  BY RelayBounds, FS_Subset DEF Sending, ToSend
<1> HIDE DEF A, B
<1>2. Cardinality(A) \in Nat /\ Cardinality(B) \in Nat /\ Cardinality(Relays) \in Nat
  BY <1>1, FS_CardinalityType, RelayBounds
<1>3. Cardinality(A \cup B) = Cardinality(A) + Cardinality(B) - Cardinality(A \cap B)
  BY <1>1, FS_Union
<1>4. Cardinality(A \cap B) = 0
  BY <1>1, FS_EmptySet
<1>5. Cardinality(A \cup B) <= Cardinality(Relays)
  BY <1>1, FS_Subset, RelayBounds
<1>6. QED
  BY <1>2, <1>3, <1>4, <1>5 DEF A, B

\* A row that is marked: no job holds it as sent, or reads it, once more.
LEMMA BoundedEither ==
  ASSUME TypeOK, NEW e \in Events, Bounded(e)
  PROVE  Sent(e) + Cardinality(ToSend(relay, e)) <= Cuts + Cardinality(Relays)
<1>1. CASE e \in processed
  BY <1>1 DEF Bounded
<1>2. CASE e \notin processed
  <2>1. /\ Sent(e) \in Nat /\ Cuts \in Nat /\ Cardinality(Relays) \in Nat
        /\ Cardinality(Sending(relay, e)) \in Nat /\ Cardinality(ToSend(relay, e)) \in Nat
    BY SentIsNat, CutsAreNat, HoldersCounted
  <2>2. Cardinality(Sending(relay, e)) + Cardinality(ToSend(relay, e)) <= Cardinality(Relays)
    BY HoldersCounted
  <2>3. Sent(e) <= Cuts + Cardinality(Sending(relay, e))
    BY <1>2 DEF Bounded
  <2>4. QED
    BY <2>1, <2>2, <2>3
<1>3. QED
  BY <1>1, <1>2

LEMMA CopiesStep == TypeOK /\ RowsDistinct /\ CopiesInv /\ [Next]_vars => CopiesInv'
<1> SUFFICES ASSUME TypeOK, RowsDistinct, CopiesInv, [Next]_vars, NEW e \in Events
             PROVE  /\ e \notin processed' => Sent(e)' <= Cuts' + Cardinality(Sending(relay', e))
                    /\ e \in processed' =>
                         Sent(e)' + Cardinality(ToSend(relay', e)) <= Cuts' + Cardinality(Relays)
  BY DEF CopiesInv, Sent, Sending, ToSend
<1> DEFINE Goal ==
      /\ e \notin processed' => Sent(e)' <= Cuts' + Cardinality(Sending(relay', e))
      /\ e \in processed' =>
           Sent(e)' + Cardinality(ToSend(relay', e)) <= Cuts' + Cardinality(Relays)
<1>1. /\ Bounded(e) /\ TypeOK'
      /\ Sent(e) \in Nat /\ Cuts \in Nat /\ Cardinality(Relays) \in Nat
      /\ Cardinality(Sending(relay, e)) \in Nat /\ Cardinality(ToSend(relay, e)) \in Nat
  BY RelayTypeStep, SentIsNat, CutsAreNat, HoldersCounted DEF CopiesInv, Bounded
<1>2. Sent(e)' = copies'[e] + Cardinality(InFlight(socket', e)) /\ Sent(e)' \in Nat
  <2>1. socket' \in Seq(Events) /\ copies'[e] \in Nat
    BY <1>1 DEF TypeOK
  <2>2. Cardinality(InFlight(socket', e)) \in Nat
    BY <2>1, InFlightFinite
  <2>3. Sent(e)' = copies'[e] + Cardinality(InFlight(socket', e))
    BY DEF Sent, InFlight
  <2>4. QED
    BY <2>1, <2>2, <2>3
<1>3. copies' = copies /\ socket' = socket => Sent(e)' = Sent(e)
  BY DEF Sent
<1>4. ASSUME UNCHANGED <<processed, relay, faults>>, Sent(e)' <= Sent(e)
      PROVE  Goal
  <2>1. Cuts' = Cuts
    BY <1>4, CutsAreNat
  <2>2. /\ Sending(relay', e) = Sending(relay, e) /\ ToSend(relay', e) = ToSend(relay, e)
        /\ processed' = processed
    BY <1>4
  <2>3. QED
    BY <1>1, <1>2, <1>4, <2>1, <2>2 DEF Bounded
<1>5. CASE \E x \in Events : Emit(x)
  <2>1. UNCHANGED <<processed, relay, faults>> /\ UNCHANGED <<copies, socket>>
    BY <1>5 DEF Emit
  <2>2. QED
    BY <1>1, <1>3, <1>4, <2>1
<1>6. ASSUME NEW r \in Relays, BeginRelay(r)
      PROVE  Goal
  <2>1. PICK n \in 1 .. OUTBOX_BATCH : \E rows \in [1 .. n -> Unprocessed] :
          /\ IsBatch(rows)
          /\ relay' = [relay EXCEPT ![r] = [todo |-> [i \in 1 .. n |-> outbox[rows[i]]],
                                            published |-> FALSE]]
    BY <1>6 DEF BeginRelay
  <2>2. PICK rows \in [1 .. n -> Unprocessed] :
          /\ IsBatch(rows)
          /\ relay' = [relay EXCEPT ![r] = [todo |-> [i \in 1 .. n |-> outbox[rows[i]]],
                                            published |-> FALSE]]
    BY <2>1
  <2>3. \A i \in 1 .. n : outbox[rows[i]] \notin processed
    <3>1. n \in Nat
      OBVIOUS
    <3>2. QED
      BY <2>2, <3>1, DistinctBatch
  <2>4. /\ relay'[r].todo = [i \in 1 .. n |-> outbox[rows[i]]] /\ ~relay'[r].published
        /\ \A q \in Relays : q # r => relay'[q] = relay[q]
        /\ ~relay[r].published
    BY <1>6, <2>2 DEF BeginRelay, Idle, TypeOK
  <2>5. /\ processed' = processed /\ Cuts' = Cuts /\ Sent(e)' = Sent(e)
    BY <1>3, <1>6, CutsAreNat DEF BeginRelay
  <2>6. r \notin Sending(relay, e)
    BY <2>4 DEF Sending
  <2>7. e \in processed => r \notin ToSend(relay', e)
    BY <2>3, <2>4 DEF ToSend
  <2>8. /\ Cardinality(Sending(relay, e)) <= Cardinality(Sending(relay', e))
        /\ Cardinality(Sending(relay', e)) \in Nat /\ Cardinality(ToSend(relay', e)) \in Nat
        /\ e \in processed => Cardinality(ToSend(relay', e)) <= Cardinality(ToSend(relay, e))
    BY <2>4, <2>6, <2>7, HoldersMove
  <2>9. CASE e \in processed
    BY <1>1, <2>5, <2>8, <2>9 DEF Bounded
  <2>10. CASE e \notin processed
    BY <1>1, <2>5, <2>8, <2>10 DEF Bounded
  <2>11. QED
    BY <2>9, <2>10
<1>7. ASSUME NEW r \in Relays, publishDomainEvent(r)
      PROVE  Goal
  <2>0. PICK x \in Events : x = Head(relay[r].todo)
    <3>1. relay[r].todo \in Seq(Events) /\ relay[r].todo # <<>>
      BY <1>7 DEF publishDomainEvent, TypeOK
    <3>2. QED
      BY <3>1, Taken
  <2>1. /\ relay'[r].todo = relay[r].todo /\ relay'[r].published /\ ~relay[r].published
        /\ \A q \in Relays : q # r => relay'[q] = relay[q]
        /\ processed' = processed /\ copies' = copies
        /\ socket' = Append(socket, x) \/ socket' = socket
    BY <1>7, <2>0 DEF publishDomainEvent, TypeOK
  <2>2. Cuts' = Cuts
    BY <1>7, CutsAreNat DEF publishDomainEvent
  <2>3. /\ x = e => Sent(e)' <= Sent(e) + 1
        /\ x # e => Sent(e)' <= Sent(e)
    <3>1. CASE socket' = socket
      BY <1>1, <1>3, <2>1, <3>1
    <3>2. CASE socket' = Append(socket, x)
      <4>1. socket \in Seq(Events)
        BY DEF TypeOK
      <4>2. Cardinality(InFlight(socket', e))
              = Cardinality(InFlight(socket, e)) + (IF x = e THEN 1 ELSE 0)
        BY <3>2, <4>1, InFlightAppend
      <4>3. /\ Sent(e) = copies[e] + Cardinality(InFlight(socket, e))
            /\ copies[e] \in Nat /\ Cardinality(InFlight(socket, e)) \in Nat
        BY SentIsNat
      <4>4. QED
        BY <1>2, <2>1, <4>2, <4>3
    <3>3. QED
      BY <2>1, <3>1, <3>2
  <2>4. /\ r \notin Sending(relay, e)
        /\ x = e => r \in Sending(relay', e) /\ r \notin ToSend(relay', e)
    BY <2>0, <2>1 DEF Sending, ToSend
  <2>5. r \in ToSend(relay', e) => r \in ToSend(relay, e)
    BY <2>1 DEF ToSend
  <2>6. x = e => r \in ToSend(relay, e)
    <3>1. relay[r].todo \in Seq(Events) /\ relay[r].todo # <<>>
      BY <1>7 DEF publishDomainEvent, TypeOK
    <3>2. 1 \in DOMAIN relay[r].todo /\ relay[r].todo[1] = x
      BY <2>0, <3>1, Taken, EmptySeq, LenProperties
    <3>3. QED
      BY <2>1, <3>2 DEF ToSend
  <2>7. /\ Cardinality(Sending(relay', e)) \in Nat /\ Cardinality(ToSend(relay', e)) \in Nat
        /\ Cardinality(Sending(relay, e)) <= Cardinality(Sending(relay', e))
        /\ x = e => Cardinality(Sending(relay, e)) + 1 <= Cardinality(Sending(relay', e))
        /\ Cardinality(ToSend(relay', e)) <= Cardinality(ToSend(relay, e))
        /\ x = e => Cardinality(ToSend(relay', e)) + 1 <= Cardinality(ToSend(relay, e))
    BY <2>1, <2>4, <2>5, <2>6, HoldersMove
  <2>8. CASE e \in processed
    <3>1. Sent(e) + Cardinality(ToSend(relay, e)) <= Cuts + Cardinality(Relays)
      BY <1>1, <2>8 DEF Bounded
    <3>2. QED
      BY <1>1, <1>2, <2>1, <2>2, <2>3, <2>7, <2>8, <3>1
  <2>9. CASE e \notin processed
    <3>1. Sent(e) <= Cuts + Cardinality(Sending(relay, e))
      BY <1>1, <2>9 DEF Bounded
    <3>2. QED
      BY <1>1, <1>2, <2>1, <2>2, <2>3, <2>7, <2>9, <3>1
  <2>10. QED
    BY <2>8, <2>9
<1>8. ASSUME NEW r \in Relays, MarkProcessed(r)
      PROVE  Goal
  <2>0. /\ relay[r].todo \in Seq(Events) /\ relay[r].todo # <<>> /\ Distinct(relay[r].todo)
        /\ relay[r].published
    BY <1>8 DEF MarkProcessed, TypeOK, RowsDistinct
  <2>1. /\ relay'[r].todo = Tail(relay[r].todo) /\ ~relay'[r].published
        /\ \A q \in Relays : q # r => relay'[q] = relay[q]
        /\ processed' = processed \cup {Head(relay[r].todo)}
    BY <1>8 DEF MarkProcessed, TypeOK
  <2>2. Cuts' = Cuts /\ Sent(e)' = Sent(e)
    BY <1>3, <1>8, CutsAreNat DEF MarkProcessed
  <2>3. r \in ToSend(relay', e) => r \in ToSend(relay, e)
    <3>1. SUFFICES ASSUME NEW i \in DOMAIN Tail(relay[r].todo), Tail(relay[r].todo)[i] = e
                   PROVE  r \in ToSend(relay, e)
      BY <2>1 DEF ToSend
    <3>2. e # Head(relay[r].todo) /\ i + 1 \in DOMAIN relay[r].todo /\ relay[r].todo[i + 1] = e
      BY <2>0, <3>1, Taken, DistinctTail
    <3>3. QED
      BY <3>2 DEF ToSend
  <2>4. /\ Cardinality(Sending(relay', e)) \in Nat /\ Cardinality(ToSend(relay', e)) \in Nat
        /\ r \notin Sending(relay, e) =>
             Cardinality(Sending(relay, e)) <= Cardinality(Sending(relay', e))
        /\ Cardinality(ToSend(relay', e)) <= Cardinality(ToSend(relay, e))
    BY <2>1, <2>3, HoldersMove
  <2>5. CASE e \in processed'
    <3>1. Sent(e) + Cardinality(ToSend(relay, e)) <= Cuts + Cardinality(Relays)
      BY <1>1, BoundedEither
    <3>2. QED
      BY <1>1, <2>2, <2>4, <2>5, <3>1
  <2>6. CASE e \notin processed'
    <3>1. e \notin processed /\ r \notin Sending(relay, e)
      BY <2>1, <2>6 DEF Sending
    <3>2. Sent(e) <= Cuts + Cardinality(Sending(relay, e))
      BY <1>1, <3>1 DEF Bounded
    <3>3. QED
      BY <1>1, <2>2, <2>4, <2>6, <3>1, <3>2
  <2>7. QED
    BY <2>5, <2>6
<1>9. ASSUME NEW r \in Relays, RelayFails(r)
      PROVE  Goal
  <2>1. /\ relay'[r] = Idle
        /\ \A q \in Relays : q # r => relay'[q] = relay[q]
        /\ processed' = processed
    BY <1>9 DEF RelayFails, TypeOK
  <2>2. Cuts' = Cuts + 1 /\ Sent(e)' = Sent(e)
    BY <1>3, <1>9, CutsAreNat DEF RelayFails
  <2>3. r \notin ToSend(relay', e)
    BY <2>1 DEF ToSend, Idle
  <2>4. /\ Cardinality(Sending(relay', e)) \in Nat /\ Cardinality(ToSend(relay', e)) \in Nat
        /\ Cardinality(Sending(relay, e)) <= Cardinality(Sending(relay', e)) + 1
        /\ Cardinality(ToSend(relay', e)) <= Cardinality(ToSend(relay, e))
    BY <2>1, <2>3, HoldersMove
  <2>5. CASE e \in processed
    BY <1>1, <2>1, <2>2, <2>4, <2>5 DEF Bounded
  <2>6. CASE e \notin processed
    BY <1>1, <2>1, <2>2, <2>4, <2>6 DEF Bounded
  <2>7. QED
    BY <2>5, <2>6
<1>10. CASE Receive
  <2>1. /\ UNCHANGED <<processed, relay, faults>> /\ socket \in Seq(Events) /\ socket # <<>>
        /\ socket' = Tail(socket) /\ copies' = [copies EXCEPT ![Head(socket)] = @ + 1]
        /\ copies \in [Events -> Nat]
    BY <1>10 DEF Receive, jobs, TypeOK
  <2>2. Cardinality(InFlight(socket', e)) + (IF Head(socket) = e THEN 1 ELSE 0)
          <= Cardinality(InFlight(socket, e))
    BY <2>1, InFlightTail
  <2>3. copies'[e] = copies[e] + (IF Head(socket) = e THEN 1 ELSE 0)
    BY <2>1
  <2>4. /\ Sent(e) = copies[e] + Cardinality(InFlight(socket, e))
        /\ copies[e] \in Nat /\ Cardinality(InFlight(socket, e)) \in Nat
        /\ Cardinality(InFlight(socket', e)) \in Nat
    <3>1. socket' \in Seq(Events)
      BY <1>1 DEF TypeOK
    <3>2. QED
      BY <3>1, SentIsNat, InFlightFinite
  <2>5. Sent(e)' <= Sent(e)
    BY <1>2, <2>2, <2>3, <2>4
  <2>6. QED
    BY <1>4, <2>1, <2>5
<1>11. CASE BrokerDown \/ Crash
  <2>1. copies' = copies /\ socket' = <<>> /\ processed' = processed
    BY <1>11 DEF BrokerDown, Crash, jobs
  <2>2. Sent(e)' <= Sent(e)
    <3>1. InFlight(<<>>, e) = {}
      BY EmptySeq DEF InFlight
    <3>2. Cardinality(InFlight(socket', e)) = 0
      BY <2>1, <3>1, FS_EmptySet
    <3>3. Sent(e)' = copies'[e] + Cardinality(InFlight(socket', e))
      BY <1>2
    <3>4. Sent(e) = copies[e] + Cardinality(InFlight(socket, e))
          /\ copies[e] \in Nat /\ Cardinality(InFlight(socket, e)) \in Nat
      BY SentIsNat
    <3>5. QED
      BY <2>1, <3>2, <3>3, <3>4
  <2>3. CASE BrokerDown
    <3>1. Cuts' = Cuts /\ relay' = relay
      BY <2>3 DEF BrokerDown, jobs, Cuts
    <3>2. QED
      BY <1>1, <1>2, <2>1, <2>2, <3>1 DEF Bounded
  <2>4. CASE Crash
    <3>1. Cuts' = Cuts + Cardinality(Relays) /\ \A q \in Relays : relay'[q] = Idle
      BY <2>4, CutsAreNat DEF Crash
    <3>2. Sending(relay', e) = {} /\ ToSend(relay', e) = {}
      BY <3>1 DEF Sending, ToSend, Idle
    <3>3. Cardinality(Sending(relay', e)) = 0 /\ Cardinality(ToSend(relay', e)) = 0
      BY <3>2, FS_EmptySet
    <3>4. /\ Sent(e) + Cardinality(ToSend(relay, e)) <= Cuts + Cardinality(Relays)
      BY <1>1, BoundedEither
    <3>5. QED
      BY <1>1, <1>2, <2>1, <2>2, <3>1, <3>3, <3>4
  <2>5. QED
    BY <1>11, <2>3, <2>4
<1>12. CASE BrokerUp \/ ChannelClosed \/ UNCHANGED vars
  <2>1. UNCHANGED <<processed, relay, faults>> /\ UNCHANGED <<copies, socket>>
    BY <1>12 DEF BrokerUp, ChannelClosed, vars, jobs, faults
  <2>2. QED
    BY <1>1, <1>3, <1>4, <2>1
<1>13. QED
  BY <1>5, <1>6, <1>7, <1>8, <1>9, <1>10, <1>11, <1>12 DEF Next, Relay

LEMMA CopiesInit == Init => RowsDistinct /\ CopiesInv
<1> SUFFICES ASSUME Init PROVE RowsDistinct /\ CopiesInv
  OBVIOUS
<1>1. TypeOK
  BY RelayTypeInit
<1>2. RowsDistinct
  BY DEF Init, Idle, RowsDistinct, Distinct
<1>3. ASSUME NEW e \in Events PROVE Sent(e) <= Cuts + Cardinality(Sending(relay, e))
  <2>1. InFlight(socket, e) = {} /\ copies[e] = 0
    BY EmptySeq DEF InFlight, Init
  <2>2. Sent(e) = 0
    <3>1. Cardinality(InFlight(socket, e)) = 0
      BY <2>1, FS_EmptySet
    <3>2. Sent(e) = copies[e] + Cardinality(InFlight(socket, e))
      BY <1>1, SentIsNat
    <3>3. QED
      BY <2>1, <3>1, <3>2
  <2>3. QED
    BY <1>1, <2>2, CutsAreNat, HoldersCounted
<1>4. processed = {}
  BY DEF Init
<1>5. QED
  BY <1>2, <1>3, <1>4 DEF CopiesInv

\* The relay repeats an event only as often as jobs overlap, fail or crash: every job sends a
\* row once, and no job reads a row that is marked.
THEOREM CopiesCorrect == Spec => []CopiesBounded
<1>1. TypeOK /\ CopiesInv => CopiesBounded
  <2> SUFFICES ASSUME TypeOK, CopiesInv, NEW e \in Events
               PROVE  Sent(e) <= Cardinality(Relays) * (1 + crashes) + failures
    BY DEF CopiesBounded
  <2>1. Sent(e) + Cardinality(ToSend(relay, e)) <= Cuts + Cardinality(Relays)
    BY BoundedEither DEF CopiesInv, Bounded
  <2>2. /\ Sent(e) \in Nat /\ Cardinality(ToSend(relay, e)) \in Nat
        /\ Cuts + Cardinality(Relays) = Cardinality(Relays) * (1 + crashes) + failures
        /\ Cuts \in Nat /\ Cardinality(Relays) \in Nat
    BY SentIsNat, HoldersCounted, CutsAreNat
  <2>3. QED
    BY <2>1, <2>2
<1>2. QED
  BY <1>1, CopiesInit, CopiesStep, DistinctStep, RelayTypeCorrect, PTL DEF Spec

-----------------------------------------------------------------------------
(* The AI engine's queue, for any events, prefetch and drops. *)

LEMMA RequeueTyped ==
  ASSUME AiTypeOK, Requeue
  PROVE  /\ aiEvent' \in [AiEvents -> {"none", "queued", "unacked", "acked", "rejected"}]
         /\ redelivered' \subseteq AiEvents
BY DEF AiTypeOK, Requeue, Unacked

LEMMA AiTypeStep ==
  ASSUME AiTypeOK, [AiNext]_aiVars
  PROVE  AiTypeOK'
<1> USE AiAssumption
<1>1. CASE UNCHANGED aiVars
  BY <1>1 DEF aiVars, AiTypeOK
<1>2. ASSUME NEW m \in AiEvents, Route(m) \/ Push(m) \/ consume(m) \/ SendAnswer(m)
      PROVE  AiTypeOK'
  BY <1>2 DEF Route, Push, consume, SendAnswer, AiTypeOK
<1>3. ASSUME NEW m \in AiEvents, Ends(m)
      PROVE  AiTypeOK'
  <2>1. CASE engine = "consuming"
    BY <1>3, <2>1 DEF Ends, Complete, Throws, AiTypeOK
  <2>2. CASE engine # "consuming"
    BY <1>3, <2>2, RequeueTyped DEF Ends, Complete, Throws, Exit, AiTypeOK
  <2>3. QED
    BY <2>1, <2>2
<1>4. CASE ConnectionLost \/ Killed
  BY <1>4, RequeueTyped DEF ConnectionLost, Killed, Exit, AiTypeOK
<1>5. CASE Reconnect \/ onApplicationBootstrap
  BY <1>5 DEF Reconnect, onApplicationBootstrap, AiTypeOK
<1>6. QED
  BY <1>1, <1>2, <1>3, <1>4, <1>5 DEF AiNext

LEMMA AiTypeInit == AiInit => AiTypeOK
BY DEF AiInit, AiTypeOK

\* Queue and handlers keep their types.
THEOREM AiTypeCorrect == AiSpec => []AiTypeOK
BY AiTypeInit, AiTypeStep, PTL DEF AiSpec

-----------------------------------------------------------------------------
(* A running handler holds its event; a channel that is gone holds none.   *)
(* Whoever delivers an event again has a drop or a failed run to show for  *)
(* it, and every run but two is paid for by a drop.                        *)

HandlerHolds ==
  \A m \in AiEvents : engine = "consuming" /\ handler[m] # "none" => aiEvent[m] = "unacked"

AwayHoldsNone ==
  engine # "consuming" => drops >= 1 /\ \A m \in AiEvents : aiEvent[m] # "unacked"

BootedAfresh == engine = "booting" => \A m \in AiEvents : handler[m] = "none"

TriesCounted == \A m \in AiEvents :
  /\ handler[m] # "none" => aiRuns[m] >= 1
  /\ m \in redelivered /\ drops = 0 =>
       aiRuns[m] >= 1 + (IF handler[m] = "none" THEN 0 ELSE 1)

Given(m) == IF m \in redelivered THEN 1 ELSE 0
Begun(m) == IF \/ aiEvent[m] \in {"acked", "rejected"}
               \/ aiEvent[m] = "unacked" /\ handler[m] # "none" THEN 1 ELSE 0
RunsPaid == \A m \in AiEvents : aiRuns[m] <= drops + Given(m) + Begun(m)

Channel == HandlerHolds /\ AwayHoldsNone /\ BootedAfresh

LEMMA ChannelStep ==
  ASSUME AiTypeOK, Channel, [AiNext]_aiVars
  PROVE  Channel'
<1> USE DEF Channel, HandlerHolds, AwayHoldsNone, BootedAfresh
<1>1. CASE UNCHANGED aiVars
  BY <1>1 DEF aiVars
<1>2. ASSUME NEW m \in AiEvents, Route(m) \/ Push(m) \/ consume(m) \/ SendAnswer(m)
      PROVE  Channel'
  BY <1>2 DEF Route, Push, consume, SendAnswer, AiTypeOK
<1>3. ASSUME NEW m \in AiEvents, Ends(m)
      PROVE  Channel'
  <2>1. CASE engine = "consuming"
    BY <1>3, <2>1 DEF Ends, Complete, Throws, AiTypeOK
  <2>2. CASE engine # "consuming"
    BY <1>3, <2>2 DEF Ends, Complete, Throws, Exit, Requeue, Unacked, AiTypeOK
  <2>3. QED
    BY <2>1, <2>2
<1>4. CASE ConnectionLost \/ Killed
  <2>1. drops' >= 1
    BY <1>4 DEF ConnectionLost, Killed, AiTypeOK
  <2>2. \A m \in AiEvents : aiEvent'[m] # "unacked"
    BY <1>4 DEF ConnectionLost, Killed, Exit, Requeue, Unacked, AiTypeOK
  <2>3. \/ engine' = "offline"
        \/ engine' = "booting" /\ \A m \in AiEvents : handler'[m] = "none"
    <3>1. CASE ConnectionLost
      BY <3>1 DEF ConnectionLost
    <3>2. CASE Killed
      BY <3>2 DEF Killed, Exit
    <3>3. QED
      BY <1>4, <3>1, <3>2
  <2>4. QED
    BY <2>1, <2>2, <2>3
<1>5. CASE Reconnect \/ onApplicationBootstrap
  BY <1>5 DEF Reconnect, onApplicationBootstrap, AiTypeOK
<1>6. QED
  BY <1>1, <1>2, <1>3, <1>4, <1>5 DEF AiNext

LEMMA TriesStep ==
  ASSUME AiTypeOK, Channel, TriesCounted, [AiNext]_aiVars
  PROVE  TriesCounted'
<1> USE DEF TriesCounted
<1>1. CASE UNCHANGED aiVars
  BY <1>1 DEF aiVars
<1>2. ASSUME NEW m \in AiEvents, Route(m) \/ Push(m)
      PROVE  TriesCounted'
  BY <1>2 DEF Route, Push, AiTypeOK
<1>3. ASSUME NEW m \in AiEvents, consume(m) \/ SendAnswer(m)
      PROVE  TriesCounted'
  BY <1>3 DEF consume, SendAnswer, AiTypeOK
<1>4. ASSUME NEW m \in AiEvents, Ends(m)
      PROVE  TriesCounted'
  <2>1. CASE engine = "consuming" /\ Complete(m)
    BY <2>1 DEF Complete, AiTypeOK
  <2>2. CASE engine = "consuming" /\ Throws(m)
    BY <2>2 DEF Throws, AiTypeOK
  <2>3. CASE engine # "consuming"
    <3>1. drops' >= 1 /\ \A n \in AiEvents : handler'[n] = "none"
      BY <1>4, <2>3 DEF Ends, Complete, Throws, Exit, Channel, AwayHoldsNone
    <3>2. QED
      BY <3>1
  <2>4. QED
    BY <1>4, <2>1, <2>2, <2>3 DEF Ends
<1>5. CASE ConnectionLost \/ Killed
  <2>1. drops' >= 1 /\ UNCHANGED aiRuns
    BY <1>5 DEF ConnectionLost, Killed, AiTypeOK
  <2>2. \A m \in AiEvents : handler'[m] = handler[m] \/ handler'[m] = "none"
    BY <1>5 DEF ConnectionLost, Killed, Exit
  <2>3. QED
    BY <2>1, <2>2
<1>6. CASE Reconnect \/ onApplicationBootstrap
  BY <1>6 DEF Reconnect, onApplicationBootstrap
<1>7. QED
  BY <1>1, <1>2, <1>3, <1>4, <1>5, <1>6 DEF AiNext

LEMMA SkippedStep ==
  ASSUME AiTypeOK, Channel, TriesCounted, NoEventSkipped, [AiNext]_aiVars
  PROVE  NoEventSkipped'
<1> USE DEF NoEventSkipped
<1>1. CASE UNCHANGED aiVars
  BY <1>1 DEF aiVars
<1>2. ASSUME NEW m \in AiEvents, Route(m) \/ Push(m) \/ consume(m) \/ SendAnswer(m)
      PROVE  NoEventSkipped'
  BY <1>2 DEF Route, Push, consume, SendAnswer, AiTypeOK
<1>3. ASSUME NEW m \in AiEvents, Ends(m)
      PROVE  NoEventSkipped'
  <2>1. CASE engine = "consuming" /\ Complete(m)
    BY <2>1 DEF Complete, AiTypeOK
  <2>2. CASE engine = "consuming" /\ Throws(m)
    <3>1. aiRuns[m] >= 1 /\ (m \in redelivered => aiRuns[m] + drops >= 2)
      BY <2>2 DEF Throws, TriesCounted, AiTypeOK
    <3>2. QED
      BY <2>2, <3>1 DEF Throws, AiTypeOK
  <2>3. CASE engine # "consuming"
    <3>1. /\ \A n \in AiEvents : aiEvent'[n] \in {"acked", "rejected"} => aiEvent'[n] = aiEvent[n]
          /\ handled \subseteq handled'
          /\ UNCHANGED <<aiRuns, drops>>
      BY <1>3, <2>3 DEF Ends, Complete, Throws, Exit, Requeue, AiTypeOK
    <3>2. QED
      BY <3>1
  <2>4. QED
    BY <1>3, <2>1, <2>2, <2>3 DEF Ends
<1>4. CASE ConnectionLost \/ Killed
  <2>1. /\ \A n \in AiEvents : aiEvent'[n] \in {"acked", "rejected"} => aiEvent'[n] = aiEvent[n]
        /\ UNCHANGED <<aiRuns, handled>>
        /\ drops' = drops + 1
    BY <1>4 DEF ConnectionLost, Killed, Exit, Requeue, AiTypeOK
  <2>2. QED
    BY <2>1 DEF AiTypeOK
<1>5. CASE Reconnect \/ onApplicationBootstrap
  BY <1>5 DEF Reconnect, onApplicationBootstrap
<1>6. QED
  BY <1>1, <1>2, <1>3, <1>4, <1>5 DEF AiNext

LEMMA PaidStep ==
  ASSUME AiTypeOK, Channel, RunsPaid, [AiNext]_aiVars
  PROVE  RunsPaid'
<1> USE DEF RunsPaid, Given, Begun
<1>1. CASE UNCHANGED aiVars
  BY <1>1 DEF aiVars
<1>2. ASSUME NEW m \in AiEvents, Route(m) \/ Push(m)
      PROVE  RunsPaid'
  BY <1>2 DEF Route, Push, AiTypeOK
<1>3. ASSUME NEW m \in AiEvents, consume(m) \/ SendAnswer(m)
      PROVE  RunsPaid'
  BY <1>3 DEF consume, SendAnswer, AiTypeOK
<1>4. ASSUME NEW m \in AiEvents, Ends(m)
      PROVE  RunsPaid'
  <2>1. CASE engine = "consuming" /\ Complete(m)
    BY <2>1 DEF Complete, AiTypeOK, Channel, HandlerHolds
  <2>2. CASE engine = "consuming" /\ Throws(m)
    BY <2>2 DEF Throws, AiTypeOK, Channel, HandlerHolds
  <2>3. CASE engine # "consuming"
    <3>1. \A n \in AiEvents : aiEvent[n] # "unacked"
      BY <2>3 DEF Channel, AwayHoldsNone
    <3>2. /\ UNCHANGED <<aiRuns, drops>>
          /\ \A n \in AiEvents : aiEvent'[n] = aiEvent[n]
          /\ redelivered' = redelivered
      BY <1>4, <2>3, <3>1 DEF Ends, Complete, Throws, Exit, Requeue, Unacked, AiTypeOK
    <3>3. \A n \in AiEvents : Given(n)' = Given(n) /\ Begun(n)' = Begun(n)
      BY <3>1, <3>2 DEF Given, Begun
    <3>4. QED
      BY <3>2, <3>3
  <2>4. QED
    BY <1>4, <2>1, <2>2, <2>3 DEF Ends
<1>5. CASE ConnectionLost \/ Killed
  <2>1. SUFFICES ASSUME NEW n \in AiEvents
                 PROVE  aiRuns'[n] <= drops' + Given(n)' + Begun(n)'
    OBVIOUS
  <2>2. drops' = drops + 1 /\ UNCHANGED aiRuns /\ drops \in Nat /\ aiRuns[n] \in Nat
    BY <1>5 DEF ConnectionLost, Killed, AiTypeOK
  <2>3. CASE aiEvent[n] = "unacked"
    <3>1. Given(n)' = 1 /\ Begun(n)' = 0 /\ Given(n) \in {0, 1} /\ Begun(n) \in {0, 1}
      BY <1>5, <2>3 DEF ConnectionLost, Killed, Exit, Requeue, Unacked, AiTypeOK
    <3>2. QED
      BY <2>2, <3>1
  <2>4. CASE aiEvent[n] # "unacked"
    <3>1. Given(n)' = Given(n) /\ Begun(n)' = Begun(n) /\ Given(n) \in {0, 1} /\ Begun(n) \in {0, 1}
      BY <1>5, <2>4 DEF ConnectionLost, Killed, Exit, Requeue, Unacked, AiTypeOK
    <3>2. QED
      BY <2>2, <3>1
  <2>5. QED
    BY <2>3, <2>4
<1>6. CASE Reconnect \/ onApplicationBootstrap
  BY <1>6 DEF Reconnect, onApplicationBootstrap
<1>7. QED
  BY <1>1, <1>2, <1>3, <1>4, <1>5, <1>6 DEF AiNext

AiInv == AiTypeOK /\ Channel /\ TriesCounted /\ NoEventSkipped /\ RunsPaid

LEMMA AiInvInit == AiInit => AiInv
BY AiTypeInit DEF AiInit, AiInv, Channel, HandlerHolds, AwayHoldsNone, BootedAfresh,
                  TriesCounted, NoEventSkipped, RunsPaid, Given, Begun

LEMMA AiInvStep == AiInv /\ [AiNext]_aiVars => AiInv'
BY AiTypeStep, ChannelStep, TriesStep, SkippedStep, PaidStep DEF AiInv

\* However connections drop and handlers throw, no event leaves the queue unhandled.
THEOREM SkippedCorrect == AiSpec => []NoEventSkipped
<1>1. AiInv => NoEventSkipped
  BY DEF AiInv
<1>2. QED
  BY <1>1, AiInvInit, AiInvStep, PTL DEF AiSpec

\* An event is handled at most twice, and once more for each drop.
THEOREM AiRunsCorrect == AiSpec => []AiRunsBounded
<1>1. AiInv => AiRunsBounded
  BY DEF AiInv, AiTypeOK, RunsPaid, Given, Begun, AiRunsBounded
<1>2. QED
  BY <1>1, AiInvInit, AiInvStep, PTL DEF AiSpec

-----------------------------------------------------------------------------
(* Both ends of the exchange. *)

\* Whichever end a behaviour follows, the outbox, the relay jobs and their channel (worker.ts,
\* lib/rabbit.ts), the AI engine's queue and its handlers keep their types.
THEOREM MessagingTypeCorrect == MessagingSpec => []MessagingTypeOK
<1>1. MessagingInit => MessagingTypeOK
  BY RelayTypeInit, AiTypeInit DEF MessagingInit, MessagingTypeOK
<1>2. ASSUME MessagingTypeOK, [MessagingNext]_<<end, vars, aiVars>>
      PROVE  MessagingTypeOK'
  <2>1. [Next]_vars /\ [AiNext]_aiVars
    BY <1>2 DEF MessagingNext
  <2>2. QED
    BY <1>2, <2>1, RelayTypeStep, AiTypeStep DEF MessagingTypeOK
<1>3. QED
  BY <1>1, <1>2, PTL DEF MessagingSpec
=============================================================================
