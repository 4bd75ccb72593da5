----------------------------- MODULE AiConsumer -----------------------------
(***************************************************************************)
(* The AI engine at the far end of the exchange:                           *)
(* apps/ai-engine/src/consumers/rabbitmq.service.ts and                    *)
(* ai-consumers.service.ts.                                                *)
(*                                                                         *)
(* The engine acknowledges an event after its handler.  A handler that     *)
(* throws gives the event back once; thrown again it is rejected to the    *)
(* dead-letter exchange.  A lost connection returns every unacknowledged   *)
(* event to the queue.  The engine reconnects but registers its consumer   *)
(* only at boot; a handler that outlives its channel fails to acknowledge, *)
(* and the rejected promise ends the process.                              *)
(***************************************************************************)
EXTENDS Naturals, FiniteSets

CONSTANTS
  AiEvents,  \* events of the queue ai-engine.messages
  Prefetch,  \* unacknowledged events the channel takes
  MaxDrops   \* bound: connections lost and processes killed

ASSUME AiAssumption ==
  /\ Prefetch \in Nat \ {0}
  /\ MaxDrops \in Nat
  /\ IsFiniteSet(AiEvents)

VARIABLES
  aiEvent,     \* each event: "none", "queued", "unacked", "acked" or "rejected"
  redelivered, \* events the broker has delivered before
  engine,      \* "consuming", "offline", "deaf" (a channel without consumer) or "booting"
  handler,     \* each event's handler: "none", "run" or "sent" (its reply is out)
  handled,     \* history: events a handler has completed
  aiRuns,      \* history: times a handler of each event was started
  drops        \* history: connections lost and processes killed

aiVars == <<aiEvent, redelivered, engine, handler, handled, aiRuns, drops>>

AiInit ==
  /\ aiEvent = [m \in AiEvents |-> "none"]
  /\ redelivered = {}
  /\ engine = "consuming"
  /\ handler = [m \in AiEvents |-> "none"]
  /\ handled = {}
  /\ aiRuns = [m \in AiEvents |-> 0]
  /\ drops = 0

Unacked == {m \in AiEvents : aiEvent[m] = "unacked"}
\* The broker takes back what the channel has not acknowledged.
Requeue ==
  /\ aiEvent' = [m \in AiEvents |-> IF m \in Unacked THEN "queued" ELSE aiEvent[m]]
  /\ redelivered' = redelivered \cup Unacked

-----------------------------------------------------------------------------
\* The exchange routes an event to the durable queue.
Route(m) ==
  /\ aiEvent[m] = "none"
  /\ aiEvent' = [aiEvent EXCEPT ![m] = "queued"]
  /\ UNCHANGED <<redelivered, engine, handler, handled, aiRuns, drops>>

NoAck(m) ==                                                    \* mutant
  /\ engine = "consuming"
  /\ aiEvent[m] = "queued"
  /\ Cardinality(Unacked) < Prefetch
  /\ aiEvent' = [aiEvent EXCEPT ![m] = "acked"]
  /\ UNCHANGED <<redelivered, engine, handler, handled, aiRuns, drops>>
\* The broker pushes an event; until the engine has read it no handler runs.
Push(m) ==
  /\ engine = "consuming"
  /\ aiEvent[m] = "queued"
  /\ Cardinality(Unacked) < Prefetch
  /\ aiEvent' = [aiEvent EXCEPT ![m] = "unacked"]
  /\ UNCHANGED <<redelivered, engine, handler, handled, aiRuns, drops>>

SkipsRedelivered(m) ==                                         \* mutant
  /\ engine = "consuming"
  /\ aiEvent[m] = "unacked"
  /\ handler[m] = "none"
  /\ m \notin redelivered
  /\ handler' = [handler EXCEPT ![m] = "run"]
  /\ aiRuns' = [aiRuns EXCEPT ![m] = @ + 1]
  /\ UNCHANGED <<aiEvent, redelivered, engine, handled, drops>>
consume(m) ==
  /\ engine = "consuming"
  /\ aiEvent[m] = "unacked"
  /\ handler[m] = "none"
  /\ handler' = [handler EXCEPT ![m] = "run"]
  /\ aiRuns' = [aiRuns EXCEPT ![m] = @ + 1]
  /\ UNCHANGED <<aiEvent, redelivered, engine, handled, drops>>

\* handleInboundMessage() sends its reply; what follows may still throw.
SendAnswer(m) ==
  /\ handler[m] = "run"
  /\ handler' = [handler EXCEPT ![m] = "sent"]
  /\ UNCHANGED <<aiEvent, redelivered, engine, handled, aiRuns, drops>>

\* Neither ack() nor nack() works on a channel that is gone: the process ends.
Exit ==
  /\ engine' = "booting"
  /\ handler' = [m \in AiEvents |-> "none"]
  /\ Requeue

Complete(m) ==
  /\ handler[m] # "none"
  /\ handled' = handled \cup {m}
  /\ IF engine = "consuming"
     THEN /\ aiEvent' = [aiEvent EXCEPT ![m] = "acked"]
          /\ handler' = [handler EXCEPT ![m] = "none"]
          /\ UNCHANGED <<redelivered, engine>>
     ELSE Exit
  /\ UNCHANGED <<aiRuns, drops>>

AlwaysRequeued(m) ==                                           \* mutant
  /\ handler[m] # "none"
  /\ IF engine = "consuming"
     THEN /\ aiEvent' = [aiEvent EXCEPT ![m] = "queued"]
          /\ handler' = [handler EXCEPT ![m] = "none"]
          /\ UNCHANGED <<redelivered, engine>>
     ELSE Exit
  /\ UNCHANGED <<handled, aiRuns, drops>>
\* "Poison messages go straight to DLQ; transient errors requeue once."
Throws(m) ==
  /\ handler[m] # "none"
  /\ IF engine = "consuming"
     THEN /\ aiEvent' = [aiEvent EXCEPT ![m] = IF m \in redelivered THEN "rejected"
                                                                    ELSE "queued"]
          /\ redelivered' = redelivered \cup {m}
          /\ handler' = [handler EXCEPT ![m] = "none"]
          /\ UNCHANGED engine
     ELSE Exit
  /\ UNCHANGED <<handled, aiRuns, drops>>

-----------------------------------------------------------------------------
(* Connection and process.                                                 *)

ConnectionLost ==
  /\ engine \in {"consuming", "deaf"}
  /\ drops < MaxDrops
  /\ drops' = drops + 1
  /\ engine' = "offline"
  /\ Requeue
  /\ UNCHANGED <<handler, handled, aiRuns>>

\* scheduleReconnect() connects again, and nobody calls consume().
Reconnect ==
  /\ engine = "offline"
  /\ engine' = "deaf"
  /\ UNCHANGED <<aiEvent, redelivered, handler, handled, aiRuns, drops>>

Killed ==
  /\ engine # "booting"
  /\ drops < MaxDrops
  /\ drops' = drops + 1
  /\ Exit
  /\ UNCHANGED <<handled, aiRuns>>

onApplicationBootstrap ==
  /\ engine = "booting"
  /\ engine' = "consuming"
  /\ UNCHANGED <<aiEvent, redelivered, handler, handled, aiRuns, drops>>

-----------------------------------------------------------------------------
Ends(m) == Complete(m) \/ Throws(m)

AiNext ==
  \/ \E m \in AiEvents : Route(m) \/ Push(m) \/ consume(m) \/ SendAnswer(m) \/ Ends(m)
  \/ ConnectionLost \/ Reconnect \/ Killed \/ onApplicationBootstrap

\* The broker delivers and handlers come to an end.
AiFairness ==
  \A m \in AiEvents : WF_aiVars(Push(m)) /\ WF_aiVars(consume(m)) /\ WF_aiVars(Ends(m))

AiSpec == AiInit /\ [][AiNext]_aiVars
AiFairSpec == AiSpec /\ AiFairness

-----------------------------------------------------------------------------
(* Properties.                                                             *)

\* Queue and handlers have the shapes the engine and the broker give them.
AiTypeOK ==
  /\ aiEvent \in [AiEvents -> {"none", "queued", "unacked", "acked", "rejected"}]
  /\ redelivered \subseteq AiEvents
  /\ engine \in {"consuming", "offline", "deaf", "booting"}
  /\ handler \in [AiEvents -> {"none", "run", "sent"}]
  /\ handled \subseteq AiEvents
  /\ aiRuns \in [AiEvents -> Nat]
  /\ drops \in Nat

\* No event leaves the queue unhandled: an acknowledged one was handled to the end, a
\* rejected one was tried twice, once less for a connection lost before the first try.
NoEventSkipped ==
  \A m \in AiEvents : /\ aiEvent[m] = "acked" => m \in handled
                      /\ aiEvent[m] = "rejected" => aiRuns[m] >= 1 /\ aiRuns[m] + drops >= 2

\* "Transient errors requeue once": an event, and so its reply, is handled at most twice,
\* and once more for each lost connection or killed process.
AiRunsBounded == \A m \in AiEvents : aiRuns[m] <= 2 + drops

\* Every queued event is acknowledged or rejected while connection and process live.
AiSettles == \A m \in AiEvents :
  (aiEvent[m] = "queued") ~> (aiEvent[m] \in {"acked", "rejected"} \/ drops > 0)
=============================================================================
