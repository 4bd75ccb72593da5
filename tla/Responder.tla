----------------------------- MODULE Responder -----------------------------
(***************************************************************************)
(* One WhatsApp thread of apps/backend: inbound callbacks                  *)
(* (services/conversations.service.ts), the auto-responder turn            *)
(* (modules/messages/services/responder.service.ts) and the hand-off to a  *)
(* human (escalations.service.ts).                                         *)
(*                                                                         *)
(* A callback inserts its message under a unique id and enqueues one turn. *)
(* BullMQ runs a turn again when it throws or its worker dies.  What a     *)
(* message says, and what is answered, is left out: the classifier may     *)
(* answer, escalate or stay silent.                                        *)
(***************************************************************************)
EXTENDS Naturals, FiniteSets

CONSTANTS
  Inbound,       \* WhatsApp messages, each with its waMessageId
  EscalationIds, \* message_escalations rows a behaviour may insert
  Staff,         \* calls and worker slots that may overlap
  Nobody,        \* no message
  MaxRuns        \* bound: times BullMQ runs a turn

ASSUME ResponderAssumption ==
  /\ MaxRuns \in Nat \ {0}
  /\ Nobody \notin Inbound
  /\ IsFiniteSet(EscalationIds) /\ IsFiniteSet(Staff)

VARIABLES
  thread,     \* conversation.status and botEnabled
  inbox,      \* messages with an INBOUND row
  enqueued,   \* history: turns enqueued for each message
  waiting,    \* turns of each message in the queue
  runs,       \* history: times a turn of each message was started
  replies,    \* bot replies written for each message
  escalation, \* status of each message_escalations row
  reenabled,  \* history: an agent gave the thread back to the bot
  cut,        \* history: a call died before it could silence the bot
  staff       \* each call or job in flight: its next statement and its message

responderVars == <<thread, inbox, enqueued, waiting, runs, replies, escalation,
                   reenabled, cut, staff>>
turns == <<inbox, enqueued, waiting, runs, replies>>
handoff == <<thread, escalation, reenabled, cut>>

Threads == [status : {"BOT", "HANDLED", "CLOSED"}, botEnabled : BOOLEAN]
Duty(step, m) == [step |-> step, msg |-> m]
OffDuty == Duty("idle", Nobody)

ResponderInit ==
  /\ thread = [status |-> "BOT", botEnabled |-> TRUE]
  /\ inbox = {}
  /\ enqueued = [m \in Inbound |-> 0]
  /\ waiting = [m \in Inbound |-> 0]
  /\ runs = [m \in Inbound |-> 0]
  /\ replies = [m \in Inbound |-> 0]
  /\ escalation = [e \in EscalationIds |-> "none"]
  /\ reenabled = FALSE /\ cut = FALSE
  /\ staff = [s \in Staff |-> OffDuty]

Assign(s, duty) == staff' = [staff EXCEPT ![s] = duty]
On(s, step) == staff[s].step = step
Msg(s) == staff[s].msg
botActive == thread.status = "BOT" /\ thread.botEnabled

-----------------------------------------------------------------------------
(* A callback.                                                             *)

\* receiveInbound() finds a message it has stored, or goes on to insert it.
receiveInbound(s, m) ==
  /\ On(s, "idle")
  /\ m \notin inbox
  /\ Assign(s, Duty("insert", m))
  /\ UNCHANGED <<turns, handoff>>

InsertUnchecked(s) ==                                          \* mutant
  /\ On(s, "insert")
  /\ inbox' = inbox \cup {Msg(s)}
  /\ Assign(s, Duty("dispatch", Msg(s)))
  /\ UNCHANGED <<enqueued, waiting, runs, replies, handoff>>
\* "Dedupe is enforced by the DB unique index": the second insert throws.
InsertInbound(s) ==
  /\ On(s, "insert")
  /\ inbox' = inbox \cup {Msg(s)}
  /\ Assign(s, IF Msg(s) \in inbox THEN OffDuty ELSE Duty("dispatch", Msg(s)))
  /\ UNCHANGED <<enqueued, waiting, runs, replies, handoff>>

\* With Redis down the turn is dropped.
dispatchTurn(s) ==
  /\ On(s, "dispatch")
  /\ \/ /\ enqueued' = [enqueued EXCEPT ![Msg(s)] = @ + 1]
        /\ waiting' = [waiting EXCEPT ![Msg(s)] = @ + 1]
     \/ UNCHANGED <<enqueued, waiting>>
  /\ Assign(s, OffDuty)
  /\ UNCHANGED <<inbox, runs, replies, handoff>>

-----------------------------------------------------------------------------
(* A turn.                                                                 *)

\* loadEligibleTurn(); a turn that is not eligible ends here.
loadEligibleTurn(s, m) ==
  /\ On(s, "idle")
  /\ waiting[m] > 0
  /\ waiting' = [waiting EXCEPT ![m] = @ - 1]
  /\ runs' = [runs EXCEPT ![m] = @ + 1]
  /\ Assign(s, IF botActive THEN Duty("classify", m) ELSE OffDuty)
  /\ UNCHANGED <<inbox, enqueued, replies, handoff>>

\* Answer, escalate, or say nothing.
processTurn(s) ==
  /\ On(s, "classify")
  /\ Assign(s, Duty("reply", Msg(s))) \/ Assign(s, Duty("escalate", Msg(s)))
       \/ Assign(s, OffDuty)
  /\ UNCHANGED <<turns, handoff>>

\* messagesService.send() refuses a CLOSED thread.  The turn may still fail after it.
SendReply(s) ==
  /\ On(s, "reply")
  /\ thread.status # "CLOSED"
  /\ replies' = [replies EXCEPT ![Msg(s)] = @ + 1]
  /\ Assign(s, Duty("log", Msg(s)))
  /\ UNCHANGED <<inbox, enqueued, waiting, runs, handoff>>

logTurn(s) ==
  /\ On(s, "log")
  /\ Assign(s, OffDuty)
  /\ UNCHANGED <<turns, handoff>>

-----------------------------------------------------------------------------
(* Hand-off.                                                               *)

OpenRows == {e \in EscalationIds : escalation[e] = "OPEN"}

\* An agent escalates by hand.
createEscalation(s) ==
  /\ On(s, "idle")
  /\ Assign(s, Duty("escalate", Nobody))
  /\ UNCHANGED <<turns, handoff>>

\* "One open escalation per thread is plenty": an OPEN row is the answer.
FindOpen(s) ==
  /\ On(s, "escalate")
  /\ Assign(s, IF OpenRows = {} THEN Duty("open", Msg(s)) ELSE Duty("log", Msg(s)))
  /\ UNCHANGED <<turns, handoff>>

InsertEscalation(s, e) ==
  /\ On(s, "open")
  /\ escalation[e] = "none"
  /\ escalation' = [escalation EXCEPT ![e] = "OPEN"]
  /\ Assign(s, Duty("silence", Msg(s)))
  /\ UNCHANGED <<turns, thread, reenabled, cut>>

OnlyAssigns(s) ==                                              \* mutant
  /\ On(s, "silence")
  /\ Assign(s, Duty("log", Msg(s)))
  /\ UNCHANGED <<turns, handoff>>
SilenceBot(s) ==
  /\ On(s, "silence")
  /\ thread' = [status |-> "HANDLED", botEnabled |-> FALSE]
  /\ Assign(s, Duty("log", Msg(s)))
  /\ UNCHANGED <<turns, escalation, reenabled, cut>>

\* resolve() and remove(): RESOLVED and DISMISSED are told apart by nothing here.
resolve(e) ==
  /\ escalation[e] = "OPEN"
  /\ escalation' = [escalation EXCEPT ![e] = "closed"]
  /\ UNCHANGED <<turns, thread, reenabled, cut, staff>>

\* assignAgent(), setBotEnabled() and escalate() of the conversations service, and an
\* update of the thread.
Agent(t) ==
  /\ \/ t = [thread EXCEPT !.status = "HANDLED"]
     \/ \E on \in BOOLEAN : t = [thread EXCEPT !.botEnabled = on]
     \/ t = [status |-> "HANDLED", botEnabled |-> FALSE]
     \/ thread.status # "CLOSED"
  /\ t # thread
  /\ thread' = t
  /\ reenabled' = (reenabled \/ (t.status = "BOT" /\ t.botEnabled))
  /\ UNCHANGED <<turns, escalation, cut, staff>>

\* The calls that are turns: the others answer callbacks, or agents.
InTurn(s) == Msg(s) # Nobody /\ ~On(s, "insert") /\ ~On(s, "dispatch")

\* A statement throws or the process dies.  A turn goes back to the queue while BullMQ has
\* attempts left.
DutyFails(s) ==
  /\ ~On(s, "idle")
  /\ Assign(s, OffDuty)
  /\ cut' = (cut \/ On(s, "silence"))
  /\ waiting' = IF InTurn(s) /\ runs[Msg(s)] < MaxRuns * enqueued[Msg(s)]
                THEN [waiting EXCEPT ![Msg(s)] = @ + 1] ELSE waiting
  /\ UNCHANGED <<inbox, enqueued, runs, replies, thread, escalation, reenabled>>

-----------------------------------------------------------------------------
StaffStep(s) ==
  \/ InsertInbound(s) \/ dispatchTurn(s) \/ processTurn(s) \/ SendReply(s) \/ logTurn(s)
  \/ createEscalation(s) \/ FindOpen(s) \/ SilenceBot(s) \/ DutyFails(s)
  \/ \E m \in Inbound : receiveInbound(s, m) \/ loadEligibleTurn(s, m)
  \/ \E e \in EscalationIds : InsertEscalation(s, e)

ResponderNext ==
  \/ \E s \in Staff : StaffStep(s)
  \/ \E e \in EscalationIds : resolve(e)
  \/ \E t \in Threads : Agent(t)

ResponderSpec == ResponderInit /\ [][ResponderNext]_responderVars

-----------------------------------------------------------------------------
(* Properties.                                                             *)

\* The thread, its rows and the frames have the shapes the services give them.
ResponderTypeOK ==
  /\ thread \in Threads
  /\ inbox \subseteq Inbound
  /\ enqueued \in [Inbound -> Nat] /\ waiting \in [Inbound -> Nat]
  /\ runs \in [Inbound -> Nat] /\ replies \in [Inbound -> Nat]
  /\ escalation \in [EscalationIds -> {"none", "OPEN", "closed"}]
  /\ reenabled \in BOOLEAN /\ cut \in BOOLEAN
  /\ staff \in [Staff ->
       {OffDuty}
       \cup [step : {"insert", "dispatch", "classify", "reply"}, msg : Inbound]
       \cup [step : {"escalate", "open", "silence", "log"}, msg : Inbound \cup {Nobody}]]

\* "Provider retries are free": however often a callback is repeated, its message is
\* answered at most once for each run BullMQ gives one job.
RepliesBounded == \A m \in Inbound : replies[m] <= MaxRuns

\* While an escalation is open the bot is silent, unless an agent gave the thread back or
\* a call died between the row and the thread.
HandOffSilencesBot ==
  OpenRows # {} /\ ~reenabled /\ ~cut /\ (\A s \in Staff : ~On(s, "silence")) => ~botActive
=============================================================================
