--------------------------- MODULE WhatsAppProofs ---------------------------
(***************************************************************************)
(* Proofs about what goes out over WhatsApp: campaigns, the bot's replies  *)
(* and the messages people send, for any audience, any number of turns and *)
(* any number of calls.                                                    *)
(***************************************************************************)
EXTENDS Campaigns, Responder, Outbound, TLAPS

-----------------------------------------------------------------------------
(* Campaign dispatch.                                                      *)

LEMMA MishapTyped ==
  ASSUME CampaignTypeOK, Mishap \/ UNCHANGED mishaps
  PROVE  mishaps' \in 0 .. MaxMishaps
BY CampaignAssumption DEF CampaignTypeOK, Mishap

LEMMA JobsTyped ==
  ASSUME CampaignTypeOK, jobsWaiting' = jobsWaiting + 1 \/ UNCHANGED jobsWaiting,
         lost' = TRUE \/ UNCHANGED lost
  PROVE  jobsWaiting' \in Nat /\ lost' \in BOOLEAN
<1>1. jobsWaiting' \in Nat
  BY DEF CampaignTypeOK
<1>2. lost' \in BOOLEAN
  BY Zenon DEF CampaignTypeOK
<1>3. QED
  BY <1>1, <1>2

LEMMA CampaignTypeStep ==
  ASSUME CampaignTypeOK, [CampaignNext]_campaignVars
  PROVE  CampaignTypeOK'
<1> USE CampaignAssumption
<1>1. CASE UNCHANGED campaignVars
  BY <1>1 DEF CampaignTypeOK, campaignVars, Working
<1>2. ASSUME NEW g \in Marketers, MarketerStep(g)
      PROVE  CampaignTypeOK'
  <2>1. CASE launch(g) \/ cancelCampaign(g)
    BY <2>1 DEF launch, cancelCampaign, Errand, NoErrand, CampaignTypeOK, Working
  <2>2. CASE WipeQueued(g)
    BY <2>2 DEF WipeQueued, Errands, QueuedMail, CampaignTypeOK, Working
  <2>3. CASE Materialize(g)
    BY <2>3 DEF Materialize, Errands, CampaignTypeOK, Working
  <2>4. CASE SetRunning(g)
    BY <2>4 DEF SetRunning, Errands, CampaignTypeOK, Working
  <2>5. CASE EnqueueDispatch(g)
    <3>1. mishaps' \in 0 .. MaxMishaps /\ jobsWaiting' \in Nat /\ lost' \in BOOLEAN
      <4>1. Mishap \/ UNCHANGED mishaps
        BY <2>5 DEF EnqueueDispatch
      <4>2. /\ jobsWaiting' = jobsWaiting + 1 \/ UNCHANGED jobsWaiting
            /\ lost' = TRUE \/ UNCHANGED lost
        BY <2>5 DEF EnqueueDispatch
      <4>3. QED
        BY <4>1, <4>2, MishapTyped, JobsTyped
    <3>2. marketer' \in [Marketers -> [step : {"idle", "wipe", "fill", "run", "enqueue", "halt"},
                                       launch : 0 .. MaxLaunches]]
      BY <2>5 DEF EnqueueDispatch, NoErrand, Errand, CampaignTypeOK
    <3>3. QED
      BY <2>5, <3>1, <3>2 DEF EnqueueDispatch, CampaignTypeOK, Working
  <2>5a. CASE SetPaused(g)
    BY <2>5a DEF SetPaused, Errand, NoErrand, CampaignTypeOK, Working
  <2>5b. CASE MarketerCut(g)
    BY <2>5b DEF MarketerCut, Mishap, Errand, NoErrand, CampaignTypeOK, Working
  <2>6. QED
    BY <1>2, <2>1, <2>2, <2>3, <2>4, <2>5, <2>5a, <2>5b DEF MarketerStep
<1>3. ASSUME NEW d \in Dispatchers, DispatchStep(d)
      PROVE  CampaignTypeOK'
  <2>1. CASE TakeJob(d) \/ CheckCampaign(d) \/ CountRemaining(d)
    BY <2>1 DEF TakeJob, CheckCampaign, CountRemaining, Chunk, NoChunk, CampaignTypeOK, Working
  <2>2. CASE SelectBatch(d)
    BY <2>2 DEF SelectBatch, QueuedMail, Chunk, CampaignTypeOK, Working
  <2>3. CASE SendRow(d)
    <3>1. chunk[d].todo \in SUBSET CampaignRows /\ chunk[d].todo # {}
      BY <2>3 DEF SendRow, CampaignTypeOK
    <3>2. QED
      BY <2>3, <3>1 DEF SendRow, Chunk, CampaignTypeOK, Working
  <2>4. CASE MarkRow(d)
    BY <2>4 DEF MarkRow, Chunk, CampaignTypeOK, Working
  <2>5. CASE EnqueueNext(d) \/ CompleteCampaign(d)
    BY <2>5 DEF EnqueueNext, CompleteCampaign, Chunk, NoChunk, CampaignTypeOK, Working
  <2>6. CASE JobFails(d)
    <3>1. mishaps' \in 0 .. MaxMishaps /\ jobsWaiting' \in Nat /\ lost' \in BOOLEAN
      <4>1. Mishap \/ UNCHANGED mishaps
        BY <2>6 DEF JobFails, Fails
      <4>2. /\ jobsWaiting' = jobsWaiting + 1 \/ UNCHANGED jobsWaiting
            /\ lost' = TRUE \/ UNCHANGED lost
        BY <2>6 DEF JobFails
      <4>3. QED
        BY <4>1, <4>2, MishapTyped, JobsTyped
    <3>2. QED
      BY <2>6, <3>1 DEF JobFails, Chunk, NoChunk, CampaignTypeOK, Working
  <2>7. QED
    BY <1>3, <2>1, <2>2, <2>3, <2>4, <2>5, <2>6 DEF DispatchStep
<1>4. QED
  BY <1>1, <1>2, <1>3 DEF CampaignNext

LEMMA CampaignTypeInit == CampaignInit => CampaignTypeOK
<1> USE CampaignAssumption
<1> SUFFICES ASSUME CampaignInit PROVE CampaignTypeOK
  OBVIOUS
<1>1. NoErrand \in [step : {"idle", "wipe", "fill", "run", "enqueue", "halt"},
                    launch : 0 .. MaxLaunches]
  BY DEF NoErrand, Errand
<1>2. /\ NoChunk \in
           [step : {"idle", "check", "select", "send", "mark", "again", "complete"},
            todo : SUBSET CampaignRows, outcome : {"none", "queued", "failed"}]
      /\ NoChunk.step # "mark"
  BY DEF NoChunk, Chunk
<1>3. /\ campaign \in {"DRAFT", "SCHEDULED", "RUNNING", "PAUSED", "COMPLETED"}
      /\ mail \in [CampaignRows -> {"none", "queued", "failed", "deleted"}]
      /\ launches \in 0 .. MaxLaunches /\ mishaps \in 0 .. MaxMishaps
      /\ jobsWaiting \in Nat
  BY DEF CampaignInit
<1>4. lost \in BOOLEAN
  BY Zenon DEF CampaignInit
<1>5. QED
  BY <1>1, <1>2, <1>3, <1>4 DEF CampaignInit, CampaignTypeOK, Working

\* The status, the rows, the calls and the jobs keep their types.
THEOREM CampaignTypeCorrect == CampaignSpec => []CampaignTypeOK
BY CampaignTypeInit, CampaignTypeStep, PTL DEF CampaignSpec

-----------------------------------------------------------------------------
(* Every step that gives up the campaign's job hands one on, or changes    *)
(* the status, or leaves no row queued, or is counted as lost.             *)

LEMMA DispatchStepKept ==
  ASSUME CampaignTypeOK, RunningIsDispatched, [CampaignNext]_campaignVars
  PROVE  RunningIsDispatched'
<1> USE CampaignAssumption
<1>1. CASE UNCHANGED campaignVars
  BY <1>1 DEF RunningIsDispatched, Dispatching, QueuedMail, campaignVars
<1>2. ASSUME NEW g \in Marketers, MarketerStep(g)
      PROVE  RunningIsDispatched'
  <2>1. CASE launch(g) \/ cancelCampaign(g)
    <3>1. marketer[g].step = "idle"
      BY <2>1 DEF launch, cancelCampaign, NoErrand, Errand
    <3>2. Dispatching => Dispatching'
      BY <2>1, <3>1 DEF launch, cancelCampaign, Dispatching, CampaignTypeOK
    <3>3. QED
      BY <2>1, <3>2 DEF launch, cancelCampaign, RunningIsDispatched, QueuedMail
  <2>2. CASE WipeQueued(g)
    <3>1. QueuedMail' = {}
      BY <2>2 DEF WipeQueued, QueuedMail
    <3>2. QED
      BY <3>1 DEF RunningIsDispatched
  <2>3. CASE Materialize(g) \/ SetRunning(g)
    <3>1. marketer'[g].step \in {"run", "enqueue"}
      BY <2>3 DEF Materialize, SetRunning, Errands, CampaignTypeOK
    <3>2. QED
      BY <3>1 DEF RunningIsDispatched, Dispatching
  <2>4. CASE EnqueueDispatch(g)
    BY <2>4 DEF EnqueueDispatch, RunningIsDispatched, Dispatching, CampaignTypeOK
  <2>5. CASE SetPaused(g) \/ MarketerCut(g)
    BY <2>5 DEF SetPaused, MarketerCut, RunningIsDispatched
  <2>6. QED
    BY <1>2, <2>1, <2>2, <2>3, <2>4, <2>5 DEF MarketerStep
<1>3. ASSUME NEW d \in Dispatchers, DispatchStep(d)
      PROVE  RunningIsDispatched'
  <2>1. CASE CheckCampaign(d)
    <3>1. CASE campaign \in {"RUNNING", "SCHEDULED"}
      <4>1. chunk'[d].step = "select"
        BY <2>1, <3>1 DEF CheckCampaign, Chunk, CampaignTypeOK
      <4>2. QED
        BY <4>1 DEF RunningIsDispatched, Dispatching
    <3>2. CASE campaign \notin {"RUNNING", "SCHEDULED"}
      BY <2>1, <3>2 DEF CheckCampaign, RunningIsDispatched
    <3>3. QED
      BY <3>1, <3>2
  <2>2. CASE TakeJob(d) \/ SelectBatch(d) \/ SendRow(d) \/ MarkRow(d)
    <3>1. chunk'[d].step \in {"check", "send", "mark"}
      BY <2>2 DEF TakeJob, SelectBatch, SendRow, MarkRow, Chunk, CampaignTypeOK
    <3>2. QED
      BY <3>1 DEF RunningIsDispatched, Dispatching
  <2>3. CASE CountRemaining(d)
    <3>1. CASE QueuedMail # {}
      <4>1. chunk'[d].step = "again"
        BY <2>3, <3>1 DEF CountRemaining, CampaignTypeOK
      <4>2. QED
        BY <4>1 DEF RunningIsDispatched, Dispatching
    <3>2. CASE QueuedMail = {}
      BY <2>3, <3>2 DEF CountRemaining, RunningIsDispatched, QueuedMail
    <3>3. QED
      BY <3>1, <3>2
  <2>4. CASE EnqueueNext(d)
    BY <2>4 DEF EnqueueNext, RunningIsDispatched, Dispatching, CampaignTypeOK
  <2>5. CASE CompleteCampaign(d)
    BY <2>5 DEF CompleteCampaign, RunningIsDispatched
  <2>6. CASE JobFails(d)
    BY <2>6 DEF JobFails, RunningIsDispatched, Dispatching, CampaignTypeOK
  <2>7. QED
    BY <1>3, <2>1, <2>2, <2>3, <2>4, <2>5, <2>6 DEF DispatchStep
<1>4. QED
  BY <1>1, <1>2, <1>3 DEF CampaignNext

\* However many launches, pauses, jobs and failures overlap, a RUNNING campaign with queued
\* rows keeps a dispatch job on its way, unless one was lost for good.
THEOREM DispatchCorrect == CampaignSpec => []RunningIsDispatched
<1>1. CampaignInit => RunningIsDispatched
  BY DEF CampaignInit, RunningIsDispatched
<1>2. QED
  BY <1>1, CampaignTypeInit, CampaignTypeStep, DispatchStepKept, PTL DEF CampaignSpec

-----------------------------------------------------------------------------
(* The auto-responder.                                                     *)

Duties == {OffDuty}
          \cup [step : {"insert", "dispatch", "classify", "reply"}, msg : Inbound]
          \cup [step : {"escalate", "open", "silence", "log"}, msg : Inbound \cup {Nobody}]

TurnSteps == {"classify", "reply"}

\* What a duty's step says of its message.
LEMMA DutyShape ==
  ASSUME ResponderTypeOK, NEW s \in Staff
  PROVE  /\ staff[s] \in Duties
         /\ On(s, "insert") \/ On(s, "dispatch") \/ On(s, "classify") \/ On(s, "reply")
              => Msg(s) \in Inbound
         /\ ~On(s, "idle") => Msg(s) \in Inbound \cup {Nobody}
         /\ On(s, "idle") => Msg(s) = Nobody
<1>1. staff[s] \in Duties
  BY DEF ResponderTypeOK, Duties
<1>2. QED
  BY <1>1 DEF Duties, OffDuty, Duty, On, Msg

LEMMA DutyTyped ==
  /\ OffDuty \in Duties
  /\ \A m \in Inbound : /\ Duty("insert", m) \in Duties /\ Duty("dispatch", m) \in Duties
                        /\ Duty("classify", m) \in Duties /\ Duty("reply", m) \in Duties
  /\ \A m \in Inbound \cup {Nobody} :
       /\ Duty("escalate", m) \in Duties /\ Duty("open", m) \in Duties
       /\ Duty("silence", m) \in Duties /\ Duty("log", m) \in Duties
BY DEF Duties, Duty

\* A step of the services moves one call or job on.
LEMMA OneDutyMoves ==
  ASSUME ResponderTypeOK, NEW s \in Staff, StaffStep(s)
  PROVE  \E duty \in Duties : Assign(s, duty)
<1>1. CASE InsertInbound(s) \/ dispatchTurn(s) \/ DutyFails(s) \/ logTurn(s)
  BY <1>1, DutyShape, DutyTyped DEF InsertInbound, dispatchTurn, DutyFails, logTurn
<1>2. CASE processTurn(s) \/ SendReply(s)
  BY <1>2, DutyShape, DutyTyped DEF processTurn, SendReply
<1>3. CASE createEscalation(s) \/ FindOpen(s) \/ SilenceBot(s)
           \/ \E e \in EscalationIds : InsertEscalation(s, e)
  <2>1. CASE createEscalation(s)
    BY <2>1, DutyTyped DEF createEscalation
  <2>2. CASE FindOpen(s) \/ SilenceBot(s) \/ \E e \in EscalationIds : InsertEscalation(s, e)
    <3>1. Msg(s) \in Inbound \cup {Nobody}
      BY <2>2, DutyShape DEF FindOpen, SilenceBot, InsertEscalation, On
    <3>2. QED
      BY <2>2, <3>1, DutyTyped DEF FindOpen, SilenceBot, InsertEscalation
  <2>3. QED
    BY <1>3, <2>1, <2>2
<1>4. CASE \E m \in Inbound : receiveInbound(s, m) \/ loadEligibleTurn(s, m)
  BY <1>4, DutyTyped DEF receiveInbound, loadEligibleTurn
<1>5. QED
  BY <1>1, <1>2, <1>3, <1>4 DEF StaffStep

LEMMA AssignTyped ==
  ASSUME ResponderTypeOK, NEW s \in Staff, NEW duty \in Duties, Assign(s, duty)
  PROVE  /\ staff' \in [Staff -> Duties]
         /\ staff'[s] = duty
         /\ \A t \in Staff : t # s => staff'[t] = staff[t]
BY DEF ResponderTypeOK, Duties, Assign

LEMMA ResponderTypeStep == ResponderTypeOK /\ [ResponderNext]_responderVars => ResponderTypeOK'
<1> SUFFICES ASSUME ResponderTypeOK, [ResponderNext]_responderVars PROVE ResponderTypeOK'
  OBVIOUS
<1>1. CASE UNCHANGED responderVars
  BY <1>1 DEF responderVars, ResponderTypeOK
<1>2. ASSUME NEW s \in Staff, StaffStep(s)
      PROVE  ResponderTypeOK'
  <2>1. staff' \in [Staff -> Duties]
    BY <1>2, OneDutyMoves, AssignTyped
  <2>2. inbox' \subseteq Inbound
    <3>1. CASE InsertInbound(s)
      BY <3>1, DutyShape DEF InsertInbound, ResponderTypeOK
    <3>2. CASE ~InsertInbound(s)
      BY <1>2, <3>2
         DEF StaffStep, dispatchTurn, processTurn, SendReply, logTurn, createEscalation, FindOpen,
             SilenceBot, DutyFails, receiveInbound, loadEligibleTurn, InsertEscalation, turns,
             ResponderTypeOK
    <3>3. QED
      BY <3>1, <3>2
  <2>3. /\ enqueued' \in [Inbound -> Nat] /\ waiting' \in [Inbound -> Nat]
        /\ runs' \in [Inbound -> Nat] /\ replies' \in [Inbound -> Nat]
    <3>1. CASE dispatchTurn(s)
      BY <3>1, DutyShape DEF dispatchTurn, ResponderTypeOK
    <3>2. CASE \E m \in Inbound : loadEligibleTurn(s, m)
      BY <3>2 DEF loadEligibleTurn, ResponderTypeOK
    <3>3. CASE SendReply(s)
      BY <3>3, DutyShape DEF SendReply, ResponderTypeOK
    <3>4. CASE DutyFails(s)
      <4>1. waiting' \in [Inbound -> Nat]
        BY <3>4, DutyShape DEF DutyFails, InTurn, ResponderTypeOK
      <4>2. QED
        BY <3>4, <4>1 DEF DutyFails, ResponderTypeOK
    <3>5. CASE InsertInbound(s) \/ processTurn(s) \/ logTurn(s) \/ createEscalation(s) \/ FindOpen(s)
               \/ SilenceBot(s) \/ (\E m \in Inbound : receiveInbound(s, m))
               \/ \E e \in EscalationIds : InsertEscalation(s, e)
      BY <3>5 DEF InsertInbound, processTurn, logTurn, createEscalation, FindOpen, SilenceBot,
                  receiveInbound, InsertEscalation, turns, ResponderTypeOK
    <3>6. QED
      BY <1>2, <3>1, <3>2, <3>3, <3>4, <3>5 DEF StaffStep
  <2>4. /\ thread' \in Threads /\ reenabled' \in BOOLEAN
        /\ escalation' \in [EscalationIds -> {"none", "OPEN", "closed"}]
    <3>1. /\ reenabled' = reenabled
          /\ thread' = thread \/ thread' = [status |-> "HANDLED", botEnabled |-> FALSE]
          /\ \/ escalation' = escalation
             \/ \E e \in EscalationIds : escalation' = [escalation EXCEPT ![e] = "OPEN"]
      BY <1>2
         DEF StaffStep, InsertInbound, dispatchTurn, processTurn, SendReply, logTurn,
             createEscalation, FindOpen, SilenceBot, DutyFails, receiveInbound, loadEligibleTurn,
             InsertEscalation, handoff
    <3>2. thread \in Threads /\ [status |-> "HANDLED", botEnabled |-> FALSE] \in Threads
      BY DEF Threads, ResponderTypeOK
    <3>2a. thread' \in Threads
      BY <3>1, <3>2
    <3>3. QED
      BY <3>1, <3>2a DEF ResponderTypeOK
  <2>5. cut' \in BOOLEAN
    <3>1. cut' = cut \/ cut' = (cut \/ On(s, "silence"))
      BY <1>2
         DEF StaffStep, InsertInbound, dispatchTurn, processTurn, SendReply, logTurn,
             createEscalation, FindOpen, SilenceBot, DutyFails, receiveInbound, loadEligibleTurn,
             InsertEscalation, handoff
    <3>2. cut \in BOOLEAN
      BY DEF ResponderTypeOK
    <3>3. QED
      BY <3>1, <3>2, Zenon
  <2>6. QED
    BY <2>1, <2>2, <2>3, <2>4, <2>5 DEF ResponderTypeOK, Duties
<1>3. ASSUME NEW e \in EscalationIds, resolve(e)
      PROVE  ResponderTypeOK'
  BY <1>3 DEF resolve, turns, ResponderTypeOK
<1>4. ASSUME NEW t \in Threads, Agent(t)
      PROVE  ResponderTypeOK'
  <2>1. reenabled' \in BOOLEAN
    <3>1. reenabled' = (reenabled \/ (t.status = "BOT" /\ t.botEnabled)) /\ reenabled \in BOOLEAN
      BY <1>4 DEF Agent, ResponderTypeOK
    <3>2. QED
      BY <3>1, Zenon
  <2>2. QED
    BY <1>4, <2>1 DEF Agent, turns, ResponderTypeOK
<1>5. QED
  BY <1>1, <1>2, <1>3, <1>4 DEF ResponderNext

LEMMA ResponderTypeInit == ResponderInit => ResponderTypeOK
<1> SUFFICES ASSUME ResponderInit PROVE ResponderTypeOK
  OBVIOUS
<1>1. thread \in Threads
  BY DEF ResponderInit, Threads
<1>2. reenabled \in BOOLEAN /\ cut \in BOOLEAN
  BY DEF ResponderInit
<1>3. staff \in [Staff -> Duties]
  BY DutyTyped DEF ResponderInit
<1>4. QED
  BY <1>1, <1>2, <1>3 DEF ResponderInit, ResponderTypeOK, Duties

\* The thread, its rows and the calls keep the shapes the services give them.
THEOREM ResponderTypeCorrect == ResponderSpec => []ResponderTypeOK
  BY ResponderTypeInit, ResponderTypeStep, PTL DEF ResponderSpec

-----------------------------------------------------------------------------
(* One job per message.  Its turn waits in the queue or runs, never both   *)
(* and never twice; while it may still reply, the run it is in has not.    *)

Turn(s, m) == Msg(s) = m /\ InTurn(s)
Dispatch(s, m) == Msg(s) = m /\ On(s, "dispatch")

TurnInv(m) ==
  /\ \A s, t \in Staff : Turn(s, m) /\ Turn(t, m) => s = t
  /\ \A s, t \in Staff : Dispatch(s, m) /\ Dispatch(t, m) => s = t
  /\ \A s \in Staff : Dispatch(s, m) => m \in inbox /\ enqueued[m] = 0
  /\ m \notin inbox => enqueued[m] = 0
  /\ enqueued[m] \in {0, 1}
  /\ enqueued[m] = 0 => /\ waiting[m] = 0 /\ runs[m] = 0 /\ replies[m] = 0
                        /\ \A s \in Staff : ~Turn(s, m)
  /\ waiting[m] \in {0, 1}
  /\ \A s \in Staff : Turn(s, m) => waiting[m] = 0
  /\ runs[m] <= MaxRuns
  /\ waiting[m] = 1 => runs[m] < MaxRuns
  /\ replies[m] <= runs[m]
  /\ \A s \in Staff : Turn(s, m) /\ (On(s, "classify") \/ On(s, "reply")) => replies[m] < runs[m]

TurnsInv == \A m \in Inbound : TurnInv(m)

LEMMA TurnsInit == ResponderInit => TurnsInv
<1> SUFFICES ASSUME ResponderInit, NEW m \in Inbound PROVE TurnInv(m)
  BY DEF TurnsInv
<1>1. \A s \in Staff : ~Turn(s, m) /\ ~Dispatch(s, m)
  BY ResponderAssumption DEF ResponderInit, Turn, InTurn, Dispatch, OffDuty, Duty, Msg, On
<1>2. /\ enqueued[m] = 0 /\ waiting[m] = 0 /\ runs[m] = 0 /\ replies[m] = 0
  BY DEF ResponderInit
<1>3. QED
  BY <1>1, <1>2, ResponderAssumption DEF TurnInv

\* A call that moves without starting a turn or a dispatch of m, and leaves m's counts.
LEMMA TurnsAlone ==
  ASSUME NEW m \in Inbound, TurnInv(m),
         \A s \in Staff : Turn(s, m)' => Turn(s, m),
         \A s \in Staff : Dispatch(s, m)' => Dispatch(s, m),
         \A s \in Staff : Turn(s, m)' /\ (On(s, "classify")' \/ On(s, "reply")')
                            => On(s, "classify") \/ On(s, "reply"),
         m \in inbox => m \in inbox',
         enqueued'[m] = enqueued[m], waiting'[m] = waiting[m],
         runs'[m] = runs[m], replies'[m] = replies[m]
  PROVE  TurnInv(m)'
BY DEF TurnInv

\* What a duty is to a message.
TurnOf(d, m) == d.msg = m /\ d.msg # Nobody /\ d.step # "insert" /\ d.step # "dispatch"
DispatchOf(d, m) == d.msg = m /\ d.step = "dispatch"

LEMMA DutiesMove ==
  ASSUME ResponderTypeOK, NEW m \in Inbound, NEW s \in Staff, NEW duty \in Duties, Assign(s, duty)
  PROVE  /\ Turn(s, m) <=> TurnOf(staff[s], m)
         /\ Dispatch(s, m) <=> DispatchOf(staff[s], m)
         /\ Turn(s, m)' <=> TurnOf(duty, m)
         /\ Dispatch(s, m)' <=> DispatchOf(duty, m)
         /\ \A step : On(s, step)' <=> duty.step = step
         /\ \A t \in Staff : t # s => /\ Turn(t, m)' <=> Turn(t, m)
                                      /\ Dispatch(t, m)' <=> Dispatch(t, m)
                                      /\ \A step : On(t, step)' <=> On(t, step)
BY AssignTyped DEF Turn, TurnOf, Dispatch, DispatchOf, InTurn, On, Msg

LEMMA TurnsStep == ResponderTypeOK /\ TurnsInv /\ [ResponderNext]_responderVars => TurnsInv'
<1> SUFFICES ASSUME ResponderTypeOK, TurnsInv, [ResponderNext]_responderVars, NEW m \in Inbound
             PROVE  TurnInv(m)'
  BY DEF TurnsInv
<1>0. TurnInv(m)
  BY DEF TurnsInv
<1>1. /\ m # Nobody /\ MaxRuns \in Nat \ {0}
      /\ enqueued \in [Inbound -> Nat] /\ waiting \in [Inbound -> Nat]
      /\ runs \in [Inbound -> Nat] /\ replies \in [Inbound -> Nat]
      /\ enqueued[m] \in Nat /\ waiting[m] \in Nat /\ runs[m] \in Nat /\ replies[m] \in Nat
  BY ResponderAssumption DEF ResponderTypeOK
<1>2. CASE UNCHANGED <<staff, turns>>
  BY <1>0, <1>2, TurnsAlone DEF turns, Turn, Dispatch, InTurn, On, Msg
<1>3. ASSUME NEW s \in Staff, NEW duty \in Duties, Assign(s, duty),
             TurnOf(duty, m) => Turn(s, m), DispatchOf(duty, m) => Dispatch(s, m),
             TurnOf(duty, m) /\ duty.step \in TurnSteps => staff[s].step \in TurnSteps,
             m \in inbox => m \in inbox',
             enqueued'[m] = enqueued[m], waiting'[m] = waiting[m],
             runs'[m] = runs[m], replies'[m] = replies[m]
      PROVE  TurnInv(m)'
  <2>1. \A t \in Staff : Turn(t, m)' => Turn(t, m)
    BY <1>3, DutiesMove
  <2>2. \A t \in Staff : Dispatch(t, m)' => Dispatch(t, m)
    BY <1>3, DutiesMove
  <2>3. \A t \in Staff : Turn(t, m)' /\ (On(t, "classify")' \/ On(t, "reply")')
                            => On(t, "classify") \/ On(t, "reply")
    BY <1>3, DutiesMove DEF TurnSteps, On
  <2>4. QED
    BY <1>0, <1>3, <2>1, <2>2, <2>3, TurnsAlone
<1>4. /\ ~TurnOf(OffDuty, m) /\ ~DispatchOf(OffDuty, m)
      /\ \A step, n : Duty(step, n).step = step /\ Duty(step, n).msg = n
      /\ ~TurnOf(Duty("escalate", Nobody), m) /\ ~DispatchOf(Duty("escalate", Nobody), m)
  BY <1>1 DEF TurnOf, DispatchOf, OffDuty, Duty
<1>5. ASSUME NEW s \in Staff, NEW n \in Inbound, receiveInbound(s, n)
      PROVE  TurnInv(m)'
  BY <1>3, <1>4, <1>5, DutyTyped DEF receiveInbound, turns, TurnOf, DispatchOf
<1>6. ASSUME NEW s \in Staff, InsertInbound(s)
      PROVE  TurnInv(m)'
  <2>1. /\ UNCHANGED <<enqueued, waiting, runs, replies>>
        /\ m \in inbox => m \in inbox'
        /\ Msg(s) \in Inbound /\ Msg(s) \in inbox' /\ On(s, "insert")
    BY <1>6, DutyShape DEF InsertInbound
  <2>2. CASE Assign(s, OffDuty)
    BY <1>3, <1>4, <2>1, <2>2, DutyTyped
  <2>3. CASE Assign(s, Duty("dispatch", Msg(s))) /\ Msg(s) \notin inbox
    <3> DEFINE duty == Duty("dispatch", Msg(s))
    <3>1. duty \in Duties /\ duty.step = "dispatch" /\ duty.msg = Msg(s)
      BY <1>4, <2>1, DutyTyped
    <3>2. ~TurnOf(duty, m)
      BY <3>1 DEF TurnOf
    <3>3. CASE Msg(s) # m
      <4>1. ~DispatchOf(duty, m)
        BY <3>1, <3>3 DEF DispatchOf
      <4> HIDE DEF duty
      <4>2. Assign(s, duty)
        BY <2>3 DEF duty
      <4>3. QED
        BY <1>3, <2>1, <3>1, <3>2, <4>1, <4>2
    <3>4. CASE Msg(s) = m
      <4>1. m \notin inbox /\ m \in inbox' /\ enqueued[m] = 0
        BY <1>0, <2>1, <2>3, <3>4 DEF TurnInv
      <4>2. \A t \in Staff : ~Turn(t, m) /\ ~Dispatch(t, m)
        BY <1>0, <4>1 DEF TurnInv
      <4> HIDE DEF duty
      <4>3. Assign(s, duty)
        BY <2>3 DEF duty
      <4>4. \A t \in Staff : ~Turn(t, m)' /\ (Dispatch(t, m)' => t = s)
        BY <3>1, <3>2, <4>2, <4>3, DutiesMove
      <4>5. enqueued'[m] = 0 /\ waiting'[m] = 0 /\ runs'[m] = 0 /\ replies'[m] = 0
        BY <1>0, <2>1, <4>1 DEF TurnInv
      <4>6. QED
        BY <1>1, <4>1, <4>4, <4>5 DEF TurnInv
    <3>5. QED
      BY <3>3, <3>4
  <2>4. QED
    BY <1>6, <2>2, <2>3 DEF InsertInbound
<1>7. ASSUME NEW s \in Staff, dispatchTurn(s)
      PROVE  TurnInv(m)'
  <2>1. Assign(s, OffDuty) /\ Msg(s) \in Inbound /\ UNCHANGED <<inbox, runs, replies>>
    BY <1>7, DutyShape DEF dispatchTurn
  <2>2. CASE Msg(s) # m \/ UNCHANGED <<enqueued, waiting>>
    <3>1. enqueued'[m] = enqueued[m] /\ waiting'[m] = waiting[m]
      BY <1>1, <1>7, <2>1, <2>2 DEF dispatchTurn
    <3>2. QED
      BY <1>3, <1>4, <2>1, <3>1, DutyTyped
  <2>3. CASE Msg(s) = m /\ enqueued' = [enqueued EXCEPT ![Msg(s)] = @ + 1]
             /\ waiting' = [waiting EXCEPT ![Msg(s)] = @ + 1]
    <3>1. Dispatch(s, m)
      BY <1>7, <2>3 DEF dispatchTurn, Dispatch
    <3>2. m \in inbox /\ enqueued[m] = 0 /\ \A t \in Staff : Dispatch(t, m) => t = s
      BY <1>0, <3>1 DEF TurnInv
    <3>3. /\ waiting[m] = 0 /\ runs[m] = 0 /\ replies[m] = 0 /\ \A t \in Staff : ~Turn(t, m)
      BY <1>0, <3>2 DEF TurnInv
    <3>4. \A t \in Staff : ~Turn(t, m)' /\ ~Dispatch(t, m)'
      BY <1>4, <2>1, <3>2, <3>3, DutiesMove, DutyTyped
    <3>5. enqueued'[m] = 1 /\ waiting'[m] = 1 /\ runs'[m] = 0 /\ replies'[m] = 0 /\ m \in inbox'
      BY <1>1, <2>1, <2>3, <3>2, <3>3
    <3>6. QED
      BY <1>1, <3>4, <3>5 DEF TurnInv
  <2>4. QED
    BY <1>7, <2>2, <2>3 DEF dispatchTurn
<1>8. ASSUME NEW s \in Staff, NEW n \in Inbound, loadEligibleTurn(s, n)
      PROVE  TurnInv(m)'
  <2>1. PICK duty \in {OffDuty, Duty("classify", n)} : Assign(s, duty)
    BY <1>8 DEF loadEligibleTurn
  <2>2. /\ duty \in Duties /\ ~DispatchOf(duty, m) /\ (n # m => ~TurnOf(duty, m))
        /\ UNCHANGED <<inbox, enqueued, replies>> /\ On(s, "idle") /\ waiting[n] > 0
        /\ waiting' = [waiting EXCEPT ![n] = @ - 1] /\ runs' = [runs EXCEPT ![n] = @ + 1]
    BY <1>4, <1>8, <2>1, DutyTyped DEF loadEligibleTurn, TurnOf, DispatchOf
  <2>3. CASE n # m
    <3>1. waiting'[m] = waiting[m] /\ runs'[m] = runs[m]
      BY <1>1, <2>2, <2>3
    <3>2. QED
      BY <1>3, <2>1, <2>2, <2>3, <3>1
  <2>4. CASE n = m
    <3>1. waiting[m] = 1 /\ waiting'[m] = 0 /\ runs'[m] = runs[m] + 1
      BY <1>0, <1>1, <2>2, <2>4 DEF TurnInv
    <3>2. /\ runs[m] < MaxRuns /\ replies[m] <= runs[m] /\ enqueued[m] = 1
          /\ \A t \in Staff : ~Turn(t, m)
          /\ \A t \in Staff : ~Dispatch(t, m)
      BY <1>0, <3>1 DEF TurnInv
    <3>3. \A t \in Staff : (Turn(t, m)' => t = s) /\ ~Dispatch(t, m)'
      BY <2>1, <2>2, <3>2, DutiesMove
    <3>4. /\ enqueued'[m] = 1 /\ runs'[m] <= MaxRuns /\ replies'[m] < runs'[m]
          /\ replies'[m] <= runs'[m]
      BY <1>1, <2>2, <3>1, <3>2
    <3>5. m \in inbox'
      BY <1>0, <2>2, <3>2 DEF TurnInv
    <3>6. QED
      BY <3>1, <3>3, <3>4, <3>5 DEF TurnInv
  <2>5. QED
    BY <2>3, <2>4
<1>9. ASSUME NEW s \in Staff, SendReply(s)
      PROVE  TurnInv(m)'
  <2>1. /\ Assign(s, Duty("log", Msg(s))) /\ Duty("log", Msg(s)) \in Duties /\ Msg(s) \in Inbound
        /\ On(s, "reply") /\ UNCHANGED <<inbox, enqueued, waiting, runs>>
        /\ replies' = [replies EXCEPT ![Msg(s)] = @ + 1]
    BY <1>9, DutyShape, DutyTyped DEF SendReply
  <2>2. /\ ~DispatchOf(Duty("log", Msg(s)), m)
        /\ TurnOf(Duty("log", Msg(s)), m) => Turn(s, m) /\ Msg(s) = m
        /\ Duty("log", Msg(s)).step \notin TurnSteps
    BY <1>1, <1>4, <2>1 DEF DispatchOf, TurnOf, Turn, InTurn, On, TurnSteps
  <2>3. CASE Msg(s) # m
    <3>1. replies'[m] = replies[m]
      BY <1>1, <2>1, <2>3
    <3>2. QED
      BY <1>3, <2>1, <2>2, <2>3, <3>1
  <2>4. CASE Msg(s) = m
    <3>1. Turn(s, m)
      BY <1>1, <2>1, <2>4 DEF Turn, InTurn, On
    <3>2. /\ replies[m] < runs[m] /\ waiting[m] = 0 /\ enqueued[m] = 1 /\ m \in inbox
          /\ runs[m] <= MaxRuns /\ \A t \in Staff : Turn(t, m) => t = s
          /\ \A t \in Staff : ~Dispatch(t, m)
      BY <1>0, <2>1, <3>1 DEF TurnInv
    <3>3. \A t \in Staff : /\ Turn(t, m)' => t = s
                           /\ ~Dispatch(t, m)'
                           /\ Turn(t, m)' => ~On(t, "classify")' /\ ~On(t, "reply")'
      BY <1>4, <2>1, <2>2, <3>2, DutiesMove
    <3>4. replies'[m] = replies[m] + 1 /\ replies'[m] <= runs'[m] /\ waiting'[m] = 0
          /\ enqueued'[m] = 1 /\ m \in inbox' /\ runs'[m] <= MaxRuns
      BY <1>1, <2>1, <2>4, <3>2
    <3>5. QED
      BY <3>3, <3>4 DEF TurnInv
  <2>5. QED
    BY <2>3, <2>4
<1>10. ASSUME NEW s \in Staff, DutyFails(s)
       PROVE  TurnInv(m)'
  <2>1. /\ Assign(s, OffDuty) /\ UNCHANGED <<inbox, enqueued, runs, replies>> /\ OffDuty \in Duties
        /\ Msg(s) \in Inbound \cup {Nobody}
    BY <1>10, DutyShape, DutyTyped DEF DutyFails
  <2>2. CASE waiting'[m] = waiting[m]
    BY <1>3, <1>4, <2>1, <2>2
  <2>3. CASE waiting'[m] # waiting[m]
    <3>1. /\ InTurn(s) /\ Msg(s) = m /\ runs[m] < MaxRuns * enqueued[m]
          /\ waiting'[m] = waiting[m] + 1
      BY <1>1, <1>10, <2>1, <2>3 DEF DutyFails, InTurn
    <3>2. Turn(s, m)
      BY <3>1 DEF Turn
    <3>3. /\ replies[m] <= runs[m] /\ waiting[m] = 0 /\ enqueued[m] = 1 /\ m \in inbox
          /\ \A t \in Staff : Turn(t, m) => t = s
          /\ \A t \in Staff : ~Dispatch(t, m)
      BY <1>0, <3>2 DEF TurnInv
    <3>4. \A t \in Staff : ~Turn(t, m)' /\ ~Dispatch(t, m)'
      BY <1>4, <2>1, <3>3, DutiesMove
    <3>5. MaxRuns * enqueued[m] = MaxRuns
      BY <1>1, <3>3
    <3>6. /\ runs'[m] < MaxRuns /\ runs'[m] <= MaxRuns /\ replies'[m] <= runs'[m]
          /\ waiting'[m] = 1 /\ enqueued'[m] = 1 /\ m \in inbox'
      BY <1>1, <2>1, <3>1, <3>3, <3>5
    <3>7. QED
      BY <3>4, <3>6 DEF TurnInv
  <2>4. QED
    BY <2>2, <2>3
<1>11. ASSUME NEW s \in Staff,
              processTurn(s) \/ logTurn(s) \/ createEscalation(s) \/ FindOpen(s) \/ SilenceBot(s)
                \/ \E e \in EscalationIds : InsertEscalation(s, e)
       PROVE  TurnInv(m)'
  <2>1. UNCHANGED turns
    BY <1>11 DEF processTurn, logTurn, createEscalation, FindOpen, SilenceBot, InsertEscalation
  <2>2. PICK duty \in Duties : Assign(s, duty)
    BY <1>11, OneDutyMoves DEF StaffStep
  <2>3. staff'[s] = duty
    BY <2>2, AssignTyped
  <2>4. /\ TurnOf(duty, m) => Turn(s, m)
        /\ ~DispatchOf(duty, m)
        /\ TurnOf(duty, m) /\ duty.step \in TurnSteps => staff[s].step \in TurnSteps
    <3>1. \A d \in Duties : Assign(s, d) => d = duty
      BY <2>2, AssignTyped
    <3>2. CASE logTurn(s) \/ createEscalation(s)
      BY <1>4, <3>1, <3>2, DutyTyped DEF logTurn, createEscalation
    <3>3. CASE processTurn(s)
      <4>1. Msg(s) \in Inbound /\ On(s, "classify")
        BY <3>3, DutyShape DEF processTurn
      <4>2. duty \in {OffDuty, Duty("reply", Msg(s)), Duty("escalate", Msg(s))}
        BY <3>1, <3>3, <4>1, DutyTyped DEF processTurn
      <4>3. QED
        BY <1>1, <1>4, <4>1, <4>2 DEF TurnOf, DispatchOf, Turn, InTurn, On, TurnSteps
    <3>4. CASE FindOpen(s) \/ SilenceBot(s) \/ \E e \in EscalationIds : InsertEscalation(s, e)
      <4>1. /\ Msg(s) \in Inbound \cup {Nobody}
            /\ On(s, "escalate") \/ On(s, "silence") \/ On(s, "open")
        BY <3>4, DutyShape DEF FindOpen, SilenceBot, InsertEscalation, On
      <4>2. duty \in {Duty("open", Msg(s)), Duty("log", Msg(s)), Duty("silence", Msg(s))}
        BY <3>1, <3>4, <4>1, DutyTyped DEF FindOpen, SilenceBot, InsertEscalation
      <4>3. QED
        BY <1>1, <1>4, <4>1, <4>2 DEF TurnOf, DispatchOf, Turn, InTurn, On, TurnSteps
    <3>5. QED
      BY <1>11, <3>2, <3>3, <3>4
  <2>5. QED
    BY <1>3, <2>1, <2>2, <2>4 DEF turns
<1>12. ASSUME NEW s \in Staff, StaffStep(s)
       PROVE  TurnInv(m)'
  BY <1>5, <1>6, <1>7, <1>8, <1>9, <1>10, <1>11, <1>12 DEF StaffStep
<1>13. CASE (\E e \in EscalationIds : resolve(e)) \/ (\E t \in Threads : Agent(t))
            \/ UNCHANGED responderVars
  <2>1. UNCHANGED <<staff, turns>>
    BY <1>13 DEF resolve, Agent, responderVars, turns
  <2>2. QED
    BY <1>2, <2>1
<1>14. QED
  BY <1>12, <1>13 DEF ResponderNext

\* However often a provider repeats a callback, the bot answers its message at most once for
\* each run BullMQ gives the message's one job.
THEOREM RepliesCorrect == ResponderSpec => []RepliesBounded
<1>1. ResponderTypeOK /\ TurnsInv => RepliesBounded
  <2> SUFFICES ASSUME ResponderTypeOK, TurnsInv, NEW m \in Inbound PROVE replies[m] <= MaxRuns
    BY DEF RepliesBounded
  <2>1. replies[m] \in Nat /\ runs[m] \in Nat /\ MaxRuns \in Nat
    BY ResponderAssumption DEF ResponderTypeOK
  <2>2. replies[m] <= runs[m] /\ runs[m] <= MaxRuns
    BY DEF TurnsInv, TurnInv
  <2>3. QED
    BY <2>1, <2>2
<1>2. QED
  BY <1>1, TurnsInit, TurnsStep, ResponderTypeCorrect, PTL DEF ResponderSpec

-----------------------------------------------------------------------------
(* Hand-off.                                                               *)

LEMMA SilenceStep ==
  ResponderTypeOK /\ HandOffSilencesBot /\ [ResponderNext]_responderVars => HandOffSilencesBot'
<1> SUFFICES ASSUME ResponderTypeOK, HandOffSilencesBot, [ResponderNext]_responderVars,
                    OpenRows' # {}, ~reenabled', ~cut', \A s \in Staff : ~On(s, "silence")'
             PROVE  ~botActive'
  BY DEF HandOffSilencesBot
<1>1. CASE UNCHANGED responderVars
  BY <1>1 DEF responderVars, HandOffSilencesBot, OpenRows, On, botActive
<1>2. ASSUME NEW s \in Staff, SilenceBot(s)
      PROVE  ~botActive'
  BY <1>2 DEF SilenceBot, botActive
<1>3. ASSUME NEW s \in Staff, NEW e \in EscalationIds, InsertEscalation(s, e)
      PROVE  ~botActive'
  <2>1. Assign(s, Duty("silence", Msg(s)))
    BY <1>3 DEF InsertEscalation
  <2>2. staff'[s].step = "silence"
    BY <2>1 DEF Assign, Duty, ResponderTypeOK
  <2>3. QED
    BY <2>2 DEF On
<1>4. ASSUME NEW s \in Staff, StaffStep(s), ~SilenceBot(s),
             ~\E e \in EscalationIds : InsertEscalation(s, e)
      PROVE  ~botActive'
  <2>1. UNCHANGED <<thread, escalation, reenabled>>
    BY <1>4 DEF StaffStep, InsertInbound, dispatchTurn, processTurn, SendReply, logTurn,
                createEscalation, FindOpen, DutyFails, receiveInbound, loadEligibleTurn, handoff
  <2>2. ~cut /\ ~On(s, "silence")
    <3>1. CASE DutyFails(s)
      <4>1. cut' = (cut \/ On(s, "silence"))
        BY <3>1 DEF DutyFails
      <4>2. QED
        BY <4>1, Zenon
    <3>2. CASE ~DutyFails(s)
      BY <1>4, <3>2
         DEF StaffStep, InsertInbound, dispatchTurn, processTurn, SendReply, logTurn,
             createEscalation, FindOpen, receiveInbound, loadEligibleTurn, handoff, On
    <3>3. QED
      BY <3>1, <3>2
  <2>3. \A t \in Staff : t # s => staff'[t] = staff[t]
    BY <1>4, OneDutyMoves, AssignTyped
  <2>4. \A t \in Staff : ~On(t, "silence")
    BY <2>2, <2>3 DEF On
  <2>5. OpenRows # {} /\ ~reenabled
    BY <2>1 DEF OpenRows
  <2>6. QED
    BY <2>1, <2>2, <2>4, <2>5 DEF HandOffSilencesBot, botActive
<1>5. ASSUME NEW e \in EscalationIds, resolve(e)
      PROVE  ~botActive'
  <2>1. OpenRows # {}
    BY <1>5 DEF resolve, OpenRows, ResponderTypeOK
  <2>2. QED
    BY <1>5, <2>1 DEF resolve, turns, HandOffSilencesBot, On, botActive
<1>6. ASSUME NEW t \in Threads, Agent(t)
      PROVE  ~botActive'
  BY <1>6 DEF Agent, botActive
<1>7. QED
  BY <1>1, <1>2, <1>3, <1>4, <1>5, <1>6 DEF ResponderNext

\* While an escalation is open the bot is silent, unless an agent gave the thread back or a
\* call died between the escalation's row and the thread.
THEOREM HandOffCorrect == ResponderSpec => []HandOffSilencesBot
<1>1. ResponderInit => HandOffSilencesBot
  BY DEF ResponderInit, HandOffSilencesBot, OpenRows
<1>2. QED
  BY <1>1, SilenceStep, ResponderTypeCorrect, PTL DEF ResponderSpec

-----------------------------------------------------------------------------
(* Outbound messages.                                                      *)

OutStatuses == {"none", "QUEUED", "SENT", "FAILED", "deleted"}
JobSteps == {"none", "waiting", "calling", "accepted", "rejected", "written"}

LEMMA JobTyped ==
  ASSUME OutboundTypeOK, NEW m \in OutMsgs, NEW step \in JobSteps, NEW body \in Bodies,
         Job(m, JobFrame(step, body))
  PROVE  sendJob' \in [OutMsgs -> [step : JobSteps, body : Bodies]]
BY DEF OutboundTypeOK, Job, JobFrame, JobSteps

LEMMA RetryTyped ==
  ASSUME OutboundTypeOK, NEW m \in OutMsgs, Retry(m) \/ Job(m, NoJob) \/ UNCHANGED sendJob
  PROVE  sendJob' \in [OutMsgs -> [step : JobSteps, body : Bodies]]
<1>1. "draft" \in Bodies /\ "none" \in JobSteps /\ "waiting" \in JobSteps
  BY DEF Bodies, JobSteps
<1>2. CASE UNCHANGED sendJob
  BY <1>2 DEF OutboundTypeOK, JobSteps
<1>3. QED
  BY <1>1, <1>2, JobTyped DEF Retry, NoJob

LEMMA SendFaultTyped ==
  ASSUME OutboundTypeOK, SendFault \/ UNCHANGED sendFaults
  PROVE  sendFaults' \in 0 .. MaxSendFaults
BY OutboundAssumption DEF OutboundTypeOK, SendFault

LEMMA RowsOf ==
  ASSUME OutboundTypeOK, NEW m \in OutMsgs
  PROVE  /\ outMsg[m].status \in OutStatuses /\ outMsg[m].body \in Bodies
         /\ sendJob[m].step \in JobSteps /\ sendJob[m].body \in Bodies
         /\ accepted[m] \in Nat /\ sendFaults \in Nat
BY DEF OutboundTypeOK, OutStatuses, JobSteps

\* A row that a statement writes.
LEMMA OutRowTyped ==
  ASSUME OutboundTypeOK, NEW m \in OutMsgs,
         \/ outMsg' = outMsg
         \/ \E st \in OutStatuses : outMsg' = [outMsg EXCEPT ![m].status = st]
         \/ \E body \in Bodies : outMsg' = [outMsg EXCEPT ![m].body = body]
  PROVE  /\ outMsg' \in [OutMsgs -> [status : OutStatuses, body : Bodies]]
         /\ \A st : outMsg' = [outMsg EXCEPT ![m].status = st] =>
              outMsg'[m].status = st /\ outMsg'[m].body = outMsg[m].body
         /\ \A body : outMsg' = [outMsg EXCEPT ![m].body = body] =>
              outMsg'[m].status = outMsg[m].status
<1>1. outMsg \in [OutMsgs -> [status : OutStatuses, body : Bodies]]
  BY DEF OutboundTypeOK, OutStatuses
<1>2. CASE outMsg' = outMsg
  BY <1>1, <1>2
<1>3. ASSUME NEW st \in OutStatuses, outMsg' = [outMsg EXCEPT ![m].status = st]
      PROVE  outMsg' \in [OutMsgs -> [status : OutStatuses, body : Bodies]]
  BY <1>1, <1>3
<1>4. ASSUME NEW body \in Bodies, outMsg' = [outMsg EXCEPT ![m].body = body]
      PROVE  outMsg' \in [OutMsgs -> [status : OutStatuses, body : Bodies]]
  BY <1>1, <1>4
<1>5. outMsg' \in [OutMsgs -> [status : OutStatuses, body : Bodies]]
  BY <1>2, <1>3, <1>4
<1>6. QED
  BY <1>1, <1>5

LEMMA OutboundTypeStep == OutboundTypeOK /\ [OutboundNext]_outboundVars => OutboundTypeOK'
<1> SUFFICES ASSUME OutboundTypeOK, [OutboundNext]_outboundVars PROVE OutboundTypeOK'
  OBVIOUS
<1>0. "draft" \in Bodies /\ "edited" \in Bodies
  BY DEF Bodies
<1>1. CASE UNCHANGED outboundVars
  BY <1>1 DEF outboundVars, OutboundTypeOK
<1>2. ASSUME NEW m \in OutMsgs,
             send(m) \/ ReadMessage(m) \/ ProviderAccepts(m) \/ ProviderRejects(m)
               \/ WriteVerdict(m) \/ JobEnds(m) \/ JobCut(m)
      PROVE  OutboundTypeOK'
  <2>1. sendJob' \in [OutMsgs -> [step : JobSteps, body : Bodies]]
    <3>1. CASE send(m) \/ JobEnds(m) \/ JobCut(m)
      BY <3>1, RetryTyped DEF send, JobEnds, JobCut
    <3>2. CASE ReadMessage(m)
      BY <3>2, RetryTyped, JobTyped, RowsOf DEF ReadMessage, JobSteps
    <3>3. CASE ProviderAccepts(m) \/ ProviderRejects(m)
      BY <3>3, RetryTyped, JobTyped, RowsOf DEF ProviderAccepts, ProviderRejects, JobSteps
    <3>4. CASE WriteVerdict(m)
      BY <1>0, <3>4, RetryTyped, JobTyped DEF WriteVerdict, JobSteps
    <3>5. QED
      BY <1>2, <3>1, <3>2, <3>3, <3>4
  <2>2. sendFaults' \in 0 .. MaxSendFaults
    <3>1. SendFault \/ UNCHANGED sendFaults
      BY <1>2 DEF send, ReadMessage, ProviderAccepts, ProviderRejects, WriteVerdict, JobEnds, JobCut
    <3>2. QED
      BY <3>1, SendFaultTyped
  <2>3. outMsg' \in [OutMsgs -> [status : OutStatuses, body : Bodies]]
    <3>1. outMsg' = outMsg \/ \E st \in OutStatuses : outMsg' = [outMsg EXCEPT ![m].status = st]
      <4>1. CASE send(m)
        BY <4>1 DEF send, OutStatuses
      <4>2. CASE WriteVerdict(m)
        BY <4>2 DEF WriteVerdict, OutStatuses
      <4>3. CASE ReadMessage(m) \/ ProviderAccepts(m) \/ ProviderRejects(m) \/ JobEnds(m) \/ JobCut(m)
        BY <4>3 DEF ReadMessage, ProviderAccepts, ProviderRejects, JobEnds, JobCut
      <4>4. QED
        BY <1>2, <4>1, <4>2, <4>3
    <3>2. QED
      BY <3>1, OutRowTyped
  <2>4. received' \in [OutMsgs -> Bodies \cup {"none"}] /\ accepted' \in [OutMsgs -> Nat]
    <3>1. CASE ProviderAccepts(m)
      BY <3>1, RowsOf DEF ProviderAccepts, OutboundTypeOK
    <3>2. CASE send(m) \/ ReadMessage(m) \/ ProviderRejects(m) \/ WriteVerdict(m) \/ JobEnds(m)
               \/ JobCut(m)
      BY <3>2 DEF send, ReadMessage, ProviderRejects, WriteVerdict, JobEnds, JobCut, OutboundTypeOK
    <3>3. QED
      BY <1>2, <3>1, <3>2
  <2>5. meddled' \subseteq OutMsgs /\ editor' = editor
    BY <1>2 DEF send, ReadMessage, ProviderAccepts, ProviderRejects, WriteVerdict, JobEnds,
                JobCut, OutboundTypeOK
  <2>6. QED
    BY <2>1, <2>2, <2>3, <2>4, <2>5 DEF OutboundTypeOK, JobSteps, OutStatuses
<1>3. ASSUME NEW e \in Editors, NEW m \in OutMsgs, updateMessage(e, m) \/ removeMessage(e, m)
      PROVE  OutboundTypeOK'
  BY <1>3 DEF updateMessage, removeMessage, BeginEdit, Edit, OutboundTypeOK
<1>4. ASSUME NEW e \in Editors, CommitEdit(e)
      PROVE  OutboundTypeOK'
  <2>1. editor[e].msg \in OutMsgs
    BY <1>4 DEF CommitEdit, OutboundTypeOK
  <2>2. editor' \in [Editors -> [step : {"idle", "edit", "delete"}, msg : OutMsgs \cup {NoMsg}]]
    BY <1>4 DEF CommitEdit, NoEdit, Edit, OutboundTypeOK
  <2>3. outMsg' \in [OutMsgs -> [status : OutStatuses, body : Bodies]]
    BY <1>4, <2>1, OutRowTyped DEF CommitEdit, OutStatuses
  <2>3a. meddled' \subseteq OutMsgs
    BY <1>4, <2>1 DEF CommitEdit, OutboundTypeOK
  <2>4. QED
    BY <1>4, <2>2, <2>3, <2>3a DEF CommitEdit, OutStatuses, OutboundTypeOK
<1>5. QED
  BY <1>1, <1>2, <1>3, <1>4 DEF OutboundNext

LEMMA OutboundTypeInit == OutboundInit => OutboundTypeOK
  BY OutboundAssumption
     DEF OutboundInit, OutboundTypeOK, Bodies, NoJob, JobFrame, NoEdit, Edit

\* Rows, jobs and agent calls keep the shapes the code gives them.
THEOREM OutboundTypeCorrect == OutboundSpec => []OutboundTypeOK
  BY OutboundTypeInit, OutboundTypeStep, PTL DEF OutboundSpec

-----------------------------------------------------------------------------
(* What is known of one message.  A job that is past its read works on a   *)
(* row that is not SENT, and until the provider accepts, a fault pays for  *)
(* every earlier acceptance.  A job back in the queue either finds such a  *)
(* row or one that ends it.                                                *)

Ended(m) == outMsg[m].status \in {"SENT", "deleted"}

AcceptInv(m) ==
  /\ accepted[m] <= 1 + sendFaults
  /\ outMsg[m].status = "none" => accepted[m] = 0 /\ InJob(m, "none")
  /\ Running(m) => outMsg[m].status # "SENT"
  /\ InJob(m, "calling") \/ InJob(m, "rejected") => accepted[m] <= sendFaults
  /\ InJob(m, "waiting") => Ended(m) \/ accepted[m] <= sendFaults
  /\ InJob(m, "written") => Ended(m)

\* What is in flight, at WhatsApp and on a SENT row is one text.
StoredInv(m) ==
  m \notin meddled =>
    /\ (InJob(m, "calling") \/ InJob(m, "accepted")) /\ Exists(m)
         => sendJob[m].body = outMsg[m].body
    /\ InJob(m, "accepted") => received[m] = sendJob[m].body
    /\ outMsg[m].status = "SENT" => /\ outMsg[m].body = received[m]
                                    /\ \A e \in Editors : editor[e].msg # m

OutInv == \A m \in OutMsgs : AcceptInv(m) /\ StoredInv(m)

LEMMA OutInit == OutboundInit => OutInv
<1> SUFFICES ASSUME OutboundInit, NEW m \in OutMsgs PROVE AcceptInv(m) /\ StoredInv(m)
  BY DEF OutInv
<1>1. /\ accepted[m] = 0 /\ sendFaults = 0 /\ outMsg[m].status = "none"
      /\ sendJob[m].step = "none"
  BY DEF OutboundInit, NoJob, JobFrame
<1>2. QED
  BY <1>1 DEF AcceptInv, StoredInv, InJob, Running, Ended

\* A step that leaves a message, its job and its editors alone keeps what is known of it.
LEMMA OutAlone ==
  ASSUME OutboundTypeOK, NEW m \in OutMsgs, AcceptInv(m), StoredInv(m),
         outMsg'[m] = outMsg[m], sendJob'[m] = sendJob[m], received'[m] = received[m],
         accepted'[m] = accepted[m], m \in meddled => m \in meddled',
         sendFaults' = sendFaults \/ sendFaults' = sendFaults + 1,
         (\A e \in Editors : editor'[e].msg = m => editor[e].msg = m) \/ outMsg[m].status # "SENT"
  PROVE  AcceptInv(m)' /\ StoredInv(m)'
<1>1. accepted[m] \in Nat /\ sendFaults \in Nat
  BY RowsOf
<1>2. AcceptInv(m)'
  <2>1. /\ accepted'[m] <= 1 + sendFaults'
        /\ accepted[m] <= sendFaults => accepted'[m] <= sendFaults'
    BY <1>1 DEF AcceptInv
  <2>2. QED
    BY <2>1 DEF AcceptInv, InJob, Running, Ended
<1>3. StoredInv(m)'
  BY DEF StoredInv, InJob, Exists
<1>4. QED
  BY <1>2, <1>3

LEMMA OutStep == OutboundTypeOK /\ OutInv /\ [OutboundNext]_outboundVars => OutInv'
<1> SUFFICES ASSUME OutboundTypeOK, OutInv, [OutboundNext]_outboundVars, NEW n \in OutMsgs
             PROVE  AcceptInv(n)' /\ StoredInv(n)'
  BY DEF OutInv
<1>0. AcceptInv(n) /\ StoredInv(n) /\ accepted[n] \in Nat /\ sendFaults \in Nat
  BY RowsOf DEF OutInv
<1>1. CASE UNCHANGED outboundVars
  BY <1>0, <1>1, OutAlone DEF outboundVars
<1>2. ASSUME NEW m \in OutMsgs,
             send(m) \/ ReadMessage(m) \/ ProviderAccepts(m) \/ ProviderRejects(m)
               \/ WriteVerdict(m) \/ JobEnds(m) \/ JobCut(m)
      PROVE  AcceptInv(n)' /\ StoredInv(n)'
  <2>1. /\ sendFaults' = sendFaults \/ sendFaults' = sendFaults + 1
        /\ editor' = editor
        /\ \A x \in OutMsgs : x \in meddled => x \in meddled'
    BY <1>2 DEF send, ReadMessage, ProviderAccepts, ProviderRejects, WriteVerdict, JobEnds,
                JobCut, SendFault
  <2>2. CASE n # m
    <3>1. /\ outMsg'[n] = outMsg[n] /\ sendJob'[n] = sendJob[n]
          /\ received'[n] = received[n] /\ accepted'[n] = accepted[n]
      BY <1>2, <2>2
         DEF send, ReadMessage, ProviderAccepts, ProviderRejects, WriteVerdict, JobEnds, JobCut,
             Job, Retry, OutboundTypeOK
    <3>2. QED
      BY <1>0, <2>1, <3>1, OutAlone
  <2>3. CASE n = m
    <3>0. /\ outMsg \in [OutMsgs -> [status : OutStatuses, body : Bodies]]
          /\ sendJob \in [OutMsgs -> [step : JobSteps, body : Bodies]]
          /\ received \in [OutMsgs -> Bodies \cup {"none"}] /\ accepted \in [OutMsgs -> Nat]
      BY DEF OutboundTypeOK, OutStatuses, JobSteps
    <3>1. /\ \A frame : Job(n, frame) => sendJob'[n] = frame
          /\ Retry(n) => sendJob'[n].step = "waiting"
          /\ NoJob.step = "none"
          /\ \A step, body : JobFrame(step, body).step = step /\ JobFrame(step, body).body = body
      BY <3>0 DEF Job, Retry, JobFrame, NoJob
    <3>2. CASE send(n)
      <4>1. /\ outMsg'[n].status = "QUEUED" /\ accepted'[n] = accepted[n] /\ accepted[n] = 0
            /\ sendJob'[n].step \in {"none", "waiting"}
        BY <1>0, <2>1, <3>0, <3>1, <3>2 DEF send, AcceptInv, InJob
      <4>2. accepted'[n] <= sendFaults' /\ accepted'[n] <= 1 + sendFaults'
        BY <1>0, <2>1, <4>1
      <4>3. AcceptInv(n)'
        BY <4>1, <4>2 DEF AcceptInv, InJob, Running, Ended
      <4>4. StoredInv(n)'
        BY <4>1 DEF StoredInv, InJob
      <4>5. QED
        BY <4>3, <4>4
    <3>3. CASE ReadMessage(n)
      <4>1. /\ outMsg' = outMsg /\ accepted' = accepted /\ sendFaults' = sendFaults
            /\ received' = received /\ meddled' = meddled
            /\ sendJob[n].step = "waiting"
        BY <3>3 DEF ReadMessage, InJob
      <4>2. CASE Exists(n) /\ outMsg[n].status # "SENT"
        <5>1. sendJob'[n].step = "calling" /\ sendJob'[n].body = outMsg[n].body
          BY <3>1, <3>3, <4>2 DEF ReadMessage
        <5>2. accepted[n] <= sendFaults
          BY <1>0, <4>1, <4>2 DEF AcceptInv, InJob, Ended, Exists
        <5>3. QED
          BY <1>0, <2>1, <4>1, <4>2, <5>1, <5>2
             DEF AcceptInv, StoredInv, InJob, Running, Ended, Exists
      <4>3. CASE ~(Exists(n) /\ outMsg[n].status # "SENT")
        <5>1. sendJob'[n].step = "none"
          BY <3>1, <3>3, <4>3 DEF ReadMessage
        <5>2. QED
          BY <1>0, <2>1, <4>1, <5>1 DEF AcceptInv, StoredInv, InJob, Running, Ended, Exists
      <4>4. QED
        BY <4>2, <4>3
    <3>4. CASE ProviderAccepts(n)
      <4>1. /\ outMsg' = outMsg /\ meddled' = meddled /\ sendJob[n].step = "calling"
            /\ accepted'[n] = accepted[n] + 1 /\ received'[n] = sendJob[n].body
        BY <3>0, <3>4 DEF ProviderAccepts, InJob
      <4>2. /\ accepted[n] <= sendFaults /\ outMsg[n].status \notin {"none", "SENT"}
            /\ n \notin meddled /\ Exists(n) => sendJob[n].body = outMsg[n].body
        BY <1>0, <4>1 DEF AcceptInv, StoredInv, InJob, Running
      <4>3. CASE Job(n, JobFrame("accepted", sendJob[n].body)) /\ UNCHANGED sendFaults
        <5>1. sendJob'[n].step = "accepted" /\ sendJob'[n].body = sendJob[n].body
          BY <3>1, <4>3
        <5>2. accepted'[n] <= 1 + sendFaults'
          BY <1>0, <4>1, <4>2, <4>3
        <5>3. QED
          BY <4>1, <4>2, <5>1, <5>2
             DEF AcceptInv, StoredInv, InJob, Running, Ended, Exists
      <4>4. CASE SendFault /\ Retry(n)
        <5>1. sendJob'[n].step = "waiting"
          BY <3>1, <4>4
        <5>2. accepted'[n] <= sendFaults' /\ accepted'[n] <= 1 + sendFaults'
          BY <1>0, <4>1, <4>2, <4>4 DEF SendFault
        <5>3. QED
          BY <4>1, <4>2, <5>1, <5>2
             DEF AcceptInv, StoredInv, InJob, Running, Ended, Exists
      <4>5. QED
        BY <3>4, <4>3, <4>4 DEF ProviderAccepts
    <3>5. CASE ProviderRejects(n)
      <4>1. /\ outMsg' = outMsg /\ accepted' = accepted /\ sendFaults' = sendFaults
            /\ received' = received /\ meddled' = meddled
            /\ sendJob[n].step = "calling" /\ sendJob'[n].step = "rejected"
        BY <3>1, <3>5 DEF ProviderRejects, InJob
      <4>2. QED
        BY <1>0, <2>1, <4>1 DEF AcceptInv, StoredInv, InJob, Running, Ended, Exists
    <3>6. CASE WriteVerdict(n)
      <4>1. /\ accepted' = accepted /\ sendFaults' = sendFaults /\ received' = received
            /\ sendJob[n].step \in {"accepted", "rejected"}
            /\ n \in meddled => n \in meddled'
            /\ n \notin meddled' => \A e \in Editors : editor[e].msg # n
        BY <3>6 DEF WriteVerdict
      <4>2. CASE ~Exists(n)
        <5>1. outMsg' = outMsg /\ sendJob'[n].step = "waiting"
          BY <3>1, <3>6, <4>2 DEF WriteVerdict
        <5>2. outMsg[n].status = "deleted"
          BY <1>0, <4>1, <4>2 DEF AcceptInv, InJob, Exists
        <5>3. QED
          BY <1>0, <4>1, <5>1, <5>2 DEF AcceptInv, StoredInv, InJob, Running, Ended, Exists
      <4>3. CASE Exists(n) /\ sendJob[n].step = "accepted"
        <5>1. /\ outMsg'[n].status = "SENT" /\ outMsg'[n].body = outMsg[n].body
              /\ sendJob'[n].step = "written"
          BY <3>0, <3>1, <3>6, <4>3 DEF WriteVerdict, InJob
        <5>2. n \notin meddled' => outMsg[n].body = received[n]
          BY <1>0, <4>1, <4>3 DEF StoredInv, InJob
        <5>3. QED
          BY <1>0, <2>1, <4>1, <5>1, <5>2 DEF AcceptInv, StoredInv, InJob, Running, Ended, Exists
      <4>4. CASE Exists(n) /\ sendJob[n].step = "rejected"
        <5>1. outMsg'[n].status = "FAILED" /\ sendJob'[n].step = "waiting"
          BY <3>0, <3>1, <3>6, <4>4 DEF WriteVerdict, InJob
        <5>2. accepted[n] <= sendFaults
          BY <1>0, <4>4 DEF AcceptInv, InJob
        <5>3. QED
          BY <1>0, <4>1, <5>1, <5>2 DEF AcceptInv, StoredInv, InJob, Running, Ended, Exists
      <4>5. QED
        BY <4>1, <4>2, <4>3, <4>4
    <3>7. CASE JobEnds(n)
      <4>1. /\ outMsg' = outMsg /\ accepted' = accepted /\ sendFaults' = sendFaults
            /\ received' = received /\ meddled' = meddled
            /\ sendJob[n].step = "written" /\ sendJob'[n].step \in {"none", "waiting"}
        BY <3>1, <3>7 DEF JobEnds, InJob
      <4>2. QED
        BY <1>0, <2>1, <4>1 DEF AcceptInv, StoredInv, InJob, Running, Ended, Exists
    <3>8. CASE JobCut(n)
      <4>1. /\ outMsg' = outMsg /\ accepted' = accepted /\ sendFaults' = sendFaults + 1
            /\ received' = received /\ meddled' = meddled
            /\ sendJob[n].step # "none" /\ sendJob'[n].step \in {"none", "waiting"}
        BY <3>1, <3>8 DEF JobCut, SendFault
      <4>2. /\ accepted'[n] <= sendFaults' /\ accepted'[n] <= 1 + sendFaults'
            /\ outMsg[n].status # "none"
        BY <1>0, <4>1 DEF AcceptInv, InJob
      <4>3. QED
        BY <1>0, <2>1, <4>1, <4>2 DEF AcceptInv, StoredInv, InJob, Running, Ended, Exists
    <3>9. QED
      BY <1>2, <2>3, <3>2, <3>3, <3>4, <3>5, <3>6, <3>7, <3>8
  <2>4. QED
    BY <2>2, <2>3
<1>3. ASSUME NEW e \in Editors, NEW m \in OutMsgs, updateMessage(e, m) \/ removeMessage(e, m)
      PROVE  AcceptInv(n)' /\ StoredInv(n)'
  <2>1. /\ UNCHANGED <<outMsg, sendJob, received, accepted, meddled, sendFaults>>
        /\ outMsg[m].status # "SENT"
        /\ \A x \in Editors : editor'[x].msg \in {editor[x].msg, m}
    BY <1>3 DEF updateMessage, removeMessage, BeginEdit, Edit, OutboundTypeOK
  <2>2. (\A x \in Editors : editor'[x].msg = n => editor[x].msg = n) \/ outMsg[n].status # "SENT"
    BY <2>1
  <2>3. QED
    BY <1>0, <2>1, <2>2, OutAlone
<1>4. ASSUME NEW e \in Editors, CommitEdit(e)
      PROVE  AcceptInv(n)' /\ StoredInv(n)'
  <2>0. PICK m \in OutMsgs : m = editor[e].msg
    BY <1>4 DEF CommitEdit, OutboundTypeOK
  <2>1. /\ UNCHANGED <<sendJob, received, accepted, sendFaults>>
        /\ \A x \in Editors : editor'[x].msg = n => editor[x].msg = n
        /\ n \in meddled => n \in meddled'
    <3>1. \A x \in Editors : editor'[x] = NoEdit \/ editor'[x] = editor[x]
      BY <1>4 DEF CommitEdit, OutboundTypeOK
    <3>2. NoEdit.msg # n
      BY OutboundAssumption DEF NoEdit, Edit
    <3>3. QED
      BY <1>4, <3>1, <3>2 DEF CommitEdit
  <2>2. CASE n # m \/ ~Exists(m)
    <3>1. outMsg'[n] = outMsg[n]
      BY <1>4, <2>0, <2>2 DEF CommitEdit, OutboundTypeOK
    <3>2. QED
      BY <1>0, <2>1, <3>1, OutAlone
  <2>3. CASE n = m /\ Exists(m)
    <3>1. outMsg'[n].status = outMsg[n].status \/ outMsg'[n].status = "deleted"
      <4>1. \/ \E body \in Bodies : outMsg' = [outMsg EXCEPT ![n].body = body]
            \/ outMsg' = [outMsg EXCEPT ![n].status = "deleted"]
        BY <1>4, <2>0, <2>3 DEF CommitEdit
      <4>2. QED
        BY <4>1, OutRowTyped DEF OutStatuses
    <3>2. n \notin meddled' => n \notin meddled /\ ~Running(n)
      BY <1>4, <2>0, <2>3 DEF CommitEdit
    <3>3. n \notin meddled => outMsg[n].status # "SENT"
      BY <1>0, <2>0, <2>3 DEF StoredInv
    <3>4. AcceptInv(n)'
      BY <1>0, <2>1, <2>3, <3>1 DEF AcceptInv, InJob, Running, Ended, Exists
    <3>5. StoredInv(n)'
      BY <2>1, <3>1, <3>2, <3>3 DEF StoredInv, InJob, Running
    <3>6. QED
      BY <3>4, <3>5
  <2>4. QED
    BY <2>2, <2>3
<1>5. QED
  BY <1>1, <1>2, <1>3, <1>4 DEF OutboundNext

LEMMA OutKnown == OutboundSpec => [](OutboundTypeOK /\ OutInv)
<1>1. OutboundInit => OutboundTypeOK /\ OutInv
  BY OutInit, OutboundTypeInit
<1>2. OutboundTypeOK /\ OutInv /\ [OutboundNext]_outboundVars => OutboundTypeOK' /\ OutInv'
  BY OutStep, OutboundTypeStep
<1>3. QED
  BY <1>1, <1>2, PTL DEF OutboundSpec

\* WhatsApp accepts a message once, and once more only for a fault that hid the first
\* acceptance from the row: a retry of a job that wrote SENT sends nothing.
THEOREM AcceptedOnce == OutboundSpec => []AcceptedBounded
<1>1. OutInv => AcceptedBounded
  BY DEF OutInv, AcceptInv, AcceptedBounded
<1>2. QED
  BY <1>1, OutKnown, PTL

\* A SENT row shows the text WhatsApp received, unless an edit met the running job.
THEOREM SentStored == OutboundSpec => []SentAsStored
<1>1. OutInv => SentAsStored
  BY DEF OutInv, StoredInv, SentAsStored
<1>2. QED
  BY <1>1, OutKnown, PTL
=============================================================================
