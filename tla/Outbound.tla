------------------------------ MODULE Outbound ------------------------------
(***************************************************************************)
(* Outbound messages: messages.service.ts (send, update and remove) and    *)
(* processWhatsappSend() in worker.ts.                                     *)
(*                                                                         *)
(* A message is written QUEUED and its job enqueued.  The job reads the    *)
(* message, hands it to the provider and writes the verdict; it throws on  *)
(* FAILED and when the row is gone, and BullMQ retries it.  An agent may   *)
(* edit or delete a message that the code has not seen SENT: one read, one *)
(* write.  The provider may accept a message and lose its answer.          *)
(***************************************************************************)
EXTENDS Naturals

CONSTANTS
  OutMsgs,       \* messages
  Editors,       \* agent calls in flight
  NoMsg,         \* the message of an editor without one
  MaxSendFaults  \* bound: answers lost, jobs stalled, refused or out of attempts

ASSUME OutboundAssumption == MaxSendFaults \in Nat /\ NoMsg \notin OutMsgs

Bodies == {"draft", "edited"}

VARIABLES
  outMsg,     \* each message's row: status ("none" before, "deleted" after) and body
  sendJob,    \* each message's job: its step and the body it has read
  received,   \* what the provider accepted last, "none" before
  editor,     \* each agent call: its step and message
  accepted,   \* history: times the provider accepted each message
  meddled,    \* history: messages with an edit between its read and its write as their job ran
  sendFaults

outboundVars == <<outMsg, sendJob, received, editor, accepted, meddled, sendFaults>>

JobFrame(step, body) == [step |-> step, body |-> body]
NoJob == JobFrame("none", "draft")
Edit(step, m) == [step |-> step, msg |-> m]
NoEdit == Edit("idle", NoMsg)

OutboundInit ==
  /\ outMsg = [m \in OutMsgs |-> [status |-> "none", body |-> "draft"]]
  /\ sendJob = [m \in OutMsgs |-> NoJob]
  /\ received = [m \in OutMsgs |-> "none"]
  /\ editor = [e \in Editors |-> NoEdit]
  /\ accepted = [m \in OutMsgs |-> 0]
  /\ meddled = {}
  /\ sendFaults = 0

SendFault == sendFaults < MaxSendFaults /\ sendFaults' = sendFaults + 1
Exists(m) == outMsg[m].status \notin {"none", "deleted"}
Job(m, frame) == sendJob' = [sendJob EXCEPT ![m] = frame]
Retry(m) == Job(m, JobFrame("waiting", "draft"))
InJob(m, step) == sendJob[m].step = step
Running(m) == sendJob[m].step \in {"calling", "accepted", "rejected"}

-----------------------------------------------------------------------------
\* send() writes the row; safeAdd() may drop its job.
send(m) ==
  /\ outMsg[m].status = "none"
  /\ outMsg' = [outMsg EXCEPT ![m].status = "QUEUED"]
  /\ \/ Retry(m) /\ UNCHANGED sendFaults
     \/ SendFault /\ UNCHANGED sendJob
  /\ UNCHANGED <<received, editor, accepted, meddled>>

ReadAnyStatus(m) ==                                            \* mutant
  /\ InJob(m, "waiting")
  /\ Job(m, IF Exists(m) THEN JobFrame("calling", outMsg[m].body) ELSE NoJob)
  /\ UNCHANGED <<outMsg, received, editor, accepted, meddled, sendFaults>>
\* "Idempotent replay: already handed to the provider, nothing to do."
ReadMessage(m) ==
  /\ InJob(m, "waiting")
  /\ Job(m, IF Exists(m) /\ outMsg[m].status # "SENT"
            THEN JobFrame("calling", outMsg[m].body) ELSE NoJob)
  /\ UNCHANGED <<outMsg, received, editor, accepted, meddled, sendFaults>>

ProviderAccepts(m) ==
  /\ InJob(m, "calling")
  /\ received' = [received EXCEPT ![m] = sendJob[m].body]
  /\ accepted' = [accepted EXCEPT ![m] = @ + 1]
  /\ \/ Job(m, JobFrame("accepted", sendJob[m].body)) /\ UNCHANGED sendFaults
     \/ SendFault /\ Retry(m)
  /\ UNCHANGED <<outMsg, editor, meddled>>

ProviderRejects(m) ==
  /\ InJob(m, "calling")
  /\ Job(m, JobFrame("rejected", sendJob[m].body))
  /\ UNCHANGED <<outMsg, received, editor, accepted, meddled, sendFaults>>

\* The verdict is written by id; a deleted row makes the write, and so the job, throw.
WriteVerdict(m) ==
  /\ sendJob[m].step \in {"accepted", "rejected"}
  /\ IF Exists(m)
     THEN outMsg' = [outMsg EXCEPT ![m].status = IF InJob(m, "accepted") THEN "SENT" ELSE "FAILED"]
     ELSE UNCHANGED outMsg
  /\ IF InJob(m, "accepted") /\ Exists(m) THEN Job(m, JobFrame("written", "draft")) ELSE Retry(m)
  /\ meddled' = IF \E e \in Editors : editor[e].msg = m THEN meddled \cup {m} ELSE meddled
  /\ UNCHANGED <<received, editor, accepted, sendFaults>>

\* The job is completed, or the worker dies before BullMQ hears of it.
JobEnds(m) ==
  /\ InJob(m, "written")
  /\ Job(m, NoJob) \/ Retry(m)
  /\ UNCHANGED <<outMsg, received, editor, accepted, meddled, sendFaults>>

\* The worker dies or a query fails: BullMQ runs the job again, until it is out of attempts.
JobCut(m) ==
  /\ sendJob[m].step \notin {"none", "written"}
  /\ SendFault
  /\ Retry(m) \/ Job(m, NoJob)
  /\ UNCHANGED <<outMsg, received, editor, accepted, meddled>>

-----------------------------------------------------------------------------
EditAnyStatus(e, m, step) ==                                   \* mutant
  /\ editor[e] = NoEdit
  /\ Exists(m)
  /\ editor' = [editor EXCEPT ![e] = Edit(step, m)]
  /\ UNCHANGED <<outMsg, sendJob, received, accepted, meddled, sendFaults>>
\* update() and remove() refuse a message that is SENT.
BeginEdit(e, m, step) ==
  /\ editor[e] = NoEdit
  /\ Exists(m)
  /\ outMsg[m].status # "SENT"
  /\ editor' = [editor EXCEPT ![e] = Edit(step, m)]
  /\ UNCHANGED <<outMsg, sendJob, received, accepted, meddled, sendFaults>>

updateMessage(e, m) == BeginEdit(e, m, "edit")
removeMessage(e, m) == BeginEdit(e, m, "delete")

\* The write goes by id; on a deleted row it throws.
CommitEdit(e) ==
  LET m == editor[e].msg IN
  /\ m # NoMsg
  /\ editor' = [editor EXCEPT ![e] = NoEdit]
  /\ IF Exists(m)
     THEN /\ IF editor[e].step = "edit"
             THEN \E body \in Bodies : outMsg' = [outMsg EXCEPT ![m].body = body]
             ELSE outMsg' = [outMsg EXCEPT ![m].status = "deleted"]
          /\ meddled' = IF Running(m) THEN meddled \cup {m} ELSE meddled
     ELSE UNCHANGED <<outMsg, meddled>>
  /\ UNCHANGED <<sendJob, received, accepted, sendFaults>>

-----------------------------------------------------------------------------
OutboundNext ==
  \/ \E m \in OutMsgs : send(m) \/ ReadMessage(m) \/ ProviderAccepts(m) \/ ProviderRejects(m)
                          \/ WriteVerdict(m) \/ JobEnds(m) \/ JobCut(m)
  \/ \E e \in Editors : \/ CommitEdit(e)
                        \/ \E m \in OutMsgs : updateMessage(e, m) \/ removeMessage(e, m)

OutboundSpec == OutboundInit /\ [][OutboundNext]_outboundVars

-----------------------------------------------------------------------------
(* Properties.                                                             *)

\* Rows, jobs and calls have the shapes the code gives them.
OutboundTypeOK ==
  /\ outMsg \in [OutMsgs -> [status : {"none", "QUEUED", "SENT", "FAILED", "deleted"},
                             body : Bodies]]
  /\ sendJob \in [OutMsgs -> [step : {"none", "waiting", "calling", "accepted", "rejected",
                                      "written"}, body : Bodies]]
  /\ received \in [OutMsgs -> Bodies \cup {"none"}]
  /\ editor \in [Editors -> [step : {"idle", "edit", "delete"}, msg : OutMsgs \cup {NoMsg}]]
  /\ accepted \in [OutMsgs -> Nat]
  /\ meddled \subseteq OutMsgs
  /\ sendFaults \in 0 .. MaxSendFaults

\* WhatsApp receives a message once, and once more only for a lost answer, a stalled job
\* or a failed query before SENT is written: later retries repeat nothing.
AcceptedBounded == \A m \in OutMsgs : accepted[m] <= 1 + sendFaults

\* "Manual edits are allowed only before WhatsApp accepted the message": what a SENT row
\* shows is what WhatsApp received, unless an edit met the running job.
SentAsStored ==
  \A m \in OutMsgs : outMsg[m].status = "SENT" /\ m \notin meddled
                       => outMsg[m].body = received[m]
=============================================================================
