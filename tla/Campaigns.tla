----------------------------- MODULE Campaigns -----------------------------
(***************************************************************************)
(* Marketing campaigns: services/campaigns.service.ts of the backend and   *)
(* processCampaignDispatch() in worker.ts.                                 *)
(*                                                                         *)
(* A launch wipes the queued rows, writes one per customer, sets RUNNING   *)
(* and enqueues a dispatch job.  A job works through one chunk of queued   *)
(* rows and enqueues the next job while rows are queued; a row whose       *)
(* message was enqueued stays queued.  Each database call is a statement   *)
(* of its own, a failed job is retried, and Redis may refuse the job of a  *)
(* launch without an error.  What is sent to whom is left out.             *)
(***************************************************************************)
EXTENDS Naturals, FiniteSets

CONSTANTS
  Audience,    \* customers the filter selects
  Marketers,   \* API calls in flight
  Dispatchers, \* dispatch jobs that run at the same time
  CAMPAIGN_PACE_PER_TICK,
  MaxLaunches, \* bound: launches
  MaxMishaps   \* bound: calls and jobs cut short, jobs refused or out of attempts

CampaignRows == Audience \X (1 .. MaxLaunches)

ASSUME CampaignAssumption ==
  /\ IsFiniteSet(Audience)
  /\ CAMPAIGN_PACE_PER_TICK \in Nat \ {0}
  /\ MaxLaunches \in Nat /\ MaxMishaps \in Nat

VARIABLES
  campaign,  \* its status
  mail,      \* each campaign_messages row: "none", "queued", "failed" or "deleted"
  launches,  \* launches begun
  marketer,  \* each API call: its step and the launch it makes, 0 for a cancel
  jobsWaiting, \* dispatch jobs in the queue
  chunk,     \* each running job: its step, the rows to do, the outcome to write
  lost,      \* history: a launch or job ended without handing on its job
  mishaps

campaignVars == <<campaign, mail, launches, marketer, jobsWaiting, chunk, lost, mishaps>>

Errand(step, n) == [step |-> step, launch |-> n]
Chunk(step, todo, outcome) == [step |-> step, todo |-> todo, outcome |-> outcome]
NoErrand == Errand("idle", 0)
NoChunk == Chunk("idle", {}, "none")

CampaignInit ==
  /\ campaign \in {"DRAFT", "SCHEDULED"}
  /\ mail = [r \in CampaignRows |-> "none"]
  /\ launches = 0
  /\ marketer = [g \in Marketers |-> NoErrand]
  /\ jobsWaiting = 0
  /\ chunk = [d \in Dispatchers |-> NoChunk]
  /\ lost = FALSE
  /\ mishaps = 0

QueuedMail == {r \in CampaignRows : mail[r] = "queued"}
Errands(g, step) == marketer' = [marketer EXCEPT ![g].step = step]
Working(d, step) == chunk[d].step = step
Mishap == mishaps < MaxMishaps /\ mishaps' = mishaps + 1

-----------------------------------------------------------------------------
(* launch(), pause() and cancel().                                         *)

launch(g) ==
  /\ marketer[g] = NoErrand
  /\ campaign \in {"DRAFT", "SCHEDULED", "PAUSED"}
  /\ launches < MaxLaunches
  /\ launches' = launches + 1
  /\ marketer' = [marketer EXCEPT ![g] = Errand("wipe", launches + 1)]
  /\ UNCHANGED <<campaign, mail, jobsWaiting, chunk, lost, mishaps>>

cancelCampaign(g) ==
  /\ marketer[g] = NoErrand
  /\ marketer' = [marketer EXCEPT ![g] = Errand("wipe", 0)]
  /\ UNCHANGED <<campaign, mail, launches, jobsWaiting, chunk, lost, mishaps>>

WipeQueued(g) ==
  /\ marketer[g].step = "wipe"
  /\ mail' = [r \in CampaignRows |-> IF r \in QueuedMail THEN "deleted" ELSE mail[r]]
  /\ Errands(g, IF marketer[g].launch = 0 THEN "halt" ELSE "fill")
  /\ UNCHANGED <<campaign, launches, jobsWaiting, chunk, lost, mishaps>>

Materialize(g) ==
  /\ marketer[g].step = "fill"
  /\ mail' = [r \in CampaignRows |-> IF r[2] = marketer[g].launch THEN "queued" ELSE mail[r]]
  /\ Errands(g, "run")
  /\ UNCHANGED <<campaign, launches, jobsWaiting, chunk, lost, mishaps>>

SetRunning(g) ==
  /\ marketer[g].step = "run"
  /\ campaign' = "RUNNING"
  /\ Errands(g, "enqueue")
  /\ UNCHANGED <<mail, launches, jobsWaiting, chunk, lost, mishaps>>

\* safeAdd() drops the job when Redis is down.
EnqueueDispatch(g) ==
  /\ marketer[g].step = "enqueue"
  /\ \/ jobsWaiting' = jobsWaiting + 1 /\ UNCHANGED <<lost, mishaps>>
     \/ Mishap /\ lost' = TRUE /\ UNCHANGED jobsWaiting
  /\ marketer' = [marketer EXCEPT ![g] = NoErrand]
  /\ UNCHANGED <<campaign, mail, launches, chunk>>

\* pause(), whatever the status, and the second statement of cancel().
SetPaused(g) ==
  /\ marketer[g].step \in {"idle", "halt"}
  /\ campaign' = "PAUSED"
  /\ marketer' = [marketer EXCEPT ![g] = NoErrand]
  /\ UNCHANGED <<mail, launches, jobsWaiting, chunk, lost, mishaps>>

MarketerCut(g) ==
  /\ marketer[g] # NoErrand
  /\ Mishap
  /\ lost' = TRUE
  /\ marketer' = [marketer EXCEPT ![g] = NoErrand]
  /\ UNCHANGED <<campaign, mail, launches, jobsWaiting, chunk>>

-----------------------------------------------------------------------------
(* processCampaignDispatch().                                              *)

TakeJob(d) ==
  /\ chunk[d] = NoChunk
  /\ jobsWaiting > 0
  /\ jobsWaiting' = jobsWaiting - 1
  /\ chunk' = [chunk EXCEPT ![d].step = "check"]
  /\ UNCHANGED <<campaign, mail, launches, marketer, lost, mishaps>>

CheckCampaign(d) ==
  /\ Working(d, "check")
  /\ chunk' = [chunk EXCEPT ![d] = IF campaign \in {"RUNNING", "SCHEDULED"}
                                   THEN Chunk("select", {}, "none") ELSE NoChunk]
  /\ UNCHANGED <<campaign, mail, launches, marketer, jobsWaiting, lost, mishaps>>

SelectBatch(d) ==
  /\ Working(d, "select")
  /\ \E batch \in SUBSET QueuedMail :
       /\ Cardinality(batch) <= CAMPAIGN_PACE_PER_TICK
       /\ batch = QueuedMail \/ Cardinality(batch) = CAMPAIGN_PACE_PER_TICK
       /\ chunk' = [chunk EXCEPT ![d] = Chunk("send", batch, "none")]
  /\ UNCHANGED <<campaign, mail, launches, marketer, jobsWaiting, lost, mishaps>>

\* The message is written and enqueued, or the customer or the queue is gone.
SendRow(d) ==
  /\ Working(d, "send")
  /\ \E outcome \in {"queued", "failed"} :
       chunk' = [chunk EXCEPT ![d] = Chunk("mark", @.todo, outcome)]
  /\ chunk[d].todo # {}
  /\ UNCHANGED <<campaign, mail, launches, marketer, jobsWaiting, lost, mishaps>>

MarkRow(d) ==
  /\ Working(d, "mark")
  /\ \E r \in chunk[d].todo :
       /\ mail[r] # "deleted"
       /\ mail' = [mail EXCEPT ![r] = chunk[d].outcome]
       /\ chunk' = [chunk EXCEPT ![d] = Chunk("send", @.todo \ {r}, "none")]
  /\ UNCHANGED <<campaign, launches, marketer, jobsWaiting, lost, mishaps>>

CountRemaining(d) ==
  /\ Working(d, "send")
  /\ chunk[d].todo = {}
  /\ chunk' = [chunk EXCEPT ![d].step = IF QueuedMail # {} THEN "again" ELSE "complete"]
  /\ UNCHANGED <<campaign, mail, launches, marketer, jobsWaiting, lost, mishaps>>

EnqueueNext(d) ==
  /\ Working(d, "again")
  /\ jobsWaiting' = jobsWaiting + 1
  /\ chunk' = [chunk EXCEPT ![d] = NoChunk]
  /\ UNCHANGED <<campaign, mail, launches, marketer, lost, mishaps>>

CompleteCampaign(d) ==
  /\ Working(d, "complete")
  /\ campaign' = "COMPLETED"
  /\ chunk' = [chunk EXCEPT ![d] = NoChunk]
  /\ UNCHANGED <<mail, launches, marketer, jobsWaiting, lost, mishaps>>

\* Updating a row another launch deleted throws, in the catch clause too; the database,
\* Redis or the process may fail anywhere.
Fails(d) ==
  \/ Working(d, "mark") /\ (\E r \in chunk[d].todo : mail[r] = "deleted") /\ UNCHANGED mishaps
  \/ chunk[d] # NoChunk /\ Mishap

SwallowsError(d) ==                                            \* mutant
  /\ Fails(d)
  /\ UNCHANGED <<jobsWaiting, lost>>
  /\ chunk' = [chunk EXCEPT ![d] = NoChunk]
  /\ UNCHANGED <<campaign, mail, launches, marketer>>
\* "A processor either completes or THROWS": BullMQ queues the job again, five times.
JobFails(d) ==
  /\ Fails(d)
  /\ \/ jobsWaiting' = jobsWaiting + 1 /\ UNCHANGED lost
     \/ mishaps' # mishaps /\ lost' = TRUE /\ UNCHANGED jobsWaiting
  /\ chunk' = [chunk EXCEPT ![d] = NoChunk]
  /\ UNCHANGED <<campaign, mail, launches, marketer>>

-----------------------------------------------------------------------------
MarketerStep(g) ==
  launch(g) \/ cancelCampaign(g) \/ WipeQueued(g) \/ Materialize(g) \/ SetRunning(g)
    \/ EnqueueDispatch(g) \/ SetPaused(g) \/ MarketerCut(g)

DispatchStep(d) ==
  TakeJob(d) \/ CheckCampaign(d) \/ SelectBatch(d) \/ SendRow(d) \/ MarkRow(d)
    \/ CountRemaining(d) \/ EnqueueNext(d) \/ CompleteCampaign(d) \/ JobFails(d)

CampaignNext ==
  (\E g \in Marketers : MarketerStep(g)) \/ (\E d \in Dispatchers : DispatchStep(d))

CampaignSpec == CampaignInit /\ [][CampaignNext]_campaignVars

-----------------------------------------------------------------------------
(* Properties.                                                             *)

\* Rows, calls and jobs have the shapes the two sources give them; only a job with a row
\* in hand is about to write an outcome.
CampaignTypeOK ==
  /\ campaign \in {"DRAFT", "SCHEDULED", "RUNNING", "PAUSED", "COMPLETED"}
  /\ mail \in [CampaignRows -> {"none", "queued", "failed", "deleted"}]
  /\ launches \in 0 .. MaxLaunches
  /\ marketer \in [Marketers -> [step : {"idle", "wipe", "fill", "run", "enqueue", "halt"},
                                 launch : 0 .. MaxLaunches]]
  /\ jobsWaiting \in Nat
  /\ chunk \in [Dispatchers ->
       [step : {"idle", "check", "select", "send", "mark", "again", "complete"},
        todo : SUBSET CampaignRows, outcome : {"none", "queued", "failed"}]]
  /\ \A d \in Dispatchers : Working(d, "mark") => chunk[d].todo # {}
  /\ lost \in BOOLEAN
  /\ mishaps \in 0 .. MaxMishaps

\* Somebody will still look at the queued rows.
Dispatching ==
  \/ jobsWaiting > 0
  \/ \E d \in Dispatchers : chunk[d].step \notin {"idle", "complete"}
  \/ \E g \in Marketers : marketer[g].step \in {"run", "enqueue"}

\* A running campaign with queued rows always has a dispatch job waiting, running or about
\* to be enqueued, through pauses, relaunches, overlapping launches, retries and jobs that
\* finish late; unless Redis refused a job or a call or job was cut short for good.
RunningIsDispatched == campaign = "RUNNING" /\ QueuedMail # {} /\ ~lost => Dispatching
=============================================================================
