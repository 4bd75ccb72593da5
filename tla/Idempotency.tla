---------------------------- MODULE Idempotency ----------------------------
(***************************************************************************)
(* One key of the Idempotency-Key middleware,                              *)
(* apps/backend/src/middleware/idempotency.ts.                             *)
(*                                                                         *)
(* A request claims the key with SET NX, runs its handler, and replaces    *)
(* the in-flight marker by the response.  The marker lasts 30 seconds and  *)
(* the response a day, but neither is tied to how long the handler takes.  *)
(* When Redis cannot be reached the request runs unguarded.                *)
(***************************************************************************)
EXTENDS Naturals, FiniteSets

CONSTANTS
  Requests,   \* the client's request and its retries
  MaxExpiries \* bound: times the key expires

ASSUME IdempotencyAssumption == MaxExpiries \in Nat /\ IsFiniteSet(Requests)

VARIABLES
  marker,   \* the key in Redis: "none", "inFlight", or the cached response "done" or
            \* "refused" (a 4xx)
  request,  \* each request: its next step, or its answer
  effects,  \* history: times the guarded operation took effect
  lapses,   \* history: expiries of the key
  opened    \* history: requests let through because Redis was down

idempotencyVars == <<marker, request, effects, lapses, opened>>

Answers == {"done", "refused", "failed", "inFlight409", "replayedDone", "replayedRefused",
            "cut"}

IdempotencyInit ==
  /\ marker = "none"
  /\ request = [q \in Requests |-> "new"]
  /\ effects = 0 /\ lapses = 0 /\ opened = 0

Then(q, step) == request' = [request EXCEPT ![q] = step]

-----------------------------------------------------------------------------
ClaimWithoutNX(q) ==                                           \* mutant
  /\ request[q] = "new"
  /\ marker' = "inFlight" /\ Then(q, "claimed")
  /\ UNCHANGED <<effects, lapses, opened>>
\* SET NX: only one request finds the key free.
ClaimKey(q) ==
  /\ request[q] = "new"
  /\ IF marker = "none" THEN marker' = "inFlight" /\ Then(q, "claimed")
                        ELSE Then(q, "lookup") /\ UNCHANGED marker
  /\ UNCHANGED <<effects, lapses, opened>>

\* "Redis down -> fail open"; the claim may have reached Redis all the same.
FailOpen(q) ==
  /\ request[q] = "new"
  /\ Then(q, "open")
  /\ opened' = opened + 1
  /\ marker' \in {marker, IF marker = "none" THEN "inFlight" ELSE marker}
  /\ UNCHANGED <<effects, lapses>>

\* A response is replayed, as a 200; the marker, or a key gone meanwhile, is a 409.
Replay(q) ==
  /\ request[q] = "lookup"
  /\ Then(q, CASE marker = "done"    -> "replayedDone"
               [] marker = "refused" -> "replayedRefused"
               [] OTHER              -> "inFlight409")
  /\ UNCHANGED <<marker, effects, lapses, opened>>
LookupFails(q) ==
  /\ request[q] = "lookup"
  /\ Then(q, "failed")
  /\ UNCHANGED <<marker, effects, lapses, opened>>

\* The handler: it takes effect and answers, refuses, or fails before or after the effect.
HandleThen(q, guarded, refused, done, failed) ==
  /\ request[q] = guarded
  /\ \/ Then(q, refused) /\ UNCHANGED effects
     \/ Then(q, done) /\ effects' = effects + 1
     \/ Then(q, failed) /\ effects' \in {effects, effects + 1}
  /\ UNCHANGED <<marker, lapses, opened>>
Handle(q) ==
  \/ HandleThen(q, "claimed", "saveRefused", "saveDone", "failed")
  \/ HandleThen(q, "open", "refused", "done", "failed")

SaveEverything(q) ==                                           \* mutant
  /\ request[q] \in {"saveDone", "saveRefused"}
  /\ Then(q, IF request[q] = "saveDone" THEN "done" ELSE "refused")
  /\ marker' \in {marker, "done"}
  /\ UNCHANGED <<effects, lapses, opened>>
\* Answers below 500 are cached with a SET nobody waits for: it may be lost.
SaveResponse(q) ==
  /\ request[q] \in {"saveDone", "saveRefused"}
  /\ LET answer == IF request[q] = "saveDone" THEN "done" ELSE "refused" IN
       /\ Then(q, answer)
       /\ marker' \in {marker, answer}
  /\ UNCHANGED <<effects, lapses, opened>>

\* The process dies; the marker stays.
RequestCut(q) ==
  /\ request[q] \notin {"new"} \cup Answers
  /\ Then(q, "cut")
  /\ UNCHANGED <<marker, effects, lapses, opened>>

\* Redis, external: the 30 seconds of the marker, or the day of a response, are over.
KeyExpires ==
  /\ marker # "none"
  /\ lapses < MaxExpiries
  /\ lapses' = lapses + 1
  /\ marker' = "none"
  /\ UNCHANGED <<request, effects, opened>>

-----------------------------------------------------------------------------
IdempotencyStep(q) ==
  \/ ClaimKey(q) \/ FailOpen(q) \/ Replay(q) \/ LookupFails(q)
  \/ Handle(q) \/ SaveResponse(q) \/ RequestCut(q)

IdempotencyNext == KeyExpires \/ \E q \in Requests : IdempotencyStep(q)

IdempotencySpec == IdempotencyInit /\ [][IdempotencyNext]_idempotencyVars

-----------------------------------------------------------------------------
(* Properties.                                                             *)

\* The key and the requests have the shapes the middleware gives them.
IdempotencyTypeOK ==
  /\ marker \in {"none", "inFlight", "done", "refused"}
  /\ request \in [Requests -> Answers \cup
       {"new", "lookup", "claimed", "open", "saveRefused", "saveDone"}]
  /\ effects \in Nat /\ lapses \in Nat /\ opened \in Nat

\* "Instead of double-charging": however a client repeats a request, the operation takes
\* effect once, and once more for each expiry of the key and each request Redis missed.
EffectsBounded == effects <= 1 + lapses + opened

\* A replayed success stands for an operation that took effect.
ReplayIsReal == \A q \in Requests : request[q] = "replayedDone" => effects > 0
=============================================================================
