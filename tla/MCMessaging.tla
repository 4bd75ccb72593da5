----------------------------- MODULE MCMessaging -----------------------------
(***************************************************************************)
(* The two ends of the exchange in one run.  The broker is all they share, *)
(* and each models it from its own side: a behaviour follows the outbox    *)
(* relay or the AI engine.                                                 *)
(***************************************************************************)
EXTENDS OutboxRelay, AiConsumer

VARIABLE end  \* the end a behaviour follows

MessagingInit == end \in {"relay", "engine"} /\ Init /\ AiInit

MessagingNext ==
  /\ \/ end = "relay" /\ Next /\ UNCHANGED aiVars
     \/ end = "engine" /\ AiNext /\ UNCHANGED vars
  /\ UNCHANGED end

MessagingSpec ==
  /\ MessagingInit
  /\ [][MessagingNext]_<<end, vars, aiVars>>
  /\ Fairness /\ AiFairness

\* Type correctness of both ends (see TypeOK and AiTypeOK).
MessagingTypeOK == TypeOK /\ AiTypeOK
=============================================================================
