---------------------------- MODULE AccessProofs ----------------------------
(***************************************************************************)
(* Proofs about what lets a request in: refresh rotation, reset links and  *)
(* the idempotency key, for any number of calls and requests.              *)
(***************************************************************************)
EXTENDS Sessions, Idempotency, FiniteSetTheorems, TLAPS

-----------------------------------------------------------------------------
(* Refresh rotation and reset links.                                       *)

\* The step of a frame tells what its argument is.
LEMMA FrameShape ==
  ASSUME SessionTypeOK, NEW c \in AuthCalls
  PROVE  /\ auth[c] \in AuthFrames
         /\ auth[c].step \in {"rotate", "reuse"} => auth[c].arg \in Tokens
         /\ auth[c].step = "issue" => auth[c].arg \in Tokens \cup {Nothing}
         /\ auth[c].step = "claim" => auth[c].arg \in Links
         /\ auth[c].step \in {"set", "revokeAll"} => auth[c].arg \in Links \cup {Nothing}
         /\ auth[c].targets \in SUBSET Tokens
  BY DEF SessionTypeOK, AuthFrames

LEMMA FrameTyped ==
  ASSUME SessionTypeOK, NEW c \in AuthCalls, NEW frame \in AuthFrames, Goto(c, frame)
  PROVE  auth' \in [AuthCalls -> AuthFrames]
  BY DEF SessionTypeOK, Goto

LEMMA NoCallTyped == NoCall \in AuthFrames
  BY DEF NoCall, Frame, AuthFrames

\* No session, no link and no call in flight: the types hold when the service starts.
THEOREM SessionInitType == SessionInit => SessionTypeOK
  BY NoCallTyped DEF SessionInit, SessionTypeOK

\* Every step of a call keeps rows and frames typed.
LEMMA AuthStepType ==
  ASSUME SessionTypeOK, NEW c \in AuthCalls, AuthStep(c)
  PROVE  SessionTypeOK'
<1>0. AllRevoked \in [Tokens -> {"none", "live", "revoked"}]
  BY DEF SessionTypeOK, AllRevoked
<1>1. CASE login(c)
  <2>1. Frame("issue", Nothing, {}) \in AuthFrames
    BY DEF Frame, AuthFrames
  <2>2. QED
    BY <1>1, <2>1, FrameTyped DEF login, SessionTypeOK, rows, resetRows, sessionHistory
<1>2. CASE Rotate(c)
  <2>1. auth[c].arg \in Tokens
    BY <1>2, FrameShape DEF Rotate, At
  <2>2. Frame("issue", auth[c].arg, {}) \in AuthFrames
    BY <2>1 DEF Frame, AuthFrames
  <2>3. auth' \in [AuthCalls -> AuthFrames]
    BY <1>2, <2>2, NoCallTyped, FrameTyped DEF Rotate
  <2>4. QED
    BY <1>2, <2>3 DEF Rotate, SessionTypeOK, resetRows, sessionHistory
<1>3. CASE ReuseDetected(c)
  <2>1. auth' \in [AuthCalls -> AuthFrames]
    BY <1>3, NoCallTyped, FrameTyped DEF ReuseDetected
  <2>2. QED
    BY <1>0, <1>3, <2>1 DEF ReuseDetected, SessionTypeOK, resetRows, sessionHistory
<1>4. CASE RevokeTargets(c)
  <2>1. auth' \in [AuthCalls -> AuthFrames]
    BY <1>4, NoCallTyped, FrameTyped DEF RevokeTargets
  <2>2. QED
    BY <1>4, <2>1 DEF RevokeTargets, SessionTypeOK, resetRows, sessionHistory
<1>5. CASE requestPasswordReset(c)
  <2>1. Frame("mint", Nothing, {}) \in AuthFrames
    BY DEF Frame, AuthFrames
  <2>2. auth' \in [AuthCalls -> AuthFrames]
    BY <1>5, <2>1, FrameTyped DEF requestPasswordReset
  <2>3. QED
    BY <1>5, <2>2 DEF requestPasswordReset, SessionTypeOK, rows, sessionHistory
<1>6. CASE ClaimLink(c)
  <2>1. auth[c].arg \in Links
    BY <1>6, FrameShape DEF ClaimLink, At
  <2>2. Frame("set", auth[c].arg, {}) \in AuthFrames
    BY <2>1 DEF Frame, AuthFrames
  <2>3. auth' \in [AuthCalls -> AuthFrames]
    BY <1>6, <2>2, NoCallTyped, FrameTyped DEF ClaimLink
  <2>4. QED
    BY <1>6, <2>3 DEF ClaimLink, SessionTypeOK, rows, sessionHistory
<1>7. CASE changePassword(c)
  <2>1. Frame("set", Nothing, {}) \in AuthFrames
    BY DEF Frame, AuthFrames
  <2>2. QED
    BY <1>7, <2>1, FrameTyped DEF changePassword, SessionTypeOK, rows, resetRows, sessionHistory
<1>8. CASE setPassword(c)
  <2>1. auth[c].arg \in Links \cup {Nothing}
    BY <1>8, FrameShape DEF setPassword, At
  <2>2. Frame("revokeAll", auth[c].arg, {}) \in AuthFrames
    BY <2>1 DEF Frame, AuthFrames
  <2>3. auth' \in [AuthCalls -> AuthFrames]
    BY <1>8, <2>2, FrameTyped DEF setPassword
  <2>4. resets' \in [Links -> Nat]
    BY <1>8 DEF setPassword, SessionTypeOK
  <2>5. QED
    BY <1>8, <2>3, <2>4 DEF setPassword, SessionTypeOK, rows, sessionHistory
<1>9. CASE revokeAllSessions(c)
  <2>1. auth' \in [AuthCalls -> AuthFrames]
    BY <1>9, NoCallTyped, FrameTyped DEF revokeAllSessions
  <2>2. QED
    BY <1>0, <1>9, <2>1 DEF revokeAllSessions, SessionTypeOK, resetRows
<1>10. CASE AuthCrash(c)
  <2>1. auth' \in [AuthCalls -> AuthFrames]
    BY <1>10, NoCallTyped, FrameTyped DEF AuthCrash
  <2>2. QED
    BY <1>10, <2>1 DEF AuthCrash, SessionTypeOK, rows, resetRows, sessionHistory
<1>11. ASSUME NEW t \in Tokens, refresh(c, t)
       PROVE  SessionTypeOK'
  <2>1. Frame(IF session[t] = "live" THEN "rotate" ELSE "reuse", t, {}) \in AuthFrames
    BY DEF Frame, AuthFrames
  <2>2. QED
    BY <1>11, <2>1, FrameTyped DEF refresh, SessionTypeOK, rows, resetRows, sessionHistory
<1>12. ASSUME NEW t \in Tokens, issueSession(c, t)
       PROVE  SessionTypeOK'
  <2>1. auth[c].arg \in Tokens \cup {Nothing}
    BY <1>12, FrameShape DEF issueSession, At
  <2>2. root' \in [Tokens -> Tokens \cup {Nothing}]
    BY <1>12, <2>1, NothingAssumption DEF issueSession, SessionTypeOK
  <2>3. auth' \in [AuthCalls -> AuthFrames]
    BY <1>12, NoCallTyped, FrameTyped DEF issueSession
  <2>4. QED
    BY <1>12, <2>2, <2>3 DEF issueSession, SessionTypeOK, resetRows, sessionHistory
<1>13. ASSUME NEW t \in Tokens, revokeOtherSessions(c, t)
       PROVE  SessionTypeOK'
  <2>1. Frame("others", t, Live \ {t}) \in AuthFrames
    BY DEF Frame, AuthFrames, Live
  <2>2. QED
    BY <1>13, <2>1, FrameTyped
       DEF revokeOtherSessions, SessionTypeOK, rows, resetRows, sessionHistory
<1>14. ASSUME NEW l \in Links, MintLink(c, l)
       PROVE  SessionTypeOK'
  <2>1. auth' \in [AuthCalls -> AuthFrames]
    BY <1>14, NoCallTyped, FrameTyped DEF MintLink
  <2>2. QED
    BY <1>14, <2>1 DEF MintLink, SessionTypeOK, rows, sessionHistory
<1>15. ASSUME NEW l \in Links, confirmPasswordReset(c, l)
       PROVE  SessionTypeOK'
  <2>1. Frame("claim", l, {}) \in AuthFrames
    BY DEF Frame, AuthFrames
  <2>2. QED
    BY <1>15, <2>1, FrameTyped
       DEF confirmPasswordReset, SessionTypeOK, rows, resetRows, sessionHistory
<1>16. QED
  BY <1>1, <1>2, <1>3, <1>4, <1>5, <1>6, <1>7, <1>8, <1>9, <1>10, <1>11, <1>12, <1>13,
     <1>14, <1>15 DEF AuthStep

LEMMA SessionTypeStep == SessionTypeOK /\ [SessionNext]_sessionVars => SessionTypeOK'
<1> SUFFICES ASSUME SessionTypeOK, [SessionNext]_sessionVars
             PROVE  SessionTypeOK'
  OBVIOUS
<1>1. ASSUME NEW t \in Tokens, logout(t)
      PROVE  SessionTypeOK'
  BY <1>1 DEF logout, SessionTypeOK, resetRows, sessionHistory
<1>2. CASE UNCHANGED sessionVars
  BY <1>2 DEF SessionTypeOK, sessionVars, rows, resetRows, sessionHistory
<1>3. QED
  BY <1>1, <1>2, AuthStepType DEF SessionNext

\* The rows and calls of the service keep their shapes.
THEOREM SessionTypeCorrect == SessionSpec => []SessionTypeOK
  BY SessionInitType, SessionTypeStep, PTL DEF SessionSpec

-----------------------------------------------------------------------------
(* Rotation.  A call that gave up a row holds the only right to the next   *)
(* row of its login.                                                       *)

Exchanging(c) == At(c, "issue") /\ auth[c].arg # Nothing

RotationInv ==
  /\ SessionTypeOK
  /\ OneLivePerLogin
  /\ \A t \in Tokens : session[t] = "none" => \A u \in Tokens : root[u] # t
  /\ \A t \in Tokens : session[t] # "none" => root[t] \in Tokens
  /\ \A c \in AuthCalls : auth[c].step \in {"rotate", "reuse"} => session[auth[c].arg] # "none"
  /\ \A c \in AuthCalls : \A t \in auth[c].targets : session[t] # "none"
  /\ \A c \in AuthCalls : Exchanging(c) =>
       /\ session[auth[c].arg] = "revoked"
       /\ \A t \in Live : root[t] # root[auth[c].arg]
  /\ \A c, d \in AuthCalls :
       Exchanging(c) /\ Exchanging(d) /\ root[auth[c].arg] = root[auth[d].arg] => c = d

LEMMA RotationInit == SessionInit => RotationInv
  BY SessionInitType, NothingAssumption
     DEF SessionInit, RotationInv, OneLivePerLogin, Live, Exchanging, At, NoCall, Frame

\* Revoking rows and dropping or quietly moving a frame keeps the invariant.
LEMMA Revoking ==
  ASSUME RotationInv, SessionTypeOK',
         root' = root,
         \A t \in Tokens : session'[t] = session[t] \/ (session'[t] = "revoked" /\ session[t] # "none"),
         \A c \in AuthCalls : \/ auth'[c] = auth[c]
                              \/ auth'[c].step \notin {"rotate", "reuse", "issue"}
                              \/ auth'[c].step = "issue" /\ auth'[c].arg = Nothing
                              \/ auth'[c].step \in {"rotate", "reuse"} /\ session[auth'[c].arg] # "none",
         \A c \in AuthCalls : \A t \in auth'[c].targets : session[t] # "none"
  PROVE  RotationInv'
<1>1. \A t \in Tokens : (session'[t] = "none") <=> (session[t] = "none")
  BY DEF RotationInv, SessionTypeOK
<1>2. Live' \subseteq Live
  BY DEF Live
<1>3. \A c \in AuthCalls : Exchanging(c)' => Exchanging(c) /\ auth'[c] = auth[c]
  BY DEF Exchanging, At
<1>4. OneLivePerLogin'
  BY <1>2 DEF RotationInv, OneLivePerLogin
<1>5. \A c \in AuthCalls : auth'[c].step \in {"rotate", "reuse"} => session'[auth'[c].arg] # "none"
  <2> SUFFICES ASSUME NEW c \in AuthCalls, auth'[c].step \in {"rotate", "reuse"}
               PROVE  session'[auth'[c].arg] # "none"
    OBVIOUS
  <2>1. auth'[c].arg \in Tokens
    BY DEF SessionTypeOK, AuthFrames
  <2>2. session[auth'[c].arg] # "none"
    BY DEF RotationInv
  <2>3. QED
    BY <1>1, <2>1, <2>2
<1>6. ASSUME NEW c \in AuthCalls, Exchanging(c)'
      PROVE  /\ session'[auth'[c].arg] = "revoked"
             /\ \A t \in Live' : root[t] # root[auth'[c].arg]
  <2>1. Exchanging(c) /\ auth'[c] = auth[c]
    BY <1>3, <1>6
  <2>2. auth[c].arg \in Tokens
    BY <2>1, FrameShape DEF RotationInv, Exchanging, At
  <2>3. QED
    BY <1>2, <2>1, <2>2 DEF RotationInv, SessionTypeOK
<1>7. \A c \in AuthCalls : \A t \in auth'[c].targets : session'[t] # "none"
  BY <1>1 DEF SessionTypeOK, AuthFrames
<1>8. QED
  BY <1>1, <1>3, <1>4, <1>5, <1>6, <1>7 DEF RotationInv

LEMMA RotateRotation ==
  ASSUME RotationInv, SessionTypeOK', NEW c \in AuthCalls, Rotate(c)
  PROVE  RotationInv'
<1> DEFINE t == auth[c].arg
<1>0. t \in Tokens /\ root[t] \in Tokens /\ session[t] # "none"
  BY FrameShape DEF RotationInv, Rotate, At
<1>1. CASE session[t] # "live"
  <2>1. \A d \in AuthCalls : auth'[d] = auth[d] \/ auth'[d].step \notin {"rotate", "reuse", "issue"}
    BY <1>1 DEF Rotate, Goto, NoCall, Frame, RotationInv, SessionTypeOK
  <2>2. \A d \in AuthCalls : \A u \in auth'[d].targets : session[u] # "none"
    BY <1>1 DEF Rotate, Goto, NoCall, Frame, RotationInv, SessionTypeOK
  <2>3. QED
    BY <1>1, <2>1, <2>2, Revoking DEF Rotate
<1>2. CASE session[t] = "live"
  <2>1. /\ session' = [session EXCEPT ![t] = "revoked"]
        /\ auth' = [auth EXCEPT ![c] = Frame("issue", t, {})]
        /\ root' = root
    BY <1>2 DEF Rotate, Goto
  <2>2. Live' = Live \ {t} /\ t \in Live
    BY <1>0, <1>2, <2>1 DEF Live, RotationInv, SessionTypeOK
  <2>3. auth'[c].arg = t /\ auth'[c].step = "issue" /\ \A d \in AuthCalls \ {c} : auth'[d] = auth[d]
    BY <2>1 DEF Frame, RotationInv, SessionTypeOK
  <2>4. \A u \in Tokens : u # t => session'[u] = session[u]
    BY <2>1 DEF RotationInv, SessionTypeOK
  <2>5. session'[t] = "revoked"
    BY <1>0, <2>1 DEF RotationInv, SessionTypeOK
  <2>6. \A d \in AuthCalls \ {c} : Exchanging(d)' => Exchanging(d) /\ root[auth[d].arg] # root[t]
    BY <2>2, <2>3 DEF Exchanging, At, RotationInv
  <2>7. OneLivePerLogin'
    BY <2>1, <2>2 DEF RotationInv, OneLivePerLogin
  <2>8. \A u \in Tokens : session'[u] = "none" <=> session[u] = "none"
    BY <1>0, <2>4, <2>5
  <2>9. \A d \in AuthCalls : auth'[d].step \in {"rotate", "reuse"} => session'[auth'[d].arg] # "none"
    <3> SUFFICES ASSUME NEW d \in AuthCalls, auth'[d].step \in {"rotate", "reuse"}
                 PROVE  session'[auth'[d].arg] # "none"
      OBVIOUS
    <3>1. d # c /\ auth'[d] = auth[d]
      BY <2>3
    <3>2. auth[d].arg \in Tokens /\ session[auth[d].arg] # "none"
      BY <3>1, FrameShape DEF RotationInv
    <3>3. QED
      BY <2>8, <3>1, <3>2
  <2>10. ASSUME NEW d \in AuthCalls, Exchanging(d)'
         PROVE  /\ session'[auth'[d].arg] = "revoked"
                /\ \A u \in Live' : root[u] # root[auth'[d].arg]
    <3>1. CASE d = c
      BY <2>2, <2>3, <2>5, <3>1 DEF RotationInv, OneLivePerLogin
    <3>2. CASE d # c
      <4>1. Exchanging(d) /\ auth'[d] = auth[d]
        BY <2>3, <2>6, <2>10, <3>2
      <4>2. session[auth[d].arg] = "revoked" /\ \A u \in Live : root[u] # root[auth[d].arg]
        BY <4>1 DEF RotationInv
      <4>3. auth[d].arg \in Tokens
        BY <4>1, FrameShape DEF RotationInv, Exchanging, At
      <4>4. QED
        BY <2>2, <2>4, <2>5, <4>1, <4>2, <4>3
    <3>3. QED
      BY <3>1, <3>2
  <2>11. ASSUME NEW d \in AuthCalls, NEW e \in AuthCalls, Exchanging(d)', Exchanging(e)',
                root[auth'[d].arg] = root[auth'[e].arg]
         PROVE  d = e
    <3>1. CASE d = c \/ e = c
      BY <2>3, <2>6, <2>11, <3>1
    <3>2. CASE d # c /\ e # c
      BY <2>3, <2>6, <2>11, <3>2 DEF RotationInv
    <3>3. QED
      BY <3>1, <3>2
  <2>12. \A d \in AuthCalls : \A u \in auth'[d].targets : session'[u] # "none"
    <3>1. \A d \in AuthCalls : \A u \in auth'[d].targets : session[u] # "none"
      BY <2>1 DEF Frame, RotationInv, SessionTypeOK
    <3>2. QED
      BY <2>8, <3>1 DEF SessionTypeOK, AuthFrames
  <2>13. QED
    BY <2>1, <2>7, <2>8, <2>9, <2>10, <2>11, <2>12 DEF RotationInv
<1>3. QED
  BY <1>1, <1>2

LEMMA IssueRotation ==
  ASSUME RotationInv, SessionTypeOK', NEW c \in AuthCalls, NEW t \in Tokens, issueSession(c, t)
  PROVE  RotationInv'
<1> DEFINE r == IF auth[c].arg = Nothing THEN t ELSE root[auth[c].arg]
<1>1. /\ session[t] = "none"
      /\ \A u \in Tokens : root[u] # t
  BY DEF issueSession, RotationInv
<1>2. auth[c].arg # Nothing => /\ Exchanging(c)
                              /\ auth[c].arg \in Tokens
                              /\ session[auth[c].arg] = "revoked"
                              /\ root[auth[c].arg] \in Tokens
  BY FrameShape DEF issueSession, Exchanging, At, RotationInv
<1>3. r \in Tokens
  BY <1>2
<1>4. /\ session'[t] = "live" /\ root'[t] = r
      /\ \A u \in Tokens \ {t} : session'[u] = session[u] /\ root'[u] = root[u]
      /\ auth'[c] = NoCall /\ \A d \in AuthCalls \ {c} : auth'[d] = auth[d]
  BY DEF issueSession, Goto, RotationInv, SessionTypeOK
<1>5. Live' = Live \cup {t}
  BY <1>4 DEF Live
<1>6. \A u \in Live : root[u] # r
  BY <1>1, <1>2 DEF RotationInv, Live
<1>7. t \notin Live
  BY <1>1 DEF Live
<1>8. OneLivePerLogin'
  BY <1>4, <1>5, <1>6, <1>7 DEF OneLivePerLogin, RotationInv, Live
<1>9. ASSUME NEW u \in Tokens, session'[u] = "none"
      PROVE  \A v \in Tokens : root'[v] # u
  <2>1. u # t /\ session[u] = "none"
    BY <1>4, <1>9
  <2>2. \A v \in Tokens : root[v] # u
    BY <2>1 DEF RotationInv
  <2>3. r # u
    BY <1>2, <2>1, <2>2
  <2>4. QED
    BY <1>4, <2>2, <2>3
<1>10. \A u \in Tokens : session'[u] # "none" => root'[u] \in Tokens
  BY <1>3, <1>4 DEF RotationInv
<1>11. ASSUME NEW d \in AuthCalls, auth'[d].step \in {"rotate", "reuse"}
       PROVE  session'[auth'[d].arg] # "none"
  <2>1. d # c /\ auth'[d] = auth[d]
    BY <1>4, <1>11 DEF NoCall, Frame
  <2>2. auth[d].arg \in Tokens /\ session[auth[d].arg] # "none"
    BY <1>11, <2>1, FrameShape DEF RotationInv
  <2>3. QED
    BY <1>4, <2>1, <2>2
<1>12. ASSUME NEW d \in AuthCalls, Exchanging(d)'
       PROVE  /\ d # c /\ Exchanging(d) /\ auth'[d] = auth[d]
              /\ auth[d].arg \in Tokens \ {t}
              /\ session[auth[d].arg] = "revoked"
              /\ \A u \in Live : root[u] # root[auth[d].arg]
  <2>1. d # c /\ auth'[d] = auth[d]
    BY <1>4, <1>12 DEF NoCall, Frame, Exchanging, At
  <2>2. Exchanging(d)
    BY <1>12, <2>1 DEF Exchanging, At
  <2>3. QED
    BY <1>1, <2>1, <2>2, FrameShape DEF RotationInv, Exchanging, At
<1>13. ASSUME NEW d \in AuthCalls, Exchanging(d)'
       PROVE  /\ session'[auth'[d].arg] = "revoked"
              /\ \A u \in Live' : root'[u] # root'[auth'[d].arg]
  <2>1. r # root[auth[d].arg]
    BY <1>1, <1>2, <1>12, <1>13 DEF RotationInv
  <2>2. QED
    BY <1>4, <1>5, <1>7, <1>12, <1>13, <2>1 DEF Live
<1>14. ASSUME NEW d \in AuthCalls, NEW e \in AuthCalls, Exchanging(d)', Exchanging(e)',
              root'[auth'[d].arg] = root'[auth'[e].arg]
       PROVE  d = e
  BY <1>4, <1>12, <1>14 DEF RotationInv
<1>15. ASSUME NEW d \in AuthCalls, NEW u \in auth'[d].targets
       PROVE  session'[u] # "none"
  <2>1. u \in auth[d].targets
    BY <1>4, <1>15 DEF NoCall, Frame
  <2>2. session[u] # "none" /\ u \in Tokens
    BY <2>1, FrameShape DEF RotationInv
  <2>3. QED
    BY <1>4, <2>2
<1>16. QED
  BY <1>8, <1>9, <1>10, <1>11, <1>13, <1>14, <1>15 DEF RotationInv

LEMMA RotationStep == RotationInv /\ [SessionNext]_sessionVars => RotationInv'
<1> SUFFICES ASSUME RotationInv, [SessionNext]_sessionVars
             PROVE  RotationInv'
  OBVIOUS
<1>0. SessionTypeOK'
  BY SessionTypeStep DEF RotationInv
<1>1. ASSUME NEW t \in Tokens, logout(t)
      PROVE  RotationInv'
  BY <1>0, <1>1, Revoking DEF logout, RotationInv, SessionTypeOK
<1>2. CASE UNCHANGED sessionVars
  BY <1>0, <1>2, Revoking DEF sessionVars, rows, RotationInv
<1>3. ASSUME NEW c \in AuthCalls, AuthStep(c)
      PROVE  RotationInv'
  <2> USE DEF Goto, Frame, NoCall
  <2>0. SessionTypeOK
    BY DEF RotationInv
  <2>1. CASE login(c)
    BY <1>0, <2>0, <2>1, Revoking DEF login, rows, SessionTypeOK, RotationInv
  <2>2. CASE Rotate(c)
    BY <1>0, <2>2, RotateRotation
  <2>3. CASE ReuseDetected(c)
    BY <1>0, <2>0, <2>3, Revoking DEF ReuseDetected, AllRevoked, SessionTypeOK, RotationInv
  <2>4. CASE RevokeTargets(c)
    <3>1. \A t \in auth[c].targets : session[t] # "none"
      BY DEF RotationInv
    <3>2. QED
      BY <1>0, <2>0, <2>4, <3>1, Revoking DEF RevokeTargets, SessionTypeOK, RotationInv
  <2>5. CASE requestPasswordReset(c)
    BY <1>0, <2>0, <2>5, Revoking DEF requestPasswordReset, rows, SessionTypeOK, RotationInv
  <2>6. CASE ClaimLink(c)
    BY <1>0, <2>0, <2>6, Revoking DEF ClaimLink, rows, SessionTypeOK, RotationInv
  <2>7. CASE changePassword(c)
    BY <1>0, <2>0, <2>7, Revoking DEF changePassword, rows, SessionTypeOK, RotationInv
  <2>8. CASE setPassword(c)
    BY <1>0, <2>0, <2>8, Revoking DEF setPassword, rows, SessionTypeOK, RotationInv
  <2>9. CASE revokeAllSessions(c)
    BY <1>0, <2>0, <2>9, Revoking DEF revokeAllSessions, AllRevoked, SessionTypeOK, RotationInv
  <2>10. CASE AuthCrash(c)
    BY <1>0, <2>0, <2>10, Revoking DEF AuthCrash, rows, SessionTypeOK, RotationInv
  <2>11. ASSUME NEW t \in Tokens, refresh(c, t)
         PROVE  RotationInv'
    BY <1>0, <2>0, <2>11, Revoking DEF refresh, rows, SessionTypeOK, RotationInv
  <2>12. ASSUME NEW t \in Tokens, issueSession(c, t)
         PROVE  RotationInv'
    BY <1>0, <2>12, IssueRotation
  <2>13. ASSUME NEW t \in Tokens, revokeOtherSessions(c, t)
         PROVE  RotationInv'
    BY <1>0, <2>0, <2>13, Revoking DEF revokeOtherSessions, rows, SessionTypeOK, RotationInv, Live
  <2>14. ASSUME NEW l \in Links, MintLink(c, l)
         PROVE  RotationInv'
    BY <1>0, <2>0, <2>14, Revoking DEF MintLink, rows, SessionTypeOK, RotationInv
  <2>15. ASSUME NEW l \in Links, confirmPasswordReset(c, l)
         PROVE  RotationInv'
    BY <1>0, <2>0, <2>15, Revoking DEF confirmPasswordReset, rows, SessionTypeOK, RotationInv
  <2>16. QED
    BY <1>3, <2>1, <2>2, <2>3, <2>4, <2>5, <2>6, <2>7, <2>8, <2>9, <2>10, <2>11, <2>12,
       <2>13, <2>14, <2>15 DEF AuthStep
<1>4. QED
  BY <1>1, <1>2, <1>3 DEF SessionNext

\* However refreshes overlap, fail or repeat, a login never has two live sessions.
THEOREM RotationCorrect == SessionSpec => []OneLivePerLogin
<1>1. RotationInv => OneLivePerLogin
  BY DEF RotationInv
<1>2. QED
  BY <1>1, RotationInit, RotationStep, PTL DEF SessionSpec

-----------------------------------------------------------------------------
(* Reset links.  A call that claimed a link is the only one that will use  *)
(* it, and has not yet.                                                    *)

Using(c) == At(c, "set") /\ auth[c].arg # Nothing

LinkInv ==
  /\ SessionTypeOK
  /\ LinkSetsPasswordOnce
  /\ \A l \in Links : link[l] # "consumed" => resets[l] = 0
  /\ \A c \in AuthCalls : Using(c) => link[auth[c].arg] = "consumed" /\ resets[auth[c].arg] = 0
  /\ \A c, d \in AuthCalls : Using(c) /\ Using(d) /\ auth[c].arg = auth[d].arg => c = d

LEMMA LinkInit == SessionInit => LinkInv
  BY SessionInitType DEF SessionInit, LinkInv, LinkSetsPasswordOnce, Using, At, NoCall, Frame

\* Steps that set no password and move no frame into using a link.
LEMMA NotUsing ==
  ASSUME LinkInv, SessionTypeOK', resets' = resets,
         \A l \in Links : link[l] = "consumed" => link'[l] = "consumed",
         \A l \in Links : link'[l] # "consumed" => link[l] # "consumed",
         \A c \in AuthCalls : auth'[c] = auth[c] \/ auth'[c].step # "set" \/ auth'[c].arg = Nothing
  PROVE  LinkInv'
<1>1. \A c \in AuthCalls : Using(c)' => Using(c) /\ auth'[c] = auth[c] /\ auth[c].arg \in Links
  BY FrameShape DEF Using, At, LinkInv
<1>2. LinkSetsPasswordOnce'
  BY DEF LinkInv, LinkSetsPasswordOnce
<1>3. \A c \in AuthCalls : Using(c)' => link'[auth'[c].arg] = "consumed" /\ resets'[auth'[c].arg] = 0
  BY <1>1 DEF LinkInv
<1>4. \A c, d \in AuthCalls : Using(c)' /\ Using(d)' /\ auth'[c].arg = auth'[d].arg => c = d
  BY <1>1 DEF LinkInv
<1>5. QED
  BY <1>2, <1>3, <1>4 DEF LinkInv

LEMMA LinkStep == LinkInv /\ [SessionNext]_sessionVars => LinkInv'
<1> SUFFICES ASSUME LinkInv, [SessionNext]_sessionVars
             PROVE  LinkInv'
  OBVIOUS
<1>0. SessionTypeOK' /\ SessionTypeOK
  BY SessionTypeStep DEF LinkInv
<1>1. ASSUME NEW t \in Tokens, logout(t)
      PROVE  LinkInv'
  BY <1>0, <1>1, NotUsing DEF logout, resetRows
<1>2. CASE UNCHANGED sessionVars
  BY <1>0, <1>2, NotUsing DEF sessionVars, resetRows
<1>3. ASSUME NEW c \in AuthCalls, AuthStep(c)
      PROVE  LinkInv'
  <2> USE DEF Goto, Frame, NoCall
  <2>1. CASE ClaimLink(c)
    <3> DEFINE l == auth[c].arg
    <3>1. l \in Links
      BY <1>0, <2>1, FrameShape DEF ClaimLink, At
    <3>2. CASE link[l] # "open"
      BY <1>0, <2>1, <3>2, NotUsing DEF ClaimLink, SessionTypeOK
    <3>3. CASE link[l] = "open"
      <4>1. /\ link' = [link EXCEPT ![l] = "consumed"] /\ resets' = resets /\ resets[l] = 0
            /\ auth'[c] = Frame("set", l, {}) /\ \A d \in AuthCalls \ {c} : auth'[d] = auth[d]
        BY <1>0, <2>1, <3>1, <3>3 DEF ClaimLink, SessionTypeOK, LinkInv
      <4>2. ASSUME NEW d \in AuthCalls \ {c}, Using(d)'
            PROVE  Using(d) /\ auth'[d] = auth[d] /\ auth[d].arg \in Links \ {l}
        BY <1>0, <3>3, <4>1, <4>2, FrameShape DEF Using, At, LinkInv
      <4>3. \A k \in Links : k # l => link'[k] = link[k]
        BY <1>0, <4>1 DEF SessionTypeOK
      <4>4. link'[l] = "consumed"
        BY <1>0, <3>1, <4>1 DEF SessionTypeOK
      <4>5. \A d \in AuthCalls : Using(d)' =>
              link'[auth'[d].arg] = "consumed" /\ resets'[auth'[d].arg] = 0
        BY <4>1, <4>2, <4>3, <4>4 DEF LinkInv
      <4>6. \A d, e \in AuthCalls : Using(d)' /\ Using(e)' /\ auth'[d].arg = auth'[e].arg => d = e
        BY <4>1, <4>2 DEF LinkInv
      <4>7. LinkSetsPasswordOnce' /\ \A k \in Links : link'[k] # "consumed" => resets'[k] = 0
        BY <4>1, <4>3, <4>4 DEF LinkInv, LinkSetsPasswordOnce
      <4>8. QED
        BY <1>0, <4>5, <4>6, <4>7 DEF LinkInv
    <3>4. QED
      BY <3>2, <3>3
  <2>2. CASE setPassword(c)
    <3> DEFINE l == auth[c].arg
    <3>1. /\ auth'[c] = Frame("revokeAll", l, {}) /\ \A d \in AuthCalls \ {c} : auth'[d] = auth[d]
          /\ link' = link /\ \A k \in Links : resets'[k] = IF k = l THEN resets[k] + 1 ELSE resets[k]
      BY <1>0, <2>2 DEF setPassword, SessionTypeOK
    <3>2. l \in Links \cup {Nothing}
      BY <1>0, <2>2, FrameShape DEF setPassword, At
    <3>3. l \in Links => Using(c) /\ link[l] = "consumed" /\ resets[l] = 0
      BY <2>2, NothingAssumption DEF setPassword, Using, At, LinkInv
    <3>4. ASSUME NEW d \in AuthCalls, Using(d)'
          PROVE  d # c /\ Using(d) /\ auth'[d] = auth[d] /\ auth[d].arg \in Links
      BY <1>0, <3>1, <3>4, FrameShape DEF Using, At
    <3>5. ASSUME NEW d \in AuthCalls, Using(d)'
          PROVE  link'[auth'[d].arg] = "consumed" /\ resets'[auth'[d].arg] = 0
      <4>1. auth[d].arg # l
        BY <3>3, <3>4, <3>5 DEF LinkInv
      <4>2. QED
        BY <3>1, <3>4, <3>5, <4>1 DEF LinkInv
    <3>6. LinkSetsPasswordOnce' /\ \A k \in Links : link'[k] # "consumed" => resets'[k] = 0
      BY <3>1, <3>3 DEF LinkInv, LinkSetsPasswordOnce
    <3>7. \A d, e \in AuthCalls : Using(d)' /\ Using(e)' /\ auth'[d].arg = auth'[e].arg => d = e
      BY <3>4 DEF LinkInv
    <3>8. QED
      BY <1>0, <3>5, <3>6, <3>7 DEF LinkInv
  <2>3. CASE login(c) \/ changePassword(c) \/ AuthCrash(c)
    BY <1>0, <2>3, NotUsing DEF login, changePassword, AuthCrash, resetRows, SessionTypeOK
  <2>4. CASE Rotate(c)
    BY <1>0, <2>4, NotUsing DEF Rotate, resetRows, SessionTypeOK
  <2>5. CASE ReuseDetected(c) \/ RevokeTargets(c) \/ revokeAllSessions(c)
    BY <1>0, <2>5, NotUsing
       DEF ReuseDetected, RevokeTargets, revokeAllSessions, resetRows, SessionTypeOK
  <2>6. CASE requestPasswordReset(c)
    BY <1>0, <2>6, NotUsing DEF requestPasswordReset, SessionTypeOK
  <2>7. ASSUME NEW t \in Tokens, refresh(c, t) \/ issueSession(c, t) \/ revokeOtherSessions(c, t)
        PROVE  LinkInv'
    BY <1>0, <2>7, NotUsing
       DEF refresh, issueSession, revokeOtherSessions, resetRows, SessionTypeOK
  <2>8. ASSUME NEW l \in Links, MintLink(c, l) \/ confirmPasswordReset(c, l)
        PROVE  LinkInv'
    BY <1>0, <2>8, NotUsing DEF MintLink, confirmPasswordReset, resetRows, SessionTypeOK
  <2>9. QED
    BY <1>3, <2>1, <2>2, <2>3, <2>4, <2>5, <2>6, <2>7, <2>8 DEF AuthStep
<1>4. QED
  BY <1>1, <1>2, <1>3 DEF SessionNext

\* A reset link changes the password at most once, for any number of overlapping clicks.
THEOREM LinkCorrect == SessionSpec => []LinkSetsPasswordOnce
<1>1. LinkInv => LinkSetsPasswordOnce
  BY DEF LinkInv
<1>2. QED
  BY <1>1, LinkInit, LinkStep, PTL DEF SessionSpec

-----------------------------------------------------------------------------
(* Password changes.  A login whose sessions were ended lives on only      *)
(* through a call that had already given up a row of it.                   *)

EndingInv ==
  /\ RotationInv
  /\ PasswordChangeEndsSessions
  /\ \A t \in Tokens : session[t] = "none" => t \notin ended
  /\ \A c \in AuthCalls : Exchanging(c) /\ root[auth[c].arg] \in ended
       => root[auth[c].arg] \in overtaken

LEMMA EndingInit == SessionInit => EndingInv
  BY RotationInit DEF SessionInit, EndingInv, PasswordChangeEndsSessions, Live, Exchanging, At,
     NoCall, Frame

\* Steps that make nothing live, end nothing and exchange nothing new.
LEMMA NotEnding ==
  ASSUME EndingInv, RotationInv', root' = root, ended' = ended, overtaken' = overtaken,
         Live' \subseteq Live, \A t \in Tokens : session'[t] = "none" => session[t] = "none",
         \A c \in AuthCalls : \/ auth'[c] = auth[c]
                              \/ auth'[c].step # "issue" \/ auth'[c].arg = Nothing
                              \/ auth'[c].arg \in Live
  PROVE  EndingInv'
<1>1. ASSUME NEW c \in AuthCalls, Exchanging(c)', root[auth'[c].arg] \in ended
      PROVE  root[auth'[c].arg] \in overtaken
  BY <1>1 DEF Exchanging, At, EndingInv, PasswordChangeEndsSessions
<1>2. PasswordChangeEndsSessions'
  BY DEF EndingInv, PasswordChangeEndsSessions
<1>3. QED
  BY <1>1, <1>2 DEF EndingInv

LEMMA EndingStep == EndingInv /\ [SessionNext]_sessionVars => EndingInv'
<1> SUFFICES ASSUME EndingInv, [SessionNext]_sessionVars
             PROVE  EndingInv'
  OBVIOUS
<1>0. RotationInv /\ RotationInv' /\ SessionTypeOK
  BY RotationStep DEF EndingInv, RotationInv
<1>1. ASSUME NEW t \in Tokens, logout(t)
      PROVE  EndingInv'
  BY <1>0, <1>1, NotEnding DEF logout, sessionHistory, SessionTypeOK, Live
<1>2. CASE UNCHANGED sessionVars
  BY <1>0, <1>2, NotEnding DEF sessionVars, rows, sessionHistory, Live
<1>3. ASSUME NEW c \in AuthCalls, AuthStep(c)
      PROVE  EndingInv'
  <2> USE DEF Goto, Frame, NoCall
  <2>1. CASE Rotate(c)
    <3>1. auth[c].arg \in Tokens
      BY <1>0, <2>1, FrameShape DEF Rotate, At
    <3>2. QED
      BY <1>0, <2>1, <3>1, NotEnding DEF Rotate, sessionHistory, SessionTypeOK, Live
  <2>2. CASE revokeAllSessions(c)
    <3>1. Live' = {}
      BY <1>0, <2>2 DEF revokeAllSessions, AllRevoked, Live
    <3>2. \A d \in AuthCalls : auth'[d] = auth[d] \/ auth'[d].step = "idle"
      BY <1>0, <2>2 DEF revokeAllSessions, SessionTypeOK
    <3>3. ASSUME NEW d \in AuthCalls, Exchanging(d)'
          PROVE  root[auth'[d].arg] \in overtaken'
      <4>1. Exchanging(d) /\ auth'[d] = auth[d] /\ auth[d].arg \in Inserting
        BY <3>2, <3>3 DEF Exchanging, At, Inserting
      <4>2. QED
        BY <2>2, <4>1 DEF revokeAllSessions
    <3>4. ASSUME NEW t \in Tokens, session'[t] = "none"
          PROVE  t \notin ended'
      <4>1. session[t] = "none"
        BY <1>0, <2>2, <3>4 DEF revokeAllSessions, AllRevoked
      <4>2. \A u \in Tokens : root[u] # t
        BY <1>0, <4>1 DEF RotationInv
      <4>3. QED
        BY <2>2, <4>1, <4>2 DEF revokeAllSessions, EndingInv
    <3>5. PasswordChangeEndsSessions'
      BY <3>1 DEF PasswordChangeEndsSessions
    <3>6. root' = root
      BY <2>2 DEF revokeAllSessions
    <3>7. QED
      BY <1>0, <3>3, <3>4, <3>5, <3>6 DEF EndingInv
  <2>3. ASSUME NEW t \in Tokens, issueSession(c, t)
        PROVE  EndingInv'
    <3>1. /\ session[t] = "none" /\ t \notin ended /\ ended' = ended /\ overtaken' = overtaken
          /\ Live' = Live \cup {t}
          /\ \A u \in Tokens \ {t} : root'[u] = root[u] /\ session'[u] = session[u]
          /\ session'[t] = "live"
          /\ root'[t] = IF auth[c].arg = Nothing THEN t ELSE root[auth[c].arg]
          /\ auth'[c] = NoCall /\ \A d \in AuthCalls \ {c} : auth'[d] = auth[d]
      BY <1>0, <2>3 DEF issueSession, sessionHistory, SessionTypeOK, Live, EndingInv
    <3>2. auth[c].arg # Nothing => Exchanging(c)
      BY <2>3 DEF issueSession, Exchanging
    <3>3. root'[t] \in ended => root'[t] \in overtaken
      BY <3>1, <3>2 DEF EndingInv
    <3>4. PasswordChangeEndsSessions'
      BY <3>1, <3>3 DEF PasswordChangeEndsSessions, EndingInv, Live
    <3>5. ASSUME NEW d \in AuthCalls, Exchanging(d)'
          PROVE  Exchanging(d) /\ auth'[d] = auth[d] /\ auth[d].arg \in Tokens \ {t}
      <4>1. d # c /\ auth'[d] = auth[d] /\ Exchanging(d)
        BY <3>1, <3>5 DEF Exchanging, At
      <4>2. QED
        BY <1>0, <3>1, <4>1, FrameShape DEF RotationInv, Exchanging, At
    <3>6. QED
      BY <1>0, <3>1, <3>4, <3>5 DEF EndingInv
  <2>4. CASE \/ login(c) \/ requestPasswordReset(c) \/ ClaimLink(c) \/ changePassword(c)
             \/ setPassword(c) \/ AuthCrash(c)
    BY <1>0, <2>4, NotEnding DEF login, requestPasswordReset, ClaimLink, changePassword,
       setPassword, AuthCrash, rows, sessionHistory, SessionTypeOK, Live
  <2>5. CASE ReuseDetected(c)
    BY <1>0, <2>5, NotEnding DEF ReuseDetected, AllRevoked, sessionHistory, SessionTypeOK, Live
  <2>6. CASE RevokeTargets(c)
    BY <1>0, <2>6, NotEnding DEF RevokeTargets, sessionHistory, SessionTypeOK, Live
  <2>7. ASSUME NEW t \in Tokens, refresh(c, t) \/ revokeOtherSessions(c, t)
        PROVE  EndingInv'
    BY <1>0, <2>7, NotEnding
       DEF refresh, revokeOtherSessions, rows, sessionHistory, SessionTypeOK, Live
  <2>8. ASSUME NEW l \in Links, MintLink(c, l) \/ confirmPasswordReset(c, l)
        PROVE  EndingInv'
    BY <1>0, <2>8, NotEnding
       DEF MintLink, confirmPasswordReset, rows, sessionHistory, SessionTypeOK, Live
  <2>9. QED
    BY <1>3, <2>1, <2>2, <2>3, <2>4, <2>5, <2>6, <2>7, <2>8 DEF AuthStep
<1>4. QED
  BY <1>1, <1>2, <1>3 DEF SessionNext

\* After a password change only a refresh that was already half way can leave a session of
\* an earlier login.
THEOREM PasswordChangeCorrect == SessionSpec => []PasswordChangeEndsSessions
<1>1. EndingInv => PasswordChangeEndsSessions
  BY DEF EndingInv
<1>2. QED
  BY <1>1, EndingInit, EndingStep, PTL DEF SessionSpec

-----------------------------------------------------------------------------
(* The idempotency key.                                                    *)

LEMMA IdempotencyInitType == IdempotencyInit => IdempotencyTypeOK
BY DEF IdempotencyInit, IdempotencyTypeOK

LEMMA IdempotencyTypeStep ==
  ASSUME IdempotencyTypeOK, [IdempotencyNext]_idempotencyVars
  PROVE  IdempotencyTypeOK'
<1>1. CASE UNCHANGED idempotencyVars
  BY <1>1 DEF IdempotencyTypeOK, idempotencyVars
<1>2. CASE KeyExpires
  BY <1>2 DEF KeyExpires, IdempotencyTypeOK
<1>3. ASSUME NEW q \in Requests, IdempotencyStep(q)
      PROVE  IdempotencyTypeOK'
  <2>1. CASE ClaimKey(q) \/ FailOpen(q)
    BY <2>1 DEF ClaimKey, FailOpen, Then, IdempotencyTypeOK, Answers
  <2>2. CASE Replay(q) \/ LookupFails(q) \/ RequestCut(q)
    BY <2>2 DEF Replay, LookupFails, RequestCut, Then, IdempotencyTypeOK, Answers
  <2>3. CASE Handle(q)
    BY <2>3 DEF Handle, HandleThen, Then, IdempotencyTypeOK, Answers
  <2>4. CASE SaveResponse(q)
    BY <2>4 DEF SaveResponse, Then, IdempotencyTypeOK, Answers
  <2>5. QED
    BY <1>3, <2>1, <2>2, <2>3, <2>4 DEF IdempotencyStep
<1>4. QED
  BY <1>1, <1>2, <1>3 DEF IdempotencyNext

\* Key and requests keep their types.
THEOREM IdempotencyTypeCorrect == IdempotencySpec => []IdempotencyTypeOK
BY IdempotencyInitType, IdempotencyTypeStep, PTL DEF IdempotencySpec

-----------------------------------------------------------------------------
(* Every request that may still take effect, and a free key, is paid for.  *)

Entitled == {q \in Requests : request[q] \in {"claimed", "open"}}
Free == IF marker = "none" THEN 1 ELSE 0
EffectsPaid == effects + Cardinality(Entitled) + Free <= 1 + lapses + opened

LEMMA EntitledFinite == IsFiniteSet(Entitled) /\ Cardinality(Entitled) \in Nat
BY IdempotencyAssumption, FS_Subset, FS_CardinalityType DEF Entitled

LEMMA EntitledFinitePrimed == IsFiniteSet(Entitled') /\ Cardinality(Entitled') \in Nat
BY IdempotencyAssumption, FS_Subset, FS_CardinalityType DEF Entitled

\* How a step of one request changes the number of entitled ones.
LEMMA EntitledMoves ==
  ASSUME IdempotencyTypeOK, NEW q \in Requests, NEW step, Then(q, step)
  PROVE  Cardinality(Entitled') =
           Cardinality(Entitled)
             - (IF request[q] \in {"claimed", "open"} THEN 1 ELSE 0)
             + (IF step \in {"claimed", "open"} THEN 1 ELSE 0)
<1>1. request'[q] = step /\ \A p \in Requests \ {q} : request'[p] = request[p]
  BY DEF Then, IdempotencyTypeOK
<1>2. Entitled' = IF step \in {"claimed", "open"} THEN (Entitled \ {q}) \cup {q}
                                                  ELSE Entitled \ {q}
  BY <1>1 DEF Entitled
<1>3. q \in Entitled <=> request[q] \in {"claimed", "open"}
  BY DEF Entitled
<1>4. /\ IsFiniteSet(Entitled \ {q})
      /\ Cardinality(Entitled \ {q})
           = IF q \in Entitled THEN Cardinality(Entitled) - 1 ELSE Cardinality(Entitled)
  BY EntitledFinite, FS_RemoveElement
<1>5. Cardinality((Entitled \ {q}) \cup {q}) = Cardinality(Entitled \ {q}) + 1
  BY <1>4, FS_AddElement
<1>6. QED
  BY <1>2, <1>3, <1>4, <1>5, EntitledFinite

LEMMA EffectsPaidStep ==
  ASSUME IdempotencyTypeOK, EffectsPaid, [IdempotencyNext]_idempotencyVars
  PROVE  EffectsPaid'
<1> USE EntitledFinite, EntitledFinitePrimed
<1>1. CASE UNCHANGED idempotencyVars
  BY <1>1 DEF EffectsPaid, Entitled, Free, idempotencyVars
<1>2. CASE KeyExpires
  <2>1. Entitled' = Entitled
    BY <1>2 DEF KeyExpires, Entitled
  <2>2. QED
    BY <1>2, <2>1 DEF KeyExpires, EffectsPaid, Free, IdempotencyTypeOK
<1>3. ASSUME NEW q \in Requests, IdempotencyStep(q)
      PROVE  EffectsPaid'
  <2>1. CASE ClaimKey(q)
    <3>1. CASE marker = "none"
      <4>1. Cardinality(Entitled') = Cardinality(Entitled) + 1
        BY <2>1, <3>1, EntitledMoves DEF ClaimKey
      <4>2. QED
        BY <2>1, <3>1, <4>1 DEF ClaimKey, EffectsPaid, Free, IdempotencyTypeOK
    <3>2. CASE marker # "none"
      <4>1. Cardinality(Entitled') = Cardinality(Entitled)
        BY <2>1, <3>2, EntitledMoves DEF ClaimKey
      <4>2. QED
        BY <2>1, <3>2, <4>1 DEF ClaimKey, EffectsPaid, Free, IdempotencyTypeOK
    <3>3. QED
      BY <3>1, <3>2
  <2>2. CASE FailOpen(q)
    <3>1. Cardinality(Entitled') = Cardinality(Entitled) + 1
      BY <2>2, EntitledMoves DEF FailOpen
    <3>2. QED
      BY <2>2, <3>1 DEF FailOpen, EffectsPaid, Free, IdempotencyTypeOK
  <2>3. CASE Handle(q)
    <3>1. Cardinality(Entitled') = Cardinality(Entitled) - 1
      BY <2>3, EntitledMoves DEF Handle, HandleThen
    <3>2. effects' \in {effects, effects + 1} /\ UNCHANGED <<marker, lapses, opened>>
      BY <2>3 DEF Handle, HandleThen
    <3>3. QED
      BY <3>1, <3>2 DEF EffectsPaid, Free, IdempotencyTypeOK
  <2>4. CASE SaveResponse(q)
    <3>1. Cardinality(Entitled') = Cardinality(Entitled)
      BY <2>4, EntitledMoves DEF SaveResponse
    <3>2. marker' = "none" => marker = "none"
      BY <2>4 DEF SaveResponse
    <3>3. QED
      BY <2>4, <3>1, <3>2 DEF SaveResponse, EffectsPaid, Free, IdempotencyTypeOK
  <2>5. CASE Replay(q) \/ LookupFails(q) \/ RequestCut(q)
    <3>1. PICK step : Then(q, step) /\ step \notin {"claimed", "open"}
      BY <2>5 DEF Replay, LookupFails, RequestCut
    <3>2. Cardinality(Entitled') <= Cardinality(Entitled)
      BY <3>1, EntitledMoves
    <3>3. QED
      BY <2>5, <3>2 DEF Replay, LookupFails, RequestCut, EffectsPaid, Free, IdempotencyTypeOK
  <2>6. QED
    BY <1>3, <2>1, <2>2, <2>3, <2>4, <2>5 DEF IdempotencyStep
<1>4. QED
  BY <1>1, <1>2, <1>3 DEF IdempotencyNext

\* However a client repeats a request, the operation takes effect once, and once more for
\* each expiry of the key and each request Redis missed.
THEOREM EffectsCorrect == IdempotencySpec => []EffectsBounded
<1>1. IdempotencyInit => EffectsPaid
  <2>1. SUFFICES ASSUME IdempotencyInit PROVE EffectsPaid
    OBVIOUS
  <2>2. Entitled = {}
    BY <2>1 DEF IdempotencyInit, Entitled
  <2>3. QED
    BY <2>1, <2>2, FS_EmptySet DEF IdempotencyInit, EffectsPaid, Free
<1>2. IdempotencyTypeOK /\ EffectsPaid => EffectsBounded
  BY EntitledFinite DEF IdempotencyTypeOK, EffectsPaid, EffectsBounded, Free
<1>3. QED
  BY <1>1, <1>2, EffectsPaidStep, IdempotencyTypeCorrect, PTL DEF IdempotencySpec

-----------------------------------------------------------------------------
(* A success that is cached, answered or on its way took effect.           *)

SuccessIsReal ==
  effects = 0 => /\ marker # "done"
                 /\ \A q \in Requests : request[q] \notin {"saveDone", "replayedDone"}

LEMMA SuccessIsRealStep ==
  ASSUME IdempotencyTypeOK, SuccessIsReal, [IdempotencyNext]_idempotencyVars
  PROVE  SuccessIsReal'
<1>1. CASE UNCHANGED idempotencyVars
  BY <1>1 DEF SuccessIsReal, idempotencyVars
<1>2. CASE KeyExpires
  BY <1>2 DEF KeyExpires, SuccessIsReal
<1>3. ASSUME NEW q \in Requests, IdempotencyStep(q)
      PROVE  SuccessIsReal'
  <2>1. CASE ClaimKey(q) \/ FailOpen(q) \/ LookupFails(q) \/ RequestCut(q)
    BY <2>1 DEF ClaimKey, FailOpen, LookupFails, RequestCut, Then, SuccessIsReal,
                IdempotencyTypeOK
  <2>2. CASE Replay(q)
    BY <2>2 DEF Replay, Then, SuccessIsReal, IdempotencyTypeOK
  <2>3. CASE Handle(q)
    BY <2>3 DEF Handle, HandleThen, Then, SuccessIsReal, IdempotencyTypeOK
  <2>4. CASE SaveResponse(q)
    BY <2>4 DEF SaveResponse, Then, SuccessIsReal, IdempotencyTypeOK
  <2>5. QED
    BY <1>3, <2>1, <2>2, <2>3, <2>4 DEF IdempotencyStep
<1>4. QED
  BY <1>1, <1>2, <1>3 DEF IdempotencyNext

\* A replayed success stands for an operation that took effect.
THEOREM ReplayCorrect == IdempotencySpec => []ReplayIsReal
<1>1. IdempotencyInit => SuccessIsReal
  BY DEF IdempotencyInit, SuccessIsReal
<1>2. IdempotencyTypeOK /\ SuccessIsReal => ReplayIsReal
  BY DEF IdempotencyTypeOK, SuccessIsReal, ReplayIsReal
<1>3. QED
  BY <1>1, <1>2, SuccessIsRealStep, IdempotencyTypeCorrect, PTL DEF IdempotencySpec
=============================================================================
