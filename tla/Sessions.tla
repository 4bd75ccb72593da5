------------------------------ MODULE Sessions ------------------------------
(***************************************************************************)
(* The refresh tokens and password reset links of one account:             *)
(* apps/backend/src/services/auth.service.ts.                              *)
(*                                                                         *)
(* A session is a row of refresh_tokens.  refresh() exchanges a row for a  *)
(* new one in three statements: it reads the row, revokes it if it is      *)
(* still unrevoked, and inserts the successor.  A reset link is claimed    *)
(* the same way before it sets the password.  None of these is one         *)
(* transaction, so calls overlap and a crash leaves a prefix.              *)
(*                                                                         *)
(* Expiry is left out: a call with an expired row ends at its check.       *)
(***************************************************************************)
EXTENDS Naturals

CONSTANTS
  Tokens,    \* refresh_tokens rows a behaviour may insert
  Links,     \* password_resets rows a behaviour may insert
  AuthCalls, \* calls of the service that may overlap
  Nothing    \* no token and no link

ASSUME NothingAssumption == Nothing \notin Tokens \cup Links

VARIABLES
  session,   \* each row of refresh_tokens: "none", "live" or "revoked"
  root,      \* history: the row a row descends from by exchanges; a login's row is its own
  link,      \* each row of password_resets: "none", "open" or "consumed"
  resets,    \* history: how often each link set the password
  ended,     \* history: the logins made before a password change revoked every session
  overtaken, \* history: the logins with a successor to insert when that happened
  auth       \* each call in flight: its next statement and what it read

sessionVars == <<session, root, link, resets, ended, overtaken, auth>>
rows == <<session, root>>
resetRows == <<link, resets>>
sessionHistory == <<ended, overtaken>>

Frame(step, arg, targets) == [step |-> step, arg |-> arg, targets |-> targets]
NoCall == Frame("idle", Nothing, {})

SessionInit ==
  /\ session = [t \in Tokens |-> "none"]
  /\ root = [t \in Tokens |-> Nothing]
  /\ link = [l \in Links |-> "none"]
  /\ resets = [l \in Links |-> 0]
  /\ ended = {} /\ overtaken = {}
  /\ auth = [c \in AuthCalls |-> NoCall]

Live == {t \in Tokens : session[t] = "live"}
Goto(c, frame) == auth' = [auth EXCEPT ![c] = frame]
At(c, step) == auth[c].step = step

-----------------------------------------------------------------------------
(* Sessions.                                                               *)

\* login(), oauthSignIn() and completeTwoFactorLogin() accept the user.
login(c) ==
  /\ At(c, "idle")
  /\ Goto(c, Frame("issue", Nothing, {}))
  /\ UNCHANGED <<rows, resetRows, sessionHistory>>

\* refresh() reads the row; one that is already revoked counts as reuse.
refresh(c, t) ==
  /\ At(c, "idle")
  /\ session[t] # "none"
  /\ Goto(c, Frame(IF session[t] = "live" THEN "rotate" ELSE "reuse", t, {}))
  /\ UNCHANGED <<rows, resetRows, sessionHistory>>

RotateById(c) ==                                               \* mutant
  /\ At(c, "rotate")
  /\ session' = [session EXCEPT ![auth[c].arg] = "revoked"]
  /\ Goto(c, Frame("issue", auth[c].arg, {}))
  /\ UNCHANGED <<root, resetRows, sessionHistory>>
\* The conditional update; a row revoked meanwhile ends the call.
Rotate(c) ==
  /\ At(c, "rotate")
  /\ LET t == auth[c].arg IN
     IF session[t] = "live"
     THEN /\ session' = [session EXCEPT ![t] = "revoked"]
          /\ Goto(c, Frame("issue", t, {}))
     ELSE Goto(c, NoCall) /\ UNCHANGED session
  /\ UNCHANGED <<root, resetRows, sessionHistory>>

issueSession(c, t) ==
  /\ At(c, "issue")
  /\ session[t] = "none"
  /\ session' = [session EXCEPT ![t] = "live"]
  /\ root' = [root EXCEPT ![t] = IF auth[c].arg = Nothing THEN t ELSE root[auth[c].arg]]
  /\ Goto(c, NoCall)
  /\ UNCHANGED <<resetRows, sessionHistory>>

AllRevoked == [t \in Tokens |-> IF session[t] = "live" THEN "revoked" ELSE session[t]]

\* The rest of a refresh() that found its row revoked.
ReuseDetected(c) ==
  /\ At(c, "reuse")
  /\ session' = AllRevoked
  /\ Goto(c, NoCall)
  /\ UNCHANGED <<root, resetRows, sessionHistory>>

\* logout() and revokeSession(): one update.
logout(t) ==
  /\ session[t] = "live"
  /\ session' = [session EXCEPT ![t] = "revoked"]
  /\ UNCHANGED <<root, resetRows, sessionHistory, auth>>

\* revokeOtherSessions() reads the rows, and revokes by id all but the caller's.
revokeOtherSessions(c, keep) ==
  /\ At(c, "idle")
  /\ Live \ {keep} # {}
  /\ Goto(c, Frame("others", keep, Live \ {keep}))
  /\ UNCHANGED <<rows, resetRows, sessionHistory>>
RevokeTargets(c) ==
  /\ At(c, "others")
  /\ session' = [t \in Tokens |-> IF t \in auth[c].targets THEN "revoked" ELSE session[t]]
  /\ Goto(c, NoCall)
  /\ UNCHANGED <<root, resetRows, sessionHistory>>

-----------------------------------------------------------------------------
(* Password changes.                                                       *)

\* requestPasswordReset() voids the outstanding links, then inserts one.
requestPasswordReset(c) ==
  /\ At(c, "idle")
  /\ link' = [l \in Links |-> IF link[l] = "open" THEN "consumed" ELSE link[l]]
  /\ Goto(c, Frame("mint", Nothing, {}))
  /\ UNCHANGED <<rows, resets, sessionHistory>>
MintLink(c, l) ==
  /\ At(c, "mint")
  /\ link[l] = "none"
  /\ link' = [link EXCEPT ![l] = "open"]
  /\ Goto(c, NoCall)
  /\ UNCHANGED <<rows, resets, sessionHistory>>

confirmPasswordReset(c, l) ==
  /\ At(c, "idle")
  /\ link[l] = "open"
  /\ Goto(c, Frame("claim", l, {}))
  /\ UNCHANGED <<rows, resetRows, sessionHistory>>

ClaimUnchecked(c) ==                                           \* mutant
  /\ At(c, "claim")
  /\ link' = [link EXCEPT ![auth[c].arg] = "consumed"]
  /\ Goto(c, Frame("set", auth[c].arg, {}))
  /\ UNCHANGED <<rows, resets, sessionHistory>>
ClaimLink(c) ==
  /\ At(c, "claim")
  /\ LET l == auth[c].arg IN
     IF link[l] = "open"
     THEN /\ link' = [link EXCEPT ![l] = "consumed"]
          /\ Goto(c, Frame("set", l, {}))
     ELSE Goto(c, NoCall) /\ UNCHANGED link
  /\ UNCHANGED <<rows, resets, sessionHistory>>

\* changePassword(): the current password was right.
changePassword(c) ==
  /\ At(c, "idle")
  /\ Goto(c, Frame("set", Nothing, {}))
  /\ UNCHANGED <<rows, resetRows, sessionHistory>>

setPassword(c) ==
  /\ At(c, "set")
  /\ resets' = [l \in Links |-> IF l = auth[c].arg THEN resets[l] + 1 ELSE resets[l]]
  /\ Goto(c, Frame("revokeAll", auth[c].arg, {}))
  /\ UNCHANGED <<rows, link, sessionHistory>>

Inserting == {auth[c].arg : c \in {d \in AuthCalls : At(d, "issue")}} \ {Nothing}

SkipNewest(c) ==                                               \* mutant
  /\ At(c, "revokeAll")
  /\ session' = [t \in Tokens |-> IF session[t] = "live" /\ root[t] = t
                                  THEN "revoked" ELSE session[t]]
  /\ ended' = ended \cup {root[t] : t \in {u \in Tokens : session[u] # "none"}}
  /\ overtaken' = overtaken \cup {root[t] : t \in Inserting}
  /\ Goto(c, NoCall)
  /\ UNCHANGED <<root, resetRows>>
revokeAllSessions(c) ==
  /\ At(c, "revokeAll")
  /\ session' = AllRevoked
  /\ ended' = ended \cup {root[t] : t \in {u \in Tokens : session[u] # "none"}}
  /\ overtaken' = overtaken \cup {root[t] : t \in Inserting}
  /\ Goto(c, NoCall)
  /\ UNCHANGED <<root, resetRows>>

\* The process dies, or a statement fails: what was committed stays.
AuthCrash(c) ==
  /\ ~At(c, "idle")
  /\ Goto(c, NoCall)
  /\ UNCHANGED <<rows, resetRows, sessionHistory>>

-----------------------------------------------------------------------------
AuthStep(c) ==
  \/ login(c) \/ Rotate(c) \/ ReuseDetected(c) \/ RevokeTargets(c)
  \/ requestPasswordReset(c) \/ ClaimLink(c) \/ changePassword(c) \/ setPassword(c)
  \/ revokeAllSessions(c) \/ AuthCrash(c)
  \/ \E t \in Tokens : refresh(c, t) \/ issueSession(c, t) \/ revokeOtherSessions(c, t)
  \/ \E l \in Links : MintLink(c, l) \/ confirmPasswordReset(c, l)

SessionNext ==
  \/ \E c \in AuthCalls : AuthStep(c)
  \/ \E t \in Tokens : logout(t)

SessionSpec == SessionInit /\ [][SessionNext]_sessionVars

-----------------------------------------------------------------------------
(* Properties.                                                             *)

AuthFrames ==
       [step : {"idle", "mint"}, arg : {Nothing}, targets : {{}}]
  \cup [step : {"rotate", "reuse"}, arg : Tokens, targets : {{}}]
  \cup [step : {"issue"}, arg : Tokens \cup {Nothing}, targets : {{}}]
  \cup [step : {"others"}, arg : Tokens, targets : SUBSET Tokens]
  \cup [step : {"claim"}, arg : Links, targets : {{}}]
  \cup [step : {"set", "revokeAll"}, arg : Links \cup {Nothing}, targets : {{}}]

\* Rows and frames have the shapes the service gives them.
SessionTypeOK ==
  /\ session \in [Tokens -> {"none", "live", "revoked"}]
  /\ root \in [Tokens -> Tokens \cup {Nothing}]
  /\ link \in [Links -> {"none", "open", "consumed"}]
  /\ resets \in [Links -> Nat]
  /\ auth \in [AuthCalls -> AuthFrames]

\* Rotation keeps one session per login: however refreshes of one token overlap, fail or
\* are repeated, a login never has two unrevoked rows.
OneLivePerLogin ==
  \A t, u \in Live : root[t] = root[u] => t = u

\* "Atomic single-use claim": two clicks of a link set the password once, also when the
\* first call dies half way.
LinkSetsPasswordOnce == \A l \in Links : resets[l] <= 1

\* A password change ends the sessions of every earlier login, except where a refresh had
\* already given up its row and was about to insert the successor.
PasswordChangeEndsSessions ==
  \A t \in Live : root[t] \in ended => root[t] \in overtaken
=============================================================================
