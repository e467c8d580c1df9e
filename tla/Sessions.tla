------------------------------ MODULE Sessions ------------------------------
(* The sessions of one identity: login, refresh, logout and revocation in  *)
(* the auth-service, changes of the password, and the guard of the gateway *)
(* that answers from a cache which revocations invalidate by a version.    *)
(* Database and cache are two systems: a revocation is an update and then  *)
(* an increment of the version, whose failure is only logged.              *)
EXTENDS Naturals, Sequences

CONSTANTS
  Guards,        \* requests that pass the JwtAuthGuard, one after the other
  Revokers,      \* revocations, logouts and changes of the password
  Refreshers,    \* requests of refresh
  MaxSessions,   \* bound on sessions
  MaxPasswords,  \* bound on changes of the password
  NoVersion      \* the version when the cache cannot be read

ASSUME SessionAssumption ==
  MaxSessions \in Nat /\ MaxPasswords \in Nat /\ NoVersion \notin Nat

VARIABLES
  session,        \* the Session rows, in the order they were created
  password,       \* how often the password was changed
  login,          \* the password that each login under way has verified
  cacheVersion,   \* the session-validation version
  validation,     \* the cached validations: version, session, verdict
  guard,          \* what each request does next
  revoker,        \* what each revocation does next
  refresher       \* what each refresh does next

sessionVars ==
  <<session, password, login, cacheVersion, validation, guard, revoker, refresher>>

(* "token": how often the refresh token was rotated; "authenticated": the  *)
(* password the session knows; "raced": the password was changed while it  *)
(* logged in; "flushed": the version was advanced after its revocation.    *)
Session ==
  [revoked: BOOLEAN, token: Nat, authenticated: Nat, raced: BOOLEAN, flushed: BOOLEAN]

SessionIds == 1 .. MaxSessions
Versions == Nat \cup {NoVersion}

IdleGuard == [at |-> "Idle"]
IdleRevoker == [at |-> "Idle"]
IdleRefresher == [at |-> "Idle"]
NoLogin == [at |-> "Idle"]

(* "late": the guard began after the revocation of its session was answered *)
(* and the version advanced; "after": after the session was revoked.       *)
SessionTypeOK ==
  /\ session \in Seq(Session) /\ Len(session) <= MaxSessions
  /\ password \in Nat /\ cacheVersion \in Nat
  /\ login \in {NoLogin} \cup [at: {"Verified"}, password: Nat]
  /\ validation \subseteq (Nat \X SessionIds \X BOOLEAN)
  /\ guard \in [Guards ->
       {IdleGuard} \cup
       [at: {"Lookup", "Validate", "Store", "Accepted"}, session: SessionIds,
        version: Versions, valid: BOOLEAN, late: BOOLEAN]]
  /\ revoker \in [Revokers -> {IdleRevoker} \cup [at: {"Advance"}, sessions: SUBSET SessionIds]]
  /\ refresher \in [Refreshers ->
       {IdleRefresher} \cup [at: {"Rotate", "Rotated"}, session: SessionIds, token: Nat]]

SessionInit ==
  /\ session = << >> /\ password = 0 /\ login = NoLogin
  /\ cacheVersion = 0 /\ validation = {}
  /\ guard = [g \in Guards |-> IdleGuard]
  /\ revoker = [r \in Revokers |-> IdleRevoker]
  /\ refresher = [f \in Refreshers |-> IdleRefresher]

Live(s) == ~session[s].revoked

-----------------------------------------------------------------------------
(* login: the credential is verified, then the session is created. *)

Login ==
  /\ login = NoLogin
  /\ login' = [at |-> "Verified", password |-> password]
  /\ UNCHANGED <<session, password, cacheVersion, validation, guard, revoker, refresher>>

CreateSession ==
  /\ login # NoLogin /\ Len(session) < MaxSessions
  /\ session' = Append(session,
       [revoked |-> FALSE, token |-> 0, authenticated |-> login.password,
        raced |-> login.password # password, flushed |-> FALSE])
  /\ login' = NoLogin
  /\ UNCHANGED <<password, cacheVersion, validation, guard, revoker, refresher>>

-----------------------------------------------------------------------------
(* refresh: the session is read, then its token is exchanged. *)

Refresh(f) ==
  /\ refresher[f].at = "Idle"
  /\ \E s \in DOMAIN session :
       /\ Live(s)
       /\ refresher' = [refresher EXCEPT ![f] =
            [at |-> "Rotate", session |-> s, token |-> session[s].token]]
  /\ UNCHANGED <<session, password, login, cacheVersion, validation, guard, revoker>>

(* Mutant: the exchange does not compare the token. *)
MutRotates(f) == Live(refresher[f].session)

Rotates(f) ==
  /\ Live(refresher[f].session)
  /\ session[refresher[f].session].token = refresher[f].token

RotateRefreshToken(f) ==
  /\ refresher[f].at = "Rotate"
  /\ IF Rotates(f)
     THEN /\ session' = [session EXCEPT ![refresher[f].session].token = @ + 1]
          /\ refresher' = [refresher EXCEPT ![f].at = "Rotated"]
     ELSE refresher' = [refresher EXCEPT ![f] = IdleRefresher] /\ UNCHANGED session
  /\ UNCHANGED <<password, login, cacheVersion, validation, guard, revoker>>

-----------------------------------------------------------------------------
(* Revocations.  One UPDATE or one transaction changes the rows; the       *)
(* version is advanced afterwards, if a row was changed.                   *)

RevokeRows(r, sessions) ==
  /\ revoker[r].at = "Idle"
  /\ session' = [s \in DOMAIN session |->
       IF s \in sessions THEN [session[s] EXCEPT !.revoked = TRUE] ELSE session[s]]
  /\ revoker' = [revoker EXCEPT ![r] =
       IF sessions = {} THEN IdleRevoker ELSE [at |-> "Advance", sessions |-> sessions]]
  /\ UNCHANGED <<login, cacheVersion, validation, guard, refresher>>

LiveSessions == {s \in DOMAIN session : Live(s)}

(* logout, revokeUserSession; revokeOtherSessions; revokeAllUserSessions.  *)
RevokeSessions(r) ==
  /\ \E s \in LiveSessions :
       \E sessions \in {{s}, LiveSessions \ {s}, LiveSessions} : RevokeRows(r, sessions)
  /\ UNCHANGED password

Others(s) == LiveSessions \ {s}

(* changePasswordAndRevokeOtherSessions; the session that asks knows the   *)
(* new password.                                                           *)
ChangePassword(r) ==
  /\ revoker[r].at = "Idle" /\ password < MaxPasswords
  /\ password' = password + 1
  /\ \E s \in LiveSessions :
       /\ session' = [t \in DOMAIN session |->
            CASE t \in Others(s) -> [session[t] EXCEPT !.revoked = TRUE]
              [] t = s /\ t \notin Others(s) ->
                   [session[t] EXCEPT !.authenticated = password + 1, !.raced = FALSE]
              [] OTHER -> session[t]]
       /\ revoker' = [revoker EXCEPT ![r] =
            IF Others(s) = {} THEN IdleRevoker ELSE [at |-> "Advance", sessions |-> Others(s)]]
  /\ UNCHANGED <<login, cacheVersion, validation, guard, refresher>>

(* resetPasswordWithVerifiedDraft. *)
ResetPassword(r) ==
  /\ password < MaxPasswords
  /\ password' = password + 1
  /\ RevokeRows(r, LiveSessions)

AdvanceVersion(r) ==
  /\ revoker[r].at = "Advance"
  /\ cacheVersion' = cacheVersion + 1
  /\ session' = [s \in DOMAIN session |->
       IF s \in revoker[r].sessions THEN [session[s] EXCEPT !.flushed = TRUE] ELSE session[s]]
  /\ revoker' = [revoker EXCEPT ![r] = IdleRevoker]
  /\ UNCHANGED <<password, login, validation, guard, refresher>>

(* The cache is unavailable, or the service stops: the revocation stands. *)
AdvanceFails(r) ==
  /\ revoker[r].at = "Advance"
  /\ revoker' = [revoker EXCEPT ![r] = IdleRevoker]
  /\ UNCHANGED <<session, password, login, cacheVersion, validation, guard, refresher>>

-----------------------------------------------------------------------------
(* JwtAuthGuard.canActivate. *)

Guarding(g, at) ==
  /\ guard[g].at = at
  /\ UNCHANGED <<session, password, login, cacheVersion, revoker, refresher>>

ToGuard(g, state) == guard' = [guard EXCEPT ![g] = state]

(* The version is read, or the cache cannot be reached and is bypassed. *)
ReadVersion(g) ==
  /\ Guarding(g, "Idle")
  /\ \E s \in DOMAIN session, version \in {cacheVersion, NoVersion} :
       ToGuard(g, [at |-> IF version = NoVersion THEN "Validate" ELSE "Lookup",
                   session |-> s, version |-> version, valid |-> FALSE,
                   late |-> session[s].revoked /\ session[s].flushed])
  /\ UNCHANGED validation

Verdicts(g) ==
  {valid \in BOOLEAN : <<guard[g].version, guard[g].session, valid>> \in validation}

(* A cached verdict is final; an error of the cache counts as a miss. *)
Lookup(g) ==
  /\ Guarding(g, "Lookup")
  /\ \/ TRUE \in Verdicts(g) /\ ToGuard(g, [guard[g] EXCEPT !.at = "Accepted"])
     \/ FALSE \in Verdicts(g) /\ ToGuard(g, IdleGuard)
     \/ ToGuard(g, [guard[g] EXCEPT !.at = "Validate"])
  /\ UNCHANGED validation

ValidateSession(g) ==
  /\ Guarding(g, "Validate")
  /\ ToGuard(g, [guard[g] EXCEPT !.at = "Store", !.valid = Live(guard[g].session)])
  /\ UNCHANGED validation

Decided(g) == IF guard[g].valid THEN [guard[g] EXCEPT !.at = "Accepted"] ELSE IdleGuard

(* Mutant: the verdict is stored under the version of now. *)
MutStored(g) == <<cacheVersion, guard[g].session, guard[g].valid>>

Stored(g) == <<guard[g].version, guard[g].session, guard[g].valid>>

(* The verdict replaces the one that is cached; storing it may fail. *)
StoreValidation(g) ==
  /\ Guarding(g, "Store")
  /\ \/ /\ guard[g].version # NoVersion
        /\ validation' = {v \in validation : v[1] # Stored(g)[1] \/ v[2] # Stored(g)[2]}
                           \cup {Stored(g)}
     \/ UNCHANGED validation
  /\ ToGuard(g, Decided(g))

RequestEnds(g) ==
  /\ Guarding(g, "Accepted")
  /\ ToGuard(g, IdleGuard)
  /\ UNCHANGED validation

(* Mutant: a rejection is forgotten, an acceptance is kept. *)
MutExpires(v) == v \in validation /\ ~v[3]

Expires(v) == v \in validation

(* The time to live of what is cached for a session under a version. *)
ValidationExpires(version, s) ==
  /\ \E valid \in BOOLEAN :
       /\ Expires(<<version, s, valid>>)
       /\ validation' = validation \ {<<version, s, valid>>}
  /\ UNCHANGED <<session, password, login, cacheVersion, guard, revoker, refresher>>

GuardStep(g) == Lookup(g) \/ ValidateSession(g) \/ StoreValidation(g) \/ RequestEnds(g)

SessionNext ==
  \/ Login \/ CreateSession
  \/ \E f \in Refreshers : Refresh(f) \/ RotateRefreshToken(f)
  \/ \E r \in Revokers :
       RevokeSessions(r) \/ ChangePassword(r) \/ ResetPassword(r)
         \/ AdvanceVersion(r) \/ AdvanceFails(r)
  \/ \E g \in Guards : ReadVersion(g) \/ GuardStep(g)
  \/ \E s \in DOMAIN session, version \in 0 .. cacheVersion : ValidationExpires(version, s)

SessionSpec == SessionInit /\ [][SessionNext]_sessionVars

(* Whatever is cached expires, and a request at the guard is served.       *)
SessionFairness ==
  /\ \A s \in SessionIds :
       WF_sessionVars(\E version \in 0 .. cacheVersion : ValidationExpires(version, s))
  /\ \A g \in Guards : WF_sessionVars(GuardStep(g))

-----------------------------------------------------------------------------
(* A request that begins after a session was revoked and the version was   *)
(* advanced is refused, whatever older requests still write to the cache.  *)
RevokedIsRefused == \A g \in Guards : guard[g].at = "Accepted" => ~guard[g].late

(* A refresh token is exchanged once: two requests that present the same   *)
(* token do not both get a new one.                                        *)
TokenExchangedOnce ==
  \A f, h \in Refreshers :
    /\ refresher[f].at = "Rotated" /\ refresher[h].at = "Rotated"
    /\ refresher[f].session = refresher[h].session /\ refresher[f].token = refresher[h].token
    => f = h

(* A change or reset of the password ends every session that was opened    *)
(* with an older one, but for a login that was under way.                  *)
OldPasswordEndsSessions ==
  \A s \in DOMAIN session :
    Live(s) /\ ~session[s].raced => session[s].authenticated = password

(* A revoked session is refused in the end, also if the version could not  *)
(* be advanced and its acceptance is cached.                               *)
RevokedEndsRefused ==
  \A s \in SessionIds :
    LET Revoked == s \in DOMAIN session /\ session[s].revoked
        Passing == \E g \in Guards : guard[g].at = "Accepted" /\ guard[g].session = s
    IN Revoked ~> []~Passing
=============================================================================
