---------------------------- MODULE AuthSessions ----------------------------
(***************************************************************************)
(* Sessions, refresh rotation, logout and password reset of the API:       *)
(* AuthService (App/modules/auth/service.py), the guard get_current_auth   *)
(* (dependencies.py) and the two MongoDB collections and the Redis         *)
(* whitelist they share.  A worker is one request being executed; each of  *)
(* its steps is one call to MongoDB or Redis, so the requests of several   *)
(* threads and pods interleave between any two calls.                      *)
(*                                                                         *)
(* A session is one session_id: its access and its refresh document in     *)
(* MongoDB and the JTI key of its access token in Redis.                   *)
(***************************************************************************)
EXTENDS FiniteSets

CONSTANTS
  Workers,                \* requests that can be in execution at once
  Users, Sessions, ResetTokens,
  Ops,                    \* the endpoints that clients call
  Faults,                 \* what the environment may do
  DebugReturnResetToken,  \* AUTH_DEBUG_RETURN_RESET_TOKEN
  None

Guarded == {"whoami", "logout", "logoutAll"}    \* endpoints behind get_current_auth
AllOps  == Guarded \cup {"login", "refresh", "forgot", "reset"}

ASSUME NoneAssumption  == None \notin Users \cup Sessions \cup ResetTokens
ASSUME DisjointAssumption == Sessions \cap ResetTokens = {}
ASSUME OpsAssumption   == Ops \subseteq AllOps
ASSUME DebugAssumption == DebugReturnResetToken \in BOOLEAN

VARIABLES
  access,      \* the access document of a session in session_tokens
  refresh,     \* its refresh document
  owner,       \* the user_id of both
  jti,         \* sessions whose whitelist key is in Redis
  redisUp,
  resetState,  \* documents of password_reset_tokens
  resetUser,
  held,        \* sessions whose cookies a client was given
  resetHeld,   \* reset tokens a client was given
  closed,      \* history: sessions and reset tokens that a response has ended
  asked,       \* history: sessions whose users have asked to end them
  stale,       \* history: sessions obtained with a password since replaced
  pc,          \* the next call of a worker
  req          \* the local variables of a worker

docVars    == <<access, refresh, owner>>
resetVars  == <<resetState, resetUser>>
clientVars == <<held, resetHeld, closed>>
vars == <<docVars, jti, redisUp, resetVars, clientVars, asked, stale, pc, req>>

(* "ending": an access document with less than a second left, see JtiExpires. *)
DocState == {"none", "valid", "ending", "expired", "revoked"}
Labels == {"idle", "ping", "jtiGet", "dbGet", "granted", "list", "scan", "del",
           "revoke", "revokeAll", "issueAccess", "issueRefresh", "storeJti",
           "createReset", "setPassword", "markUsed", "respond"}

Request == [op      : Ops,
            user    : Users,
            sess    : Sessions \cup {None},      \* session_id of the presented cookie
            new     : Sessions \cup {None},      \* session_id being issued
            found   : SUBSET Sessions,           \* JTI keys listed, still to be deleted
            targets : SUBSET (Sessions \cup ResetTokens),  \* history: see closed
            reset   : ResetTokens \cup {None}]

Locals(op, user, sess, new, reset, targets) ==
  [op |-> op, user |-> user, sess |-> sess, new |-> new,
   found |-> {}, targets |-> targets, reset |-> reset]

NoRequest == Locals("none", None, None, None, None, {})

-----------------------------------------------------------------------------
(* Documents *)

Live(doc) == doc \in {"valid", "ending"}

Revoked(doc) == IF doc = "none" THEN "none" ELSE "revoked"

Fresh(s) == access[s] = "none" /\ \A w \in Workers : req[w].new # s

HeldBy(u) == {h \in held : owner[h] = u}
OwnedBy(u) == {s \in Sessions : owner[s] = u}

Init ==
  /\ access = [s \in Sessions |-> "none"]
  /\ refresh = [s \in Sessions |-> "none"]
  /\ owner = [s \in Sessions |-> None]
  /\ jti = {}
  /\ redisUp = TRUE
  /\ resetState = [t \in ResetTokens |-> "none"]
  /\ resetUser = [t \in ResetTokens |-> None]
  /\ held = {}
  /\ resetHeld = {}
  /\ closed = {}
  /\ asked = {}
  /\ stale = {}
  /\ pc = [w \in Workers |-> "idle"]
  /\ req = [w \in Workers |-> NoRequest]

-----------------------------------------------------------------------------
(* Control of one worker *)

Goto(w, label) == pc' = [pc EXCEPT ![w] = label]

Start(w, label, request) ==
  /\ pc[w] = "idle"
  /\ request.op \in Ops
  /\ Goto(w, label)
  /\ req' = [req EXCEPT ![w] = request]

(* Faulty variant: the request's locals survive it. *)
FinishKeepingLocals(w) == Goto(w, "idle") /\ UNCHANGED req

Finish(w) ==
  /\ Goto(w, "idle")
  /\ req' = [req EXCEPT ![w] = NoRequest]

(* A request refused by its first check (bad JWT, wrong password, used or
   unknown token) changes nothing. *)
Refuse(w) == pc[w] = "idle" /\ UNCHANGED vars

(* The process dies, or MongoDB raises, between two calls. *)
Abort(w) ==
  /\ "abort" \in Faults
  /\ pc[w] # "idle"
  /\ Finish(w)
  /\ UNCHANGED <<docVars, jti, redisUp, resetVars, clientVars, asked, stale>>

Respond(w) ==
  /\ \/ pc[w] = "respond"
     \/ pc[w] = "granted" /\ req[w].op = "whoami"
  /\ Finish(w)
  /\ held' = held \cup ({req[w].new} \ {None})
  /\ closed' = closed \cup req[w].targets
  /\ resetHeld' = IF DebugReturnResetToken /\ req[w].op = "forgot"
                  THEN resetHeld \cup {req[w].reset} ELSE resetHeld
  /\ UNCHANGED <<docVars, jti, redisUp, resetVars, asked, stale>>

-----------------------------------------------------------------------------
(* The guard of the protected endpoints *)

ToEnd(op, s) == {h \in held : \/ op = "logout" /\ h = s
                              \/ op = "logoutAll" /\ owner[h] = owner[s]}

Arrive(w, op, s) ==
  /\ op \in Guarded
  /\ s \in held
  /\ access[s] # "expired"
  /\ Start(w, "ping", Locals(op, owner[s], s, None, None, ToEnd(op, s)))
  /\ UNCHANGED <<docVars, jti, redisUp, resetVars, clientVars, asked, stale>>

(* cache.is_available(): without Redis the whitelist is skipped. *)
GuardPing(w) ==
  /\ pc[w] = "ping"
  /\ Goto(w, IF redisUp THEN "jtiGet" ELSE "dbGet")
  /\ UNCHANGED <<docVars, jti, redisUp, resetVars, clientVars, asked, stale, req>>

(* Faulty variant: a JTI found in Redis is taken for a valid session. *)
GuardJtiOnly(w) ==
  /\ pc[w] = "jtiGet"
  /\ IF redisUp /\ req[w].sess \in jti
     THEN Goto(w, "granted") /\ UNCHANGED req
     ELSE Finish(w)
  /\ UNCHANGED <<docVars, jti, redisUp, resetVars, clientVars, asked, stale>>

(* cache.get(): a Redis that fails after the ping reads as a missing key. *)
GuardJti(w) ==
  /\ pc[w] = "jtiGet"
  /\ IF redisUp /\ req[w].sess \in jti
     THEN Goto(w, "dbGet") /\ UNCHANGED req
     ELSE Finish(w)
  /\ UNCHANGED <<docVars, jti, redisUp, resetVars, clientVars, asked, stale>>

GuardDb(w) ==
  /\ pc[w] = "dbGet"
  /\ IF Live(access[req[w].sess])
     THEN /\ Goto(w, "granted")
          /\ asked' = asked \cup CASE req[w].op = "logout"    -> {req[w].sess}
                                   [] req[w].op = "logoutAll" -> OwnedBy(req[w].user)
                                   [] OTHER                   -> {}
          /\ UNCHANGED req
     ELSE Finish(w) /\ UNCHANGED asked
  /\ UNCHANGED <<docVars, jti, redisUp, resetVars, clientVars, stale>>

-----------------------------------------------------------------------------
(* Faulty variant: logout relies on the whitelist and revokes nothing. *)
AfterDelWithoutRevoke(op) ==
  CASE op = "logout"  -> "respond"
    [] op = "refresh" -> "issueAccess"
    [] OTHER          -> "revokeAll"

(* Ending sessions: logout, logout_all, and the same calls made by refresh
   and reset_password *)

AfterDel(op) ==
  CASE op = "logout"  -> "revoke"
    [] op = "refresh" -> "issueAccess"
    [] OTHER          -> "revokeAll"

(* list_valid_tokens_by_session: only a document still valid is listed. *)
ListAccess(w) ==
  /\ \/ pc[w] = "granted" /\ req[w].op = "logout"
     \/ pc[w] = "list"
  /\ req' = [req EXCEPT ![w].found = {s \in {req[w].sess} : Live(access[s])}]
  /\ Goto(w, "del")
  /\ UNCHANGED <<docVars, jti, redisUp, resetVars, clientVars, asked, stale>>

(* Faulty variant: the pattern covers the keys of every user. *)
ScanKeysOfAll(w) ==
  /\ \/ pc[w] = "granted" /\ req[w].op = "logoutAll"
     \/ pc[w] = "scan"
  /\ req' = [req EXCEPT ![w].found = IF redisUp THEN jti ELSE {}]
  /\ Goto(w, "del")
  /\ UNCHANGED <<docVars, jti, redisUp, resetVars, clientVars, asked, stale>>

(* The SCAN of delByPattern over the user's keys; an outage ends it. *)
ScanKeys(w) ==
  /\ \/ pc[w] = "granted" /\ req[w].op = "logoutAll"
     \/ pc[w] = "scan"
  /\ req' = [req EXCEPT ![w].found =
                IF redisUp THEN {s \in jti : owner[s] = req[w].user} ELSE {}]
  /\ Goto(w, "del")
  /\ UNCHANGED <<docVars, jti, redisUp, resetVars, clientVars, asked, stale>>

(* One DEL.  del_key swallows an outage key by key, delByPattern gives up. *)
DelKey(w, s) ==
  /\ pc[w] = "del"
  /\ s \in req[w].found
  /\ jti' = IF redisUp THEN jti \ {s} ELSE jti
  /\ req' = [req EXCEPT ![w].found =
                IF redisUp \/ req[w].op \in {"logout", "refresh"} THEN @ \ {s} ELSE {}]
  /\ UNCHANGED <<docVars, redisUp, resetVars, clientVars, asked, stale, pc>>

DelDone(w) ==
  /\ pc[w] = "del"
  /\ req[w].found = {}
  /\ Goto(w, AfterDel(req[w].op))
  /\ UNCHANGED <<docVars, jti, redisUp, resetVars, clientVars, asked, stale, req>>

(* Faulty variant: only the access document is revoked. *)
RevokeAccessOnly(w) ==
  /\ pc[w] = "revoke"
  /\ access' = [access EXCEPT ![req[w].sess] = Revoked(@)]
  /\ Goto(w, IF req[w].op = "logout" THEN "respond" ELSE "list")
  /\ UNCHANGED <<refresh, owner, jti, redisUp, resetVars, clientVars, asked, stale, req>>

(* revoke_by_session_id *)
RevokeSession(w) ==
  /\ pc[w] = "revoke"
  /\ access' = [access EXCEPT ![req[w].sess] = Revoked(@)]
  /\ refresh' = [refresh EXCEPT ![req[w].sess] = Revoked(@)]
  /\ Goto(w, IF req[w].op = "logout" THEN "respond" ELSE "list")
  /\ UNCHANGED <<owner, jti, redisUp, resetVars, clientVars, asked, stale, req>>

(* Faulty variant: revoke_all_for_user misses the refresh documents. *)
RevokeAllAccessOnly(w) ==
  /\ pc[w] = "revokeAll"
  /\ access' = [s \in Sessions |->
                  IF owner[s] = req[w].user THEN Revoked(access[s]) ELSE access[s]]
  /\ Goto(w, "respond")
  /\ UNCHANGED <<refresh, owner, jti, redisUp, resetVars, clientVars, asked, stale, req>>

(* Faulty variant: the user filter is lost. *)
RevokeAllAnyones(w) ==
  /\ pc[w] = "revokeAll"
  /\ access' = [s \in Sessions |-> Revoked(access[s])]
  /\ refresh' = [s \in Sessions |-> Revoked(refresh[s])]
  /\ Goto(w, "respond")
  /\ UNCHANGED <<owner, jti, redisUp, resetVars, clientVars, asked, stale, req>>

(* revoke_all_for_user *)
RevokeAll(w) ==
  LET End(doc) == [s \in Sessions |->
                     IF owner[s] = req[w].user THEN Revoked(doc[s]) ELSE doc[s]]
  IN /\ pc[w] = "revokeAll"
     /\ access' = End(access)
     /\ refresh' = End(refresh)
     /\ Goto(w, "respond")
     /\ UNCHANGED <<owner, jti, redisUp, resetVars, clientVars, asked, stale, req>>

-----------------------------------------------------------------------------
(* Obtaining a session: login and refresh *)

(* The user document is read and the password verified against it. *)
LoginStart(w, u, s) ==
  /\ Fresh(s)
  /\ Start(w, "issueAccess", Locals("login", u, None, s, None, {}))
  /\ stale' = stale \ {s}
  /\ UNCHANGED <<docVars, jti, redisUp, resetVars, clientVars, asked>>

(* get_valid_token on the presented refresh token. *)
RefreshStart(w, s, new) ==
  /\ s \in held
  /\ refresh[s] = "valid"
  /\ Fresh(new)
  /\ Start(w, "revoke", Locals("refresh", owner[s], s, new, None, {s}))
  /\ asked' = asked \cup {s}
  /\ stale' = IF s \in stale THEN stale \cup {new} ELSE stale \ {new}
  /\ UNCHANGED <<docVars, jti, redisUp, resetVars, clientVars>>

(* A logout_all or reset of user u that has yet to revoke: it may end what u is
   issued meanwhile as well. *)
EndingAll(w, u) ==
  /\ req[w].op \in {"logoutAll", "reset"}
  /\ req[w].user = u
  /\ pc[w] \in {"granted", "setPassword", "markUsed", "scan", "del", "revokeAll"}

(* Faulty variant: a refresh issues under the session_id it has just ended. *)
IssueAccessUnderOldId(w) ==
  LET s == IF req[w].op = "refresh" THEN req[w].sess ELSE req[w].new
  IN /\ pc[w] = "issueAccess"
     /\ access' = [access EXCEPT ![s] = "valid"]
     /\ owner' = [owner EXCEPT ![s] = req[w].user]
     /\ asked' = asked \cup {r \in {s} : \E v \in Workers : EndingAll(v, req[w].user)}
     /\ Goto(w, "issueRefresh")
     /\ UNCHANGED <<refresh, jti, redisUp, resetVars, clientVars, stale, req>>

(* _issue_session_for_user: two inserts, then the JTI key. *)
IssueAccess(w) ==
  /\ pc[w] = "issueAccess"
  /\ access' = [access EXCEPT ![req[w].new] = "valid"]
  /\ owner' = [owner EXCEPT ![req[w].new] = req[w].user]
  /\ asked' = IF \E v \in Workers : EndingAll(v, req[w].user)
              THEN asked \cup {req[w].new} ELSE asked
  /\ Goto(w, "issueRefresh")
  /\ UNCHANGED <<refresh, jti, redisUp, resetVars, clientVars, stale, req>>

IssueRefresh(w) ==
  /\ pc[w] = "issueRefresh"
  /\ refresh' = [refresh EXCEPT ![req[w].new] = "valid"]
  /\ Goto(w, "storeJti")
  /\ UNCHANGED <<access, owner, jti, redisUp, resetVars, clientVars, asked, stale, req>>

(* cache.set swallows an outage. *)
StoreJti(w) ==
  /\ pc[w] = "storeJti"
  /\ jti' = IF redisUp THEN jti \cup {req[w].new} ELSE jti
  /\ Goto(w, "respond")
  /\ UNCHANGED <<docVars, redisUp, resetVars, clientVars, asked, stale, req>>

-----------------------------------------------------------------------------
(* Password reset *)

(* Faulty variant: earlier reset tokens stay live. *)
ForgotKeepingTokens(w, u, t) ==
  /\ resetState[t] = "none"
  /\ \A v \in Workers : req[v].reset # t
  /\ Start(w, "createReset",
           Locals("forgot", u, None, None, t, {r \in resetHeld : resetUser[r] = u}))
  /\ UNCHANGED <<docVars, jti, redisUp, resetVars, clientVars, asked, stale>>

(* mark_all_used_for_user also marks the expired documents. *)
ForgotStart(w, u, t) ==
  /\ resetState[t] = "none"
  /\ \A v \in Workers : req[v].reset # t
  /\ Start(w, "createReset",
           Locals("forgot", u, None, None, t, {r \in resetHeld : resetUser[r] = u}))
  /\ resetState' = [r \in ResetTokens |->
                      IF resetUser[r] = u THEN "used" ELSE resetState[r]]
  /\ UNCHANGED <<docVars, jti, redisUp, resetUser, clientVars, asked, stale>>

CreateReset(w) ==
  /\ pc[w] = "createReset"
  /\ resetState' = [resetState EXCEPT ![req[w].reset] = "live"]
  /\ resetUser' = [resetUser EXCEPT ![req[w].reset] = req[w].user]
  /\ Goto(w, "respond")
  /\ UNCHANGED <<docVars, jti, redisUp, clientVars, asked, stale, req>>

ResetStart(w, t) ==
  /\ t \in resetHeld
  /\ resetState[t] = "live"
  /\ Start(w, "setPassword",
           Locals("reset", resetUser[t], None, None, t, HeldBy(resetUser[t]) \cup {t}))
  /\ asked' = asked \cup OwnedBy(resetUser[t])
  /\ UNCHANGED <<docVars, jti, redisUp, resetVars, clientVars, stale>>

(* update_password: every session obtained with the old password, and every
   one that a request is still issuing, is stale from now on. *)
SetPassword(w) ==
  /\ pc[w] = "setPassword"
  /\ stale' = stale \cup {s \in Sessions :
                 \/ owner[s] = req[w].user
                 \/ \E v \in Workers : req[v].new = s /\ req[v].user = req[w].user}
  /\ Goto(w, "markUsed")
  /\ UNCHANGED <<docVars, jti, redisUp, resetVars, clientVars, asked, req>>

MarkUsed(w) ==
  /\ pc[w] = "markUsed"
  /\ resetState' = [resetState EXCEPT ![req[w].reset] = "used"]
  /\ Goto(w, "scan")
  /\ UNCHANGED <<docVars, jti, redisUp, resetUser, clientVars, asked, stale, req>>

-----------------------------------------------------------------------------
(* The environment *)

RedisFails ==
  /\ "redis" \in Faults
  /\ redisUp
  /\ redisUp' = FALSE
  /\ UNCHANGED <<docVars, jti, resetVars, clientVars, asked, stale, pc, req>>

(* A Redis with a volume keeps its keys, one without (k8s) loses them. *)
RedisRecovers ==
  /\ ~redisUp
  /\ redisUp' = TRUE
  /\ jti' \in {jti, {}}
  /\ UNCHANGED <<docVars, resetVars, clientVars, asked, stale, pc, req>>

AccessExpires(s) ==
  /\ "expiry" \in Faults
  /\ Live(access[s])
  /\ access' = [access EXCEPT ![s] = IF @ = "valid" THEN "ending" ELSE "expired"]
  /\ UNCHANGED <<refresh, owner, jti, redisUp, resetVars, clientVars, asked, stale, pc, req>>

RefreshExpires(s) ==
  /\ "refreshExpiry" \in Faults
  /\ refresh[s] = "valid"
  /\ refresh' = [refresh EXCEPT ![s] = "expired"]
  /\ UNCHANGED <<access, owner, jti, redisUp, resetVars, clientVars, asked, stale, pc, req>>

(* The TTL of the key is what is left of the access token in whole seconds
   (_store_access_jti rounds it down), so it may go in the last second. *)
JtiExpires(s) ==
  /\ "expiry" \in Faults
  /\ s \in jti
  /\ access[s] # "valid"
  /\ jti' = jti \ {s}
  /\ UNCHANGED <<docVars, redisUp, resetVars, clientVars, asked, stale, pc, req>>

ResetExpires(t) ==
  /\ "expiry" \in Faults
  /\ resetState[t] = "live"
  /\ resetState' = [resetState EXCEPT ![t] = "expired"]
  /\ UNCHANGED <<docVars, jti, redisUp, resetUser, clientVars, asked, stale, pc, req>>

-----------------------------------------------------------------------------
WorkerStep(w) ==
  \/ Refuse(w)
  \/ Abort(w)
  \/ Respond(w)
  \/ \E op \in Ops, s \in Sessions : Arrive(w, op, s)
  \/ GuardPing(w)
  \/ GuardJti(w)
  \/ GuardDb(w)
  \/ ListAccess(w)
  \/ ScanKeys(w)
  \/ \E s \in Sessions : DelKey(w, s)
  \/ DelDone(w)
  \/ RevokeSession(w)
  \/ RevokeAll(w)
  \/ \E u \in Users, s \in Sessions : LoginStart(w, u, s)
  \/ \E s, new \in Sessions : RefreshStart(w, s, new)
  \/ IssueAccess(w)
  \/ IssueRefresh(w)
  \/ StoreJti(w)
  \/ \E u \in Users, t \in ResetTokens : ForgotStart(w, u, t)
  \/ CreateReset(w)
  \/ \E t \in ResetTokens : ResetStart(w, t)
  \/ SetPassword(w)
  \/ MarkUsed(w)

Environment ==
  \/ RedisFails
  \/ RedisRecovers
  \/ \E s \in Sessions : AccessExpires(s)
  \/ \E s \in Sessions : RefreshExpires(s)
  \/ \E s \in Sessions : JtiExpires(s)
  \/ \E t \in ResetTokens : ResetExpires(t)

Next == (\E w \in Workers : WorkerStep(w)) \/ Environment

Spec == Init /\ [][Next]_vars

-----------------------------------------------------------------------------
(* Properties *)

Ended(doc) == doc \in {"expired", "revoked"}

(* Type invariant: every variable in its set, and a worker holds the locals of
   a request exactly while it executes one (service.py, dependencies.py). *)
TypeOK ==
  /\ access \in [Sessions -> DocState]
  /\ refresh \in [Sessions -> DocState]
  /\ owner \in [Sessions -> Users \cup {None}]
  /\ jti \subseteq Sessions
  /\ redisUp \in BOOLEAN
  /\ resetState \in [ResetTokens -> {"none", "live", "expired", "used"}]
  /\ resetUser \in [ResetTokens -> Users \cup {None}]
  /\ held \subseteq Sessions
  /\ resetHeld \subseteq ResetTokens
  /\ closed \subseteq Sessions \cup ResetTokens
  /\ asked \subseteq Sessions
  /\ stale \subseteq Sessions
  /\ pc \in [Workers -> Labels]
  /\ req \in [Workers -> Request \cup {NoRequest}]
  /\ \A w \in Workers : pc[w] = "idle" <=> req[w] = NoRequest

(* Once logout, logout_all, refresh or reset_password has answered, every
   session it was asked to end (the presented one, or all that the user held
   when the request arrived) can be neither used nor refreshed again, whatever
   ran in between, whether or not Redis was there. *)
ClosedSessionIsDead ==
  \A s \in closed \cap Sessions : Ended(access[s]) /\ Ended(refresh[s])

(* A reset token that was given out is dead once a later forgot_password of the
   same user, or a reset_password with the token itself, has answered. *)
ClosedResetTokenIsDead ==
  \A t \in closed \cap ResetTokens : resetState[t] = "used"

(* get_current_auth lets no request through with the cookie of a session whose
   end was confirmed before the check, even one that read the whitelist or
   found Redis down before the session was ended. *)
NoGrantAfterClose ==
  [][\A w \in Workers :
       pc[w] # "granted" /\ pc'[w] = "granted" => req[w].sess \notin closed]_vars

(* A session is taken from its client only by its own user.  As long as no
   logout of that session, no logout_all or reset_password of that user and no
   refresh with that session was let in, both its documents stay unrevoked,
   under every fault.  While Redis answers and no request dies half way, the
   key of its access token stays too, and is missing later only between the
   DELs and the revocation of such a request, so that the whitelist refuses no
   valid token else (service.py:68-77, 118-122, 195-203; token_repository.py:
   68-94).  The last second of a token is exempt: see JtiExpires. *)
Closing(w, s) ==
  \/ pc[w] \in {"del", "revoke"} /\ req[w].op = "logout" /\ req[w].sess = s
  \/ /\ pc[w] \in {"del", "revokeAll"}
     /\ req[w].op \in {"logoutAll", "reset"}
     /\ req[w].user = owner[s]

UsableUntilEnded ==
  \A s \in held :
    /\ s \notin asked => access[s] # "revoked" /\ refresh[s] # "revoked"
    /\ Faults \cap {"redis", "abort"} = {} /\ access[s] = "valid" /\ s \notin jti =>
         \E w \in Workers : Closing(w, s)

(* Between a request's passing of the guard and its answer. *)
LetIn(w) == req[w].op \in Guarded /\ pc[w] \notin {"ping", "jtiGet", "dbGet"}

Phase == [s \in Sessions |->
            IF s \notin held THEN "unissued"
            ELSE IF access[s] = "revoked" /\ refresh[s] = "revoked" THEN "ended" ELSE "open"]
HolderOf == [s \in Sessions |-> IF s \in held THEN owner[s] ELSE None]
Grants == [w \in Workers |-> IF LetIn(w) THEN req[w].sess ELSE None]

Lifecycle == INSTANCE SessionLifecycle WITH
  phase <- Phase, user <- HolderOf, asked <- asked \cap held,
  confirmed <- closed \cap Sessions, grants <- Grants

(* The service, with its two stores and its outages, implements the lifecycle
   its API documents: the two documents of a session that a client holds end
   together, for good, and only after its own user asked; an end is confirmed
   only when it has happened; the guard accepts open sessions only. *)
ImplementsLifecycle == Lifecycle!Spec

-----------------------------------------------------------------------------
(* Claims of the documentation that the code does not meet *)

(* README_LAB6_LAB7.md:9 and :22: access sessions are invalidated through
   their JTI in Redis.  Checked while Redis answers and no request dies:
   refresh_session deletes the key of a session it has already revoked, so it
   finds no document to delete a key for. *)
ClosedHasNoJti == closed \cap jti = {}

(* router.py:278: reset_password revokes all active sessions of the user.  When
   no reset is under way, no usable session was obtained with a replaced
   password. *)
NoSessionOutlivesReset ==
  \A s \in held \cap stale :
    \/ Ended(access[s]) /\ Ended(refresh[s])
    \/ \E w \in Workers : req[w].op = "reset" /\ req[w].user = owner[s]
=============================================================================
