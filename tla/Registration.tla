---------------------------- MODULE Registration ----------------------------
(***************************************************************************)
(* How users come into being: register with its Redis lock                 *)
(* (App/modules/auth/service.py, App/common/cache.py), the Yandex OAuth    *)
(* callback, which takes no lock, and the unique indexes of the users      *)
(* collection, which every pod (re)creates when it starts                  *)
(* (App/common/db.py).  A worker is one request; each of its steps is one  *)
(* call to Redis, MongoDB, Yandex or RabbitMQ.                             *)
(***************************************************************************)
EXTENDS FiniteSets

CONSTANTS
  Workers, Users, Emails, YandexIds, States,
  Profiles,   \* <<id, default_email>>: what Yandex may answer about an account
  Faults,     \* what the environment may do
  None,
  Orphan      \* a lock_id whose request is over

ASSUME ProfilesAssumption == Profiles \subseteq YandexIds \X Emails
ASSUME ValuesAssumption ==
  /\ None \notin Workers \cup Users \cup Emails \cup YandexIds \cup States \cup {Orphan}
  /\ Orphan \notin Workers

VARIABLES
  lock,         \* locks:auth:register:<email>: the request whose lock_id it holds
  redisUp,
  email,        \* of a user document, None when there is no document
  yandex,       \* its yandex_id, None when unset
  emailIndex, yandexIndex,   \* whether the unique index exists
  startup,      \* the next call of create_indexes in a starting pod
  state,        \* documents of oauth_states
  published,    \* users whose user.registered event the broker has confirmed
  bypassed,     \* history: see OneUserPerEmail
  pc, req       \* of a worker: its next call and its locals

userVars  == <<email, yandex>>
indexVars == <<emailIndex, yandexIndex, startup>>
lockVars  == <<lock, redisUp>>
vars == <<lockVars, userVars, indexVars, state, published, bypassed, pc, req>>

UnderLock == {"check", "insert", "session", "publish", "release"}
Callback  == {"mark", "exchange", "byYandex", "byEmail", "link", "create", "signIn"}
Labels    == {"idle"} \cup UnderLock \cup Callback

Request == [email  : Emails \cup {None},
            yandex : YandexIds \cup {None},
            user   : Users \cup {None},
            state  : States \cup {None}]

Locals(e, t) == [email |-> e, yandex |-> None, user |-> None, state |-> t]
NoRequest    == Locals(None, None)

WithEmail(e)  == {u \in Users : email[u] = e}
WithYandex(y) == {u \in Users : yandex[u] = y}

(* A document id is a fresh UUID. *)
Fresh(u) == email[u] = None

AtMostOne(S) == \A u, v \in S : u = v

Init ==
  /\ lock = [e \in Emails |-> None]
  /\ redisUp = TRUE
  /\ email = [u \in Users |-> None]
  /\ yandex = [u \in Users |-> None]
  /\ emailIndex \in (IF "index" \in Faults THEN BOOLEAN ELSE {TRUE})
  /\ yandexIndex = emailIndex
  /\ startup = "done"
  /\ state = [t \in States |-> "none"]
  /\ published = {}
  /\ bypassed = FALSE
  /\ pc = [w \in Workers |-> "idle"]
  /\ req = [w \in Workers |-> NoRequest]

Goto(w, label) == pc' = [pc EXCEPT ![w] = label]

Finish(w) ==
  /\ Goto(w, "idle")
  /\ req' = [req EXCEPT ![w] = NoRequest]

(* A request refused before its first change: a lock that is taken, or a Redis
   that is down, reads as "already in progress"; an unknown OAuth state. *)
Refuse(w) == pc[w] = "idle" /\ UNCHANGED vars

-----------------------------------------------------------------------------
(* register *)

(* Faulty variant: SET without NX. *)
AcquireAnyway(w, e) ==
  /\ pc[w] = "idle"
  /\ redisUp
  /\ lock' = [lock EXCEPT ![e] = w]
  /\ Goto(w, "check")
  /\ req' = [req EXCEPT ![w] = Locals(e, None)]
  /\ UNCHANGED <<redisUp, userVars, indexVars, state, published, bypassed>>

(* acquire_lock: SET NX EX. *)
Acquire(w, e) ==
  /\ pc[w] = "idle"
  /\ redisUp
  /\ lock[e] = None
  /\ lock' = [lock EXCEPT ![e] = w]
  /\ Goto(w, "check")
  /\ req' = [req EXCEPT ![w] = Locals(e, None)]
  /\ UNCHANGED <<redisUp, userVars, indexVars, state, published, bypassed>>

(* The key is set, its answer lost: the request is refused, the key stays. *)
AcquireAnswerLost(e) ==
  /\ "redis" \in Faults
  /\ redisUp
  /\ lock[e] = None
  /\ lock' = [lock EXCEPT ![e] = Orphan]
  /\ redisUp' = FALSE
  /\ UNCHANGED <<userVars, indexVars, state, published, bypassed, pc, req>>

CheckEmail(w) ==
  /\ pc[w] = "check"
  /\ Goto(w, IF WithEmail(req[w].email) # {} THEN "release" ELSE "insert")
  /\ UNCHANGED <<lockVars, userVars, indexVars, state, published, bypassed, req>>

(* create_local_user: a DuplicateKeyError ends in the same conflict. *)
InsertUser(w, u) ==
  /\ pc[w] = "insert"
  /\ Fresh(u)
  /\ IF emailIndex /\ WithEmail(req[w].email) # {}
     THEN Goto(w, "release") /\ UNCHANGED <<email, req>>
     ELSE /\ email' = [email EXCEPT ![u] = req[w].email]
          /\ req' = [req EXCEPT ![w].user = u]
          /\ Goto(w, "session")
  /\ UNCHANGED <<lockVars, yandex, indexVars, state, published, bypassed>>

(* _issue_session_for_user: module AuthSessions. *)
IssueSession(w) ==
  /\ pc[w] = "session"
  /\ Goto(w, "publish")
  /\ UNCHANGED <<lockVars, userVars, indexVars, state, published, bypassed, req>>

PublishEvent(w) ==
  /\ pc[w] = "publish"
  /\ published' = published \cup {req[w].user}
  /\ Goto(w, "release")
  /\ UNCHANGED <<lockVars, userVars, indexVars, state, bypassed, req>>

(* Faulty variant: the event goes out in the finally clause. *)
RaiseAndPublish(w) ==
  /\ "raise" \in Faults
  /\ pc[w] \in UnderLock \ {"release"}
  /\ Goto(w, "publish")
  /\ UNCHANGED <<lockVars, userVars, indexVars, state, published, bypassed, req>>

(* An exception of MongoDB or RabbitMQ: the finally clause still runs. *)
Raise(w) ==
  /\ "raise" \in Faults
  /\ pc[w] \in UnderLock \ {"release"}
  /\ Goto(w, "release")
  /\ UNCHANGED <<lockVars, userVars, indexVars, state, published, bypassed, req>>

(* Faulty variant: DEL without comparing the lock_id. *)
ReleaseAnyones(w) ==
  /\ pc[w] = "release"
  /\ lock' = [lock EXCEPT ![req[w].email] = IF redisUp THEN None ELSE @]
  /\ Finish(w)
  /\ UNCHANGED <<redisUp, userVars, indexVars, state, published, bypassed>>

(* release_lock compares and deletes; an outage leaves the key to its TTL. *)
Release(w) ==
  /\ pc[w] = "release"
  /\ lock' = [lock EXCEPT ![req[w].email] =
                IF @ # w THEN @ ELSE IF redisUp THEN None ELSE Orphan]
  /\ Finish(w)
  /\ UNCHANGED <<redisUp, userVars, indexVars, state, published, bypassed>>

-----------------------------------------------------------------------------
(* The OAuth login *)

(* get_oauth_redirect_url *)
Redirect(w, t) ==
  /\ pc[w] = "idle"
  /\ state[t] = "none"
  /\ state' = [state EXCEPT ![t] = "valid"]
  /\ UNCHANGED <<lockVars, userVars, indexVars, published, bypassed, pc, req>>

(* handle_oauth_callback: get_valid_state, then mark_used. *)
CallbackStart(w, t) ==
  /\ pc[w] = "idle"
  /\ state[t] = "valid"
  /\ Goto(w, "mark")
  /\ req' = [req EXCEPT ![w] = Locals(None, t)]
  /\ UNCHANGED <<lockVars, userVars, indexVars, state, published, bypassed>>

MarkState(w) ==
  /\ pc[w] = "mark"
  /\ state' = [state EXCEPT ![req[w].state] = "used"]
  /\ Goto(w, "exchange")
  /\ UNCHANGED <<lockVars, userVars, indexVars, published, bypassed, req>>

(* exchange_code and fetch_user_info. *)
Exchange(w, y, e) ==
  /\ pc[w] = "exchange"
  /\ <<y, e>> \in Profiles
  /\ req' = [req EXCEPT ![w] = [email |-> e, yandex |-> y, user |-> None, state |-> @.state]]
  /\ Goto(w, "byYandex")
  /\ UNCHANGED <<lockVars, userVars, indexVars, state, published, bypassed>>

(* Faulty variant: a user without a yandex_id matches as well. *)
FindByYandexOrUnset(w) ==
  /\ pc[w] = "byYandex"
  /\ \/ \E u \in WithYandex(req[w].yandex) \cup {v \in WithYandex(None) : ~Fresh(v)} :
          req' = [req EXCEPT ![w].user = u] /\ Goto(w, "signIn")
     \/ WithYandex(req[w].yandex) = {} /\ Goto(w, "byEmail") /\ UNCHANGED req
  /\ UNCHANGED <<lockVars, userVars, indexVars, state, published, bypassed>>

FindByYandex(w) ==
  /\ pc[w] = "byYandex"
  /\ \/ \E u \in WithYandex(req[w].yandex) :
          req' = [req EXCEPT ![w].user = u] /\ Goto(w, "signIn")
     \/ WithYandex(req[w].yandex) = {} /\ Goto(w, "byEmail") /\ UNCHANGED req
  /\ UNCHANGED <<lockVars, userVars, indexVars, state, published, bypassed>>

(* Faulty variant: the user that was found is not kept. *)
FindByEmailOnly(w) ==
  /\ pc[w] = "byEmail"
  /\ Goto(w, IF WithEmail(req[w].email) # {} THEN "link" ELSE "create")
  /\ UNCHANGED <<lockVars, userVars, indexVars, state, published, bypassed, req>>

FindByEmail(w) ==
  /\ pc[w] = "byEmail"
  /\ \/ \E u \in WithEmail(req[w].email) :
          req' = [req EXCEPT ![w].user = u] /\ Goto(w, "link")
     \/ WithEmail(req[w].email) = {} /\ Goto(w, "create") /\ UNCHANGED req
  /\ UNCHANGED <<lockVars, userVars, indexVars, state, published, bypassed>>

(* link_yandex_account: $set on the user found before; nothing catches a
   DuplicateKeyError. *)
Link(w) ==
  /\ pc[w] = "link"
  /\ IF yandexIndex /\ WithYandex(req[w].yandex) \ {req[w].user} # {}
     THEN Finish(w) /\ UNCHANGED yandex
     ELSE /\ yandex' = [yandex EXCEPT ![req[w].user] = req[w].yandex]
          /\ Goto(w, "signIn")
          /\ UNCHANGED req
  /\ UNCHANGED <<lockVars, email, indexVars, state, published, bypassed>>

(* Faulty variant: the address is stored as Yandex writes it, so that the index
   takes it for another one. *)
CreateUnnormalised(w, u) ==
  /\ pc[w] = "create"
  /\ Fresh(u)
  /\ email' = [email EXCEPT ![u] = req[w].email]
  /\ yandex' = [yandex EXCEPT ![u] = req[w].yandex]
  /\ req' = [req EXCEPT ![w].user = u]
  /\ Goto(w, "signIn")
  /\ UNCHANGED <<lockVars, indexVars, state, published, bypassed>>

(* create_oauth_user; nothing catches a DuplicateKeyError. *)
CreateOAuthUser(w, u) ==
  /\ pc[w] = "create"
  /\ Fresh(u)
  /\ IF \/ emailIndex /\ WithEmail(req[w].email) # {}
        \/ yandexIndex /\ WithYandex(req[w].yandex) # {}
     THEN Finish(w) /\ UNCHANGED <<userVars, bypassed>>
     ELSE /\ email' = [email EXCEPT ![u] = req[w].email]
          /\ yandex' = [yandex EXCEPT ![u] = req[w].yandex]
          /\ req' = [req EXCEPT ![w].user = u]
          /\ Goto(w, "signIn")
          /\ bypassed' = (bypassed \/ ~emailIndex)
  /\ UNCHANGED <<lockVars, indexVars, state, published>>

SignIn(w) ==
  /\ pc[w] = "signIn"
  /\ Finish(w)
  /\ UNCHANGED <<lockVars, userVars, indexVars, state, published, bypassed>>

(* Yandex or MongoDB fails: the state is spent, the request over. *)
CallbackFails(w) ==
  /\ "raise" \in Faults
  /\ pc[w] \in Callback
  /\ Finish(w)
  /\ UNCHANGED <<lockVars, userVars, indexVars, state, published, bypassed>>

-----------------------------------------------------------------------------
(* create_indexes, in a pod that starts while others serve *)

CreateEmailIndex ==
  /\ "startup" \in Faults
  /\ startup = "done"
  /\ \A e \in Emails : AtMostOne(WithEmail(e))
  /\ emailIndex' = TRUE
  /\ startup' = "dropYandex"
  /\ UNCHANGED <<lockVars, userVars, yandexIndex, state, published, bypassed, pc, req>>

DropYandexIndex ==
  /\ startup = "dropYandex"
  /\ yandexIndex' = FALSE
  /\ startup' = "createYandex"
  /\ UNCHANGED <<lockVars, userVars, emailIndex, state, published, bypassed, pc, req>>

(* It fails on duplicates; startup logs that and goes on. *)
CreateYandexIndex ==
  /\ startup = "createYandex"
  /\ yandexIndex' = \A y \in YandexIds : AtMostOne(WithYandex(y))
  /\ startup' = "done"
  /\ UNCHANGED <<lockVars, userVars, emailIndex, state, published, bypassed, pc, req>>

(* MongoDB is lost, or the pod dies, before the index is there again. *)
StartupFails ==
  /\ startup # "done"
  /\ startup' = "done"
  /\ UNCHANGED <<lockVars, userVars, emailIndex, yandexIndex, state, published, bypassed, pc, req>>

-----------------------------------------------------------------------------
(* The environment *)

(* The process dies: no finally clause, the lock is left to its TTL. *)
Crash(w) ==
  /\ "crash" \in Faults
  /\ pc[w] # "idle"
  /\ lock' = [e \in Emails |-> IF lock[e] = w THEN Orphan ELSE lock[e]]
  /\ Finish(w)
  /\ UNCHANGED <<redisUp, userVars, indexVars, state, published, bypassed>>

(* The TTL of 30 s outlives a request, unless the request is slow. *)
LockExpires(e) ==
  /\ lock[e] # None
  /\ lock[e] = Orphan \/ "slow" \in Faults
  /\ lock' = [lock EXCEPT ![e] = None]
  /\ bypassed' = (bypassed \/ lock[e] # Orphan)
  /\ UNCHANGED <<redisUp, userVars, indexVars, state, published, pc, req>>

RedisFails ==
  /\ "redis" \in Faults
  /\ redisUp
  /\ redisUp' = FALSE
  /\ UNCHANGED <<lock, userVars, indexVars, state, published, bypassed, pc, req>>

(* With its keys, or without them. *)
RedisRecovers ==
  /\ ~redisUp
  /\ redisUp' = TRUE
  /\ \/ UNCHANGED <<lock, bypassed>>
     \/ /\ lock' = [e \in Emails |-> None]
        /\ bypassed' = (bypassed \/ \E e \in Emails : lock[e] \in Workers)
  /\ UNCHANGED <<userVars, indexVars, state, published, pc, req>>

StateExpires(t) ==
  /\ state[t] = "valid"
  /\ state' = [state EXCEPT ![t] = "expired"]
  /\ UNCHANGED <<lockVars, userVars, indexVars, published, bypassed, pc, req>>

-----------------------------------------------------------------------------
Register(w) ==
  \/ \E e \in Emails : Acquire(w, e)
  \/ CheckEmail(w)
  \/ \E u \in Users : InsertUser(w, u)
  \/ IssueSession(w)
  \/ PublishEvent(w)
  \/ Raise(w)
  \/ Release(w)

OAuth(w) ==
  \/ \E t \in States : Redirect(w, t) \/ CallbackStart(w, t)
  \/ MarkState(w)
  \/ \E y \in YandexIds, e \in Emails : Exchange(w, y, e)
  \/ FindByYandex(w)
  \/ FindByEmail(w)
  \/ Link(w)
  \/ \E u \in Users : CreateOAuthUser(w, u)
  \/ SignIn(w)
  \/ CallbackFails(w)

Startup == CreateEmailIndex \/ DropYandexIndex \/ CreateYandexIndex \/ StartupFails

Environment ==
  \/ \E e \in Emails : AcquireAnswerLost(e) \/ LockExpires(e)
  \/ RedisFails
  \/ RedisRecovers
  \/ \E t \in States : StateExpires(t)

Next ==
  \/ \E w \in Workers : Refuse(w) \/ Register(w) \/ OAuth(w) \/ Crash(w)
  \/ Startup
  \/ Environment

Spec == Init /\ [][Next]_vars

-----------------------------------------------------------------------------
(* Properties *)

(* Type invariant; a worker under the lock has an e-mail, one at its end a user. *)
TypeOK ==
  /\ lock \in [Emails -> Workers \cup {None, Orphan}]
  /\ redisUp \in BOOLEAN
  /\ email \in [Users -> Emails \cup {None}]
  /\ yandex \in [Users -> YandexIds \cup {None}]
  /\ emailIndex \in BOOLEAN /\ yandexIndex \in BOOLEAN
  /\ startup \in {"done", "dropYandex", "createYandex"}
  /\ state \in [States -> {"none", "valid", "used", "expired"}]
  /\ published \subseteq Users
  /\ bypassed \in BOOLEAN
  /\ pc \in [Workers -> Labels]
  /\ req \in [Workers -> Request]
  /\ \A w \in Workers :
       /\ pc[w] \notin {"idle", "mark", "exchange"} => req[w].email \in Emails
       /\ pc[w] \in {"session", "publish", "link", "signIn"} => req[w].user \in Users

(* At most one user per e-mail, by the index or, where startup could not create
   it, by the lock alone, whatever requests die, Redis forgets or answers get
   lost.  The lock alone is not enough once it was taken from a running request
   (its TTL passed or Redis lost it) or an OAuth callback, which ignores it, has
   inserted a user: then bypassed is set (service.py:133-149, db.py:44). *)
OneUserPerEmail ==
  emailIndex \/ ~bypassed => \A e \in Emails : AtMostOne(WithEmail(e))

(* At most one user per Yandex account even while a starting pod has dropped the
   index (db.py:47): the unique e-mail stands in for it, as long as Yandex tells
   one e-mail per account. *)
OneUserPerYandexId ==
  /\ \A p, q \in Profiles : p[1] = q[1] => p = q
  /\ emailIndex \/ ~bypassed
  => \A y \in YandexIds : AtMostOne(WithYandex(y))

(* A callback signs in only to an account whose e-mail is one that Yandex has
   told for the presented account, whoever linked or created it in between
   (service.py:288-299). *)
SignedInByProfile ==
  \A w \in Workers :
    pc[w] = "signIn" => <<req[w].yandex, email[req[w].user]>> \in Profiles

(* A lock held by a running request goes away only by that request's own step
   or by the environment, never by the release of another (cache.py:91-99). *)
NoForeignRelease ==
  [][\A e \in Emails : lock[e] \in Workers /\ lock'[e] # lock[e] =>
       pc'[lock[e]] = "idle" \/ pc' = pc]_vars

(* Whether an index or an undisturbed lock stands for one user per e-mail. *)
Unique == emailIndex \/ ~bypassed

Directory == INSTANCE UserDirectory WITH unique <- Unique, announced <- published

(* Registrations and callbacks, with their lock, their indexes and all that fails,
   implement the directory: whatever races, nobody enters with a taken e-mail while
   lock or index stand for it, users stay and keep their e-mail, a Yandex account is
   attached to a vouched e-mail only, and the event of a registration never precedes
   its user or outlives a failed insert (service.py:133-149, 288-306). *)
ImplementsDirectory == Directory!Spec
=============================================================================
