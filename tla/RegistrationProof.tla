------------------------- MODULE RegistrationProof -------------------------
(* Users are unique: proofs about Registration. *)
EXTENDS Registration, TLAPS

(* A request in its critical section holds the lock of its e-mail ... *)
LockInv == ~bypassed => \A w \in Workers : pc[w] \in UnderLock => lock[req[w].email] = w

(* ... so that what it has read of the users still holds when it inserts. *)
AbsentInv ==
  ~bypassed /\ ~emailIndex =>
    \A w \in Workers : pc[w] = "insert" => WithEmail(req[w].email) = {}

(* A yandex_id goes with an e-mail that Yandex told for it, in the documents ... *)
ProfileInv == \A u \in Users : yandex[u] # None => <<yandex[u], email[u]>> \in Profiles

(* ... and in the callbacks under way. *)
CallbackInv ==
  \A w \in Workers :
    /\ pc[w] \in {"byYandex", "byEmail", "link", "create"} =>
         <<req[w].yandex, req[w].email>> \in Profiles
    /\ pc[w] = "link" => email[req[w].user] = req[w].email

IInv ==
  /\ TypeOK
  /\ LockInv
  /\ AbsentInv
  /\ ProfileInv
  /\ CallbackInv
  /\ SignedInByProfile
  /\ OneUserPerEmail

LEMMA InitInv == Init => IInv
  <1> SUFFICES ASSUME Init PROVE IInv
    OBVIOUS
  <1> USE ValuesAssumption DEF Init
  <1>1. TypeOK
    BY DEF TypeOK, Labels, Request, NoRequest, Locals
  <1>2. LockInv /\ AbsentInv /\ ProfileInv /\ CallbackInv /\ SignedInByProfile
    BY DEF LockInv, AbsentInv, ProfileInv, CallbackInv, SignedInByProfile, UnderLock
  <1>3. OneUserPerEmail
    BY DEF OneUserPerEmail, AtMostOne, WithEmail
  <1> QED
    BY <1>1, <1>2, <1>3 DEF IInv

-----------------------------------------------------------------------------
(* Types *)

LEMMA TypeStep == TypeOK /\ [Next]_vars => TypeOK'
  <1> SUFFICES ASSUME TypeOK, [Next]_vars PROVE TypeOK'
    OBVIOUS
  <1> USE ValuesAssumption, ProfilesAssumption
      DEF TypeOK, Labels, UnderLock, Callback, Request, Goto, lockVars, userVars, indexVars
  <1>1. CASE UNCHANGED vars
    BY <1>1 DEF vars
  <1>2. ASSUME NEW w \in Workers, Finish(w),
               UNCHANGED <<redisUp, userVars, indexVars, state, published, bypassed>>,
               lock' \in [Emails -> Workers \cup {None, Orphan}]
        PROVE  TypeOK'
    BY <1>2 DEF Finish, NoRequest, Locals
  <1>3. ASSUME NEW w \in Workers, Register(w) PROVE TypeOK'
    <2>1. ASSUME NEW e \in Emails, Acquire(w, e) PROVE TypeOK'
      BY <2>1 DEF Acquire, Locals
    <2>2. CASE CheckEmail(w)
      BY <2>2 DEF CheckEmail
    <2>3. ASSUME NEW u \in Users, InsertUser(w, u) PROVE TypeOK'
      BY <2>3 DEF InsertUser
    <2>4. CASE IssueSession(w)
      BY <2>4 DEF IssueSession
    <2>5. CASE PublishEvent(w)
      BY <2>5 DEF PublishEvent
    <2>6. CASE Raise(w)
      BY <2>6 DEF Raise
    <2>7. CASE Release(w)
      BY <2>7, <1>2 DEF Release
    <2> QED
      BY <1>3, <2>1, <2>2, <2>3, <2>4, <2>5, <2>6, <2>7 DEF Register
  <1>4. ASSUME NEW w \in Workers, OAuth(w) PROVE TypeOK'
    <2>1. ASSUME NEW t \in States, Redirect(w, t) PROVE TypeOK'
      BY <2>1 DEF Redirect
    <2>2. ASSUME NEW t \in States, CallbackStart(w, t) PROVE TypeOK'
      BY <2>2 DEF CallbackStart, Locals
    <2>3. CASE MarkState(w)
      BY <2>3 DEF MarkState
    <2>4. ASSUME NEW y \in YandexIds, NEW e \in Emails, Exchange(w, y, e) PROVE TypeOK'
      <3>1. [email |-> e, yandex |-> y, user |-> None, state |-> req[w].state] \in Request
        OBVIOUS
      <3>2. req' \in [Workers -> Request] /\ req'[w].email \in Emails
        BY <2>4, <3>1 DEF Exchange
      <3>3. \A v \in Workers \ {w} : req'[v] = req[v] /\ pc'[v] = pc[v]
        BY <2>4 DEF Exchange
      <3> QED
        BY <2>4, <3>2, <3>3 DEF Exchange
    <2>5. CASE FindByYandex(w)
      BY <2>5 DEF FindByYandex, WithYandex
    <2>6. CASE FindByEmail(w)
      BY <2>6 DEF FindByEmail, WithEmail
    <2>7. CASE Link(w)
      BY <2>7 DEF Link, Finish, NoRequest, Locals
    <2>8. ASSUME NEW u \in Users, CreateOAuthUser(w, u) PROVE TypeOK'
      <3>1. CASE Finish(w) /\ UNCHANGED <<userVars, bypassed>>
        BY <2>8, <3>1, <1>2 DEF CreateOAuthUser
      <3>2. CASE ~(Finish(w) /\ UNCHANGED <<userVars, bypassed>>)
        <4>1. /\ email' = [email EXCEPT ![u] = req[w].email]
              /\ yandex' = [yandex EXCEPT ![u] = req[w].yandex]
              /\ req' = [req EXCEPT ![w].user = u]
              /\ Goto(w, "signIn")
              /\ bypassed' = (bypassed \/ ~emailIndex)
          BY <2>8, <3>2 DEF CreateOAuthUser
        <4> QED
          BY <2>8, <4>1 DEF CreateOAuthUser
      <3> QED
        BY <3>1, <3>2
    <2>9. CASE SignIn(w)
      BY <2>9, <1>2 DEF SignIn
    <2>10. CASE CallbackFails(w)
      BY <2>10, <1>2 DEF CallbackFails
    <2> QED
      BY <1>4, <2>1, <2>2, <2>3, <2>4, <2>5, <2>6, <2>7, <2>8, <2>9, <2>10 DEF OAuth
  <1>5. ASSUME NEW w \in Workers, Crash(w) PROVE TypeOK'
    BY <1>5, <1>2 DEF Crash
  <1>6. CASE Startup
    BY <1>6 DEF Startup, CreateEmailIndex, DropYandexIndex, CreateYandexIndex, StartupFails
  <1>7. CASE Environment
    BY <1>7 DEF Environment, AcquireAnswerLost, LockExpires, RedisFails, RedisRecovers, StateExpires
  <1> QED
    BY <1>1, <1>3, <1>4, <1>5, <1>6, <1>7 DEF Next, Refuse, vars

-----------------------------------------------------------------------------
(* The other parts of the invariant *)

Rest ==
  LockInv /\ AbsentInv /\ ProfileInv /\ CallbackInv /\ SignedInByProfile /\ OneUserPerEmail

LEMMA ProfileParts == \A y, e : <<y, e>> \in Profiles => y \in YandexIds /\ e \in Emails
  BY ProfilesAssumption

LEMMA RestStep == IInv /\ [Next]_vars => Rest'
  <1> SUFFICES ASSUME IInv, [Next]_vars PROVE Rest'
    OBVIOUS
  <1>0. TypeOK /\ TypeOK'
    BY TypeStep DEF IInv
  <1> USE ValuesAssumption, ProfileParts, <1>0
      DEF IInv, Rest, LockInv, AbsentInv, ProfileInv, CallbackInv, SignedInByProfile,
          OneUserPerEmail, AtMostOne, WithEmail, WithYandex, UnderLock, Callback,
          TypeOK, Request, Labels, Goto, lockVars, userVars, indexVars
  <1>1. CASE UNCHANGED vars
    BY <1>1 DEF vars
  <1>3. ASSUME NEW w \in Workers, Register(w) PROVE Rest'
    <2>1. ASSUME NEW e \in Emails, Acquire(w, e) PROVE Rest'
      BY <2>1 DEF Acquire, Locals
    <2>2. CASE CheckEmail(w)
      BY <2>2 DEF CheckEmail
    <2>3. ASSUME NEW u \in Users, InsertUser(w, u) PROVE Rest'
      <3>1. CASE email' = email /\ req' = req
        BY <2>3, <3>1 DEF InsertUser
      <3>2. CASE ~(email' = email /\ req' = req)
        <4>1. /\ email' = [email EXCEPT ![u] = req[w].email]
              /\ req' = [req EXCEPT ![w].user = u]
              /\ Goto(w, "session")
              /\ ~(emailIndex /\ WithEmail(req[w].email) # {})
          BY <2>3, <3>2 DEF InsertUser
        <4>2. /\ UNCHANGED <<lock, yandex, emailIndex, bypassed>>
              /\ email[u] = None /\ pc[w] = "insert"
          BY <2>3 DEF InsertUser, Fresh
        <4>3. yandex[u] = None
          BY <4>2, None \notin Emails
        <4>4. LockInv'
          BY <4>1, <4>2
        <4>5. AbsentInv'
          BY <4>1, <4>2
        <4>6. ProfileInv'
          BY <4>1, <4>2, <4>3
        <4>7. CallbackInv' /\ SignedInByProfile'
          <5>1. \A v \in Workers \ {w} : pc'[v] = pc[v] /\ req'[v] = req[v]
            BY <4>1
          <5>2. \A v \in Workers : pc[v] \in {"link", "signIn"} => req[v].user # u
            <6> TAKE v \in Workers
            <6>1. pc[v] = "link" => email[req[v].user] \in Emails
              OBVIOUS
            <6>2. pc[v] = "signIn" => email[req[v].user] \in Emails
              OBVIOUS
            <6> QED
              BY <4>2, <6>1, <6>2
          <5>3. \A v \in Users \ {u} : email'[v] = email[v]
            BY <4>1
          <5> QED
            BY <4>1, <4>2, <5>1, <5>2, <5>3
        <4>8. OneUserPerEmail'
          BY <4>1, <4>2
        <4> QED
          BY <4>4, <4>5, <4>6, <4>7, <4>8
      <3> QED
        BY <3>1, <3>2
    <2>4. CASE IssueSession(w)
      BY <2>4 DEF IssueSession
    <2>5. CASE PublishEvent(w)
      BY <2>5 DEF PublishEvent
    <2>6. CASE Raise(w)
      BY <2>6 DEF Raise
    <2>7. CASE Release(w)
      BY <2>7 DEF Release, Finish, NoRequest, Locals
    <2> QED
      BY <1>3, <2>1, <2>2, <2>3, <2>4, <2>5, <2>6, <2>7 DEF Register
  <1>4. ASSUME NEW w \in Workers, OAuth(w) PROVE Rest'
    <2>1. ASSUME NEW t \in States, Redirect(w, t) PROVE Rest'
      BY <2>1 DEF Redirect
    <2>2. ASSUME NEW t \in States, CallbackStart(w, t) PROVE Rest'
      BY <2>2 DEF CallbackStart, Locals
    <2>3. CASE MarkState(w)
      BY <2>3 DEF MarkState
    <2>4. ASSUME NEW y \in YandexIds, NEW e \in Emails, Exchange(w, y, e) PROVE Rest'
      BY <2>4 DEF Exchange
    <2>5. CASE FindByYandex(w)
      <3>1. CASE Goto(w, "byEmail") /\ UNCHANGED req
        BY <2>5, <3>1 DEF FindByYandex
      <3>2. ASSUME NEW u \in Users, yandex[u] = req[w].yandex, Goto(w, "signIn"),
                   req' = [req EXCEPT ![w].user = u]
            PROVE  Rest'
        <4>1. UNCHANGED <<lock, email, yandex, emailIndex, bypassed>> /\ pc[w] = "byYandex"
          BY <2>5 DEF FindByYandex
        <4>2. <<req[w].yandex, email[u]>> \in Profiles
          BY <3>2, <4>1
        <4>3. CallbackInv' /\ SignedInByProfile'
          BY <3>2, <4>1, <4>2
        <4> QED
          BY <3>2, <4>1, <4>3
      <3> QED
        BY <2>5, <3>1, <3>2 DEF FindByYandex
    <2>6. CASE FindByEmail(w)
      <3>1. CASE UNCHANGED req
        BY <2>6, <3>1 DEF FindByEmail
      <3>2. ASSUME NEW u \in Users, email[u] = req[w].email, Goto(w, "link"),
                   req' = [req EXCEPT ![w].user = u]
            PROVE  Rest'
        BY <2>6, <3>2 DEF FindByEmail
      <3> QED
        BY <2>6, <3>1, <3>2 DEF FindByEmail
    <2>7. CASE Link(w)
      <3>1. CASE Finish(w) /\ UNCHANGED yandex
        BY <2>7, <3>1 DEF Link, Finish, NoRequest, Locals
      <3>2. CASE ~(Finish(w) /\ UNCHANGED yandex)
        <4>1. /\ yandex' = [yandex EXCEPT ![req[w].user] = req[w].yandex]
              /\ Goto(w, "signIn")
              /\ UNCHANGED req
          BY <2>7, <3>2 DEF Link
        <4>2. /\ UNCHANGED <<lock, email, emailIndex, bypassed>>
              /\ req[w].user \in Users
              /\ email[req[w].user] = req[w].email
              /\ <<req[w].yandex, req[w].email>> \in Profiles
          BY <2>7 DEF Link
        <4>3. ProfileInv'
          <5>1. \A v \in Users \ {req[w].user} : yandex'[v] = yandex[v] /\ email'[v] = email[v]
            BY <4>1, <4>2
          <5>2. <<yandex'[req[w].user], email'[req[w].user]>> \in Profiles
            BY <4>1, <4>2
          <5> QED
            BY <5>1, <5>2
        <4>4. CallbackInv' /\ SignedInByProfile'
          BY <4>1, <4>2
        <4>5. LockInv' /\ AbsentInv' /\ OneUserPerEmail'
          BY <4>1, <4>2
        <4> QED
          BY <4>3, <4>4, <4>5
      <3> QED
        BY <3>1, <3>2
    <2>8. ASSUME NEW u \in Users, CreateOAuthUser(w, u) PROVE Rest'
      <3>1. CASE Finish(w) /\ UNCHANGED <<userVars, bypassed>>
        BY <2>8, <3>1 DEF CreateOAuthUser, Finish, NoRequest, Locals
      <3>2. CASE ~(Finish(w) /\ UNCHANGED <<userVars, bypassed>>)
        <4>1. /\ email' = [email EXCEPT ![u] = req[w].email]
              /\ yandex' = [yandex EXCEPT ![u] = req[w].yandex]
              /\ req' = [req EXCEPT ![w].user = u]
              /\ Goto(w, "signIn")
              /\ bypassed' = (bypassed \/ ~emailIndex)
              /\ ~(emailIndex /\ WithEmail(req[w].email) # {})
          BY <2>8, <3>2 DEF CreateOAuthUser
        <4>2. /\ UNCHANGED <<lock, emailIndex>>
              /\ email[u] = None
              /\ <<req[w].yandex, req[w].email>> \in Profiles
          BY <2>8 DEF CreateOAuthUser, Fresh
        <4>9. (bypassed => bypassed') /\ (~emailIndex => bypassed')
          BY ONLY <4>1, Zenon
        <4>10. \A v \in Workers \ {w} : pc'[v] = pc[v] /\ req'[v] = req[v]
          BY <4>1
        <4>3. LockInv' /\ AbsentInv'
          BY <4>1, <4>2, <4>9, <4>10
        <4>11. \A v \in Users \ {u} : yandex'[v] = yandex[v] /\ email'[v] = email[v]
          BY <4>1
        <4>12. /\ yandex'[u] = req[w].yandex /\ email'[u] = req[w].email
               /\ req'[w].yandex = req[w].yandex /\ req'[w].user = u /\ pc'[w] = "signIn"
          BY <4>1
        <4>4. ProfileInv'
          BY <4>2, <4>11, <4>12
        <4>5. CallbackInv' /\ SignedInByProfile'
          <5>2. \A v \in Workers : pc[v] \in {"link", "signIn"} => req[v].user # u
            <6> TAKE v \in Workers
            <6>1. pc[v] = "link" => email[req[v].user] \in Emails
              OBVIOUS
            <6>2. pc[v] = "signIn" => email[req[v].user] \in Emails
              OBVIOUS
            <6> QED
              BY <4>2, <6>1, <6>2
          <5>3. SignedInByProfile'
            <6> SUFFICES ASSUME NEW v \in Workers, pc'[v] = "signIn"
                         PROVE  <<req'[v].yandex, email'[req'[v].user]>> \in Profiles
              OBVIOUS
            <6>1. CASE v = w
              BY <4>2, <4>12, <6>1
            <6>2. CASE v # w
              <7>1. req[v].user \in Users \ {u}
                BY <4>10, <5>2, <6>2
              <7> QED
                BY <4>10, <4>11, <6>2, <7>1
            <6> QED
              BY <6>1, <6>2
          <5>4. CallbackInv'
            <6> SUFFICES ASSUME NEW v \in Workers PROVE
                  /\ pc'[v] \in {"byYandex", "byEmail", "link", "create"} =>
                       <<req'[v].yandex, req'[v].email>> \in Profiles
                  /\ pc'[v] = "link" => email'[req'[v].user] = req'[v].email
              OBVIOUS
            <6>1. CASE v = w
              BY <4>12, <6>1
            <6>2. CASE v # w
              BY <4>10, <4>11, <5>2, <6>2
            <6> QED
              BY <6>1, <6>2
          <5> QED
            BY <5>3, <5>4
        <4>6. OneUserPerEmail'
          <5>1. CASE emailIndex
            BY <4>1, <4>2, <5>1
          <5>2. CASE ~emailIndex
            BY <4>2, <4>9, <5>2
          <5> QED
            BY <5>1, <5>2
        <4> QED
          BY <4>3, <4>4, <4>5, <4>6
      <3> QED
        BY <3>1, <3>2
    <2>9. CASE SignIn(w)
      BY <2>9 DEF SignIn, Finish, NoRequest, Locals
    <2>10. CASE CallbackFails(w)
      BY <2>10 DEF CallbackFails, Finish, NoRequest, Locals
    <2> QED
      BY <1>4, <2>1, <2>2, <2>3, <2>4, <2>5, <2>6, <2>7, <2>8, <2>9, <2>10 DEF OAuth
  <1>5. ASSUME NEW w \in Workers, Crash(w) PROVE Rest'
    BY <1>5 DEF Crash, Finish, NoRequest, Locals
  <1>6. CASE Startup
    <2>1. UNCHANGED <<lock, email, yandex, bypassed, pc, req>>
      BY <1>6 DEF Startup, CreateEmailIndex, DropYandexIndex, CreateYandexIndex, StartupFails
    <2>2. emailIndex' = emailIndex \/ (emailIndex' /\ \A e \in Emails : AtMostOne(WithEmail(e)))
      BY <1>6 DEF Startup, CreateEmailIndex, DropYandexIndex, CreateYandexIndex, StartupFails
    <2>3. LockInv' /\ ProfileInv' /\ CallbackInv' /\ SignedInByProfile'
      BY <2>1
    <2>4. AbsentInv' /\ OneUserPerEmail'
      BY <2>1, <2>2
    <2> QED
      BY <2>3, <2>4
  <1>7. CASE Environment
    <2>1. ASSUME NEW e \in Emails, AcquireAnswerLost(e) PROVE Rest'
      BY <2>1 DEF AcquireAnswerLost
    <2>2. ASSUME NEW e \in Emails, LockExpires(e) PROVE Rest'
      <3>1. UNCHANGED <<email, yandex, emailIndex, pc, req>>
        BY <2>2 DEF LockExpires
      <3>2. ProfileInv' /\ CallbackInv' /\ SignedInByProfile'
        BY <3>1
      <3>3. CASE lock[e] = Orphan
        BY <2>2, <3>1, <3>2, <3>3 DEF LockExpires
      <3>4. CASE lock[e] # Orphan
        <4>1. bypassed'
          BY <2>2, <3>4 DEF LockExpires
        <4> QED
          BY <3>1, <3>2, <4>1
      <3> QED
        BY <3>3, <3>4
    <2>3. CASE RedisFails
      BY <2>3 DEF RedisFails
    <2>4. CASE RedisRecovers
      BY <2>4 DEF RedisRecovers
    <2>5. ASSUME NEW t \in States, StateExpires(t) PROVE Rest'
      BY <2>5 DEF StateExpires
    <2> QED
      BY <1>7, <2>1, <2>2, <2>3, <2>4, <2>5 DEF Environment
  <1> QED
    BY <1>1, <1>3, <1>4, <1>5, <1>6, <1>7 DEF Next, Refuse, vars

-----------------------------------------------------------------------------
THEOREM Invariance == Spec => []IInv
  <1>1. IInv /\ [Next]_vars => IInv'
    BY TypeStep, RestStep DEF IInv, Rest
  <1> QED
    BY InitInv, <1>1, PTL DEF Spec

(* Every variable keeps its type, and the locals a step uses are there. *)
THEOREM TypeCorrectness == Spec => []TypeOK
  <1>1. IInv => TypeOK
    BY DEF IInv
  <1> QED
    BY Invariance, <1>1, PTL

(* At most one user per e-mail, by the index or by the lock alone. *)
THEOREM UsersAreUnique == Spec => []OneUserPerEmail
  <1>1. IInv => OneUserPerEmail
    BY DEF IInv
  <1> QED
    BY Invariance, <1>1, PTL

(* At most one user per Yandex account, with or without its index. *)
THEOREM YandexAccountsAreUnique == Spec => []OneUserPerYandexId
  <1>1. IInv => OneUserPerYandexId
    <2> SUFFICES ASSUME IInv, \A p, q \in Profiles : p[1] = q[1] => p = q,
                        emailIndex \/ ~bypassed,
                        NEW y \in YandexIds, NEW u \in WithYandex(y), NEW v \in WithYandex(y)
                 PROVE  u = v
      BY DEF OneUserPerYandexId, AtMostOne
    <2>1. <<y, email[u]>> \in Profiles /\ <<y, email[v]>> \in Profiles
      BY ValuesAssumption DEF IInv, ProfileInv, WithYandex
    <2>2. email[u] = email[v]
      BY <2>1
    <2>3. email[u] \in Emails
      BY <2>1, ProfileParts
    <2> QED
      BY <2>2, <2>3 DEF IInv, OneUserPerEmail, AtMostOne, WithEmail, WithYandex
  <1> QED
    BY Invariance, <1>1, PTL

(* A callback signs in only to an account whose e-mail Yandex told for it. *)
THEOREM SignInsAreVouchedFor == Spec => []SignedInByProfile
  <1>1. IInv => SignedInByProfile
    BY DEF IInv
  <1> QED
    BY Invariance, <1>1, PTL

(* No request takes the lock of another. *)
THEOREM LocksAreReleasedByTheirOwners == Spec => NoForeignRelease
  <1>1. TypeOK /\ [Next]_vars =>
          [\A e \in Emails : lock[e] \in Workers /\ lock'[e] # lock[e] =>
             pc'[lock[e]] = "idle" \/ pc' = pc]_vars
    <2> SUFFICES ASSUME TypeOK, Next, NEW e \in Emails,
                        lock[e] \in Workers, lock'[e] # lock[e]
                 PROVE  pc'[lock[e]] = "idle" \/ pc' = pc
      OBVIOUS
    <2> USE ValuesAssumption DEF TypeOK, Goto, lockVars
    <2>1. ASSUME NEW w \in Workers, Register(w) PROVE pc'[lock[e]] = "idle"
      <3>1. ASSUME NEW f \in Emails, Acquire(w, f) PROVE FALSE
        BY <3>1 DEF Acquire
      <3>2. CASE Release(w)
        BY <3>2 DEF Release, Finish
      <3> QED
        BY <2>1, <3>1, <3>2 DEF Register, CheckEmail, InsertUser, IssueSession, PublishEvent, Raise
    <2>2. ASSUME NEW w \in Workers, OAuth(w) PROVE FALSE
      BY <2>2 DEF OAuth, Redirect, CallbackStart, MarkState, Exchange, FindByYandex, FindByEmail,
                  Link, CreateOAuthUser, SignIn, CallbackFails
    <2>3. ASSUME NEW w \in Workers, Crash(w) PROVE pc'[lock[e]] = "idle"
      BY <2>3 DEF Crash, Finish
    <2>4. CASE Startup
      BY <2>4 DEF Startup, CreateEmailIndex, DropYandexIndex, CreateYandexIndex, StartupFails
    <2>5. CASE Environment
      BY <2>5 DEF Environment, AcquireAnswerLost, LockExpires, RedisFails, RedisRecovers, StateExpires
    <2> QED
      BY <2>1, <2>2, <2>3, <2>4, <2>5 DEF Next, Refuse, vars
  <1> QED
    BY TypeCorrectness, <1>1, PTL DEF Spec, NoForeignRelease

-----------------------------------------------------------------------------
(* Registration implements UserDirectory. *)

(* A registration past its insert has a user with an e-mail. *)
InsertedInv ==
  \A w \in Workers : pc[w] \in {"session", "publish"} => email[req[w].user] # None

LEMMA InsertedStep == IInv /\ InsertedInv /\ [Next]_vars => InsertedInv'
  <1> SUFFICES ASSUME IInv, InsertedInv, [Next]_vars PROVE InsertedInv'
    OBVIOUS
  <1> USE ValuesAssumption DEF IInv, TypeOK, InsertedInv, Goto, Finish, lockVars, userVars, indexVars
  <1>1. CASE UNCHANGED vars
    BY <1>1 DEF vars
  <1>2. ASSUME NEW w \in Workers, UNCHANGED email,
               \A v \in Workers \ {w} : pc'[v] = pc[v] /\ req'[v] = req[v],
               pc'[w] \in {"session", "publish"} =>
                 pc[w] \in {"session", "publish"} /\ req'[w] = req[w]
        PROVE  InsertedInv'
    BY <1>2
  <1>3. ASSUME NEW w \in Workers, CheckEmail(w) PROVE InsertedInv'
    BY <1>3, <1>2 DEF CheckEmail
  <1>4. ASSUME NEW w \in Workers, IssueSession(w) PROVE InsertedInv'
    BY <1>4, <1>2 DEF IssueSession
  <1>5. ASSUME NEW w \in Workers, PublishEvent(w) PROVE InsertedInv'
    BY <1>5, <1>2 DEF PublishEvent
  <1>6. ASSUME NEW w \in Workers, Raise(w) PROVE InsertedInv'
    BY <1>6, <1>2 DEF Raise
  <1>7. ASSUME NEW w \in Workers, Release(w) PROVE InsertedInv'
    BY <1>7, <1>2 DEF Release
  <1>8. ASSUME NEW w \in Workers, MarkState(w) PROVE InsertedInv'
    BY <1>8, <1>2 DEF MarkState
  <1>9. ASSUME NEW w \in Workers, FindByYandex(w) PROVE InsertedInv'
    BY <1>9, <1>2 DEF FindByYandex
  <1>10. ASSUME NEW w \in Workers, FindByEmail(w) PROVE InsertedInv'
    BY <1>10, <1>2 DEF FindByEmail
  <1>11. ASSUME NEW w \in Workers, Link(w) PROVE InsertedInv'
    BY <1>11, <1>2 DEF Link
  <1>12. ASSUME NEW w \in Workers, SignIn(w) PROVE InsertedInv'
    BY <1>12, <1>2 DEF SignIn
  <1>13. ASSUME NEW w \in Workers, CallbackFails(w) PROVE InsertedInv'
    BY <1>13, <1>2 DEF CallbackFails
  <1>14. ASSUME NEW w \in Workers, Crash(w) PROVE InsertedInv'
    BY <1>14, <1>2 DEF Crash
  <1>15. ASSUME NEW w \in Workers, NEW e \in Emails, Acquire(w, e) PROVE InsertedInv'
    BY <1>15, <1>2 DEF Acquire
  <1>16. ASSUME NEW w \in Workers, NEW t \in States, Redirect(w, t) PROVE InsertedInv'
    BY <1>16, <1>2 DEF Redirect
  <1>17. ASSUME NEW w \in Workers, NEW t \in States, CallbackStart(w, t) PROVE InsertedInv'
    BY <1>17, <1>2 DEF CallbackStart
  <1>18. ASSUME NEW w \in Workers, NEW y \in YandexIds, NEW e \in Emails, Exchange(w, y, e) PROVE InsertedInv'
    BY <1>18, <1>2 DEF Exchange
  <1>19. ASSUME NEW w \in Workers, NEW u \in Users, InsertUser(w, u) \/ CreateOAuthUser(w, u) PROVE InsertedInv'
    <2>1. \/ email' = email
          \/ email' = [email EXCEPT ![u] = req[w].email] /\ req[w].email \in Emails
      BY <1>19 DEF InsertUser, CreateOAuthUser
    <2>2. \A v \in Users : email[v] # None => email'[v] # None
      BY <2>1
    <2>3. \A v \in Workers \ {w} : pc'[v] = pc[v] /\ req'[v] = req[v]
      BY <1>19 DEF InsertUser, CreateOAuthUser
    <2>4. pc'[w] \in {"session", "publish"} => email'[req'[w].user] # None
      BY <1>19 DEF InsertUser, CreateOAuthUser, Request
    <2> QED
      BY <2>2, <2>3, <2>4
  <1>20. CASE Startup
    BY <1>20 DEF Startup, CreateEmailIndex, DropYandexIndex, CreateYandexIndex, StartupFails
  <1>21. CASE Environment
    BY <1>21 DEF Environment, AcquireAnswerLost, LockExpires, RedisFails, RedisRecovers, StateExpires
  <1> QED
    BY <1>1, <1>3, <1>4, <1>5, <1>6, <1>7, <1>8, <1>9, <1>10, <1>11, <1>12, <1>13, <1>14, <1>15, <1>16, <1>17, <1>18, <1>19, <1>20, <1>21 DEF Next, Refuse, Register, OAuth, vars

LEMMA DirectoryInit == Init => Directory!Init
  BY DEF Init, Directory!Init, Unique

(* An insert under the lock: what the lock or the index stands for. *)
LEMMA RegisterStep ==
  ASSUME IInv, NEW w \in Workers, NEW u \in Users, InsertUser(w, u)
  PROVE  Directory!Register(u, req[w].email) \/ UNCHANGED <<email, yandex, Unique, published>>
  <1> DEFINE e == req[w].email
  <1>1. pc[w] = "insert" /\ email[u] = None /\ UNCHANGED <<yandex, Unique, published>>
    BY DEF InsertUser, Fresh, Unique, indexVars
  <1>2. CASE emailIndex /\ WithEmail(e) # {}
    BY <1>1, <1>2 DEF InsertUser
  <1>3. CASE ~(emailIndex /\ WithEmail(e) # {})
    <2>1. email' = [email EXCEPT ![u] = e]
      BY <1>3 DEF InsertUser
    <2>2. Unique => WithEmail(e) = {}
      BY <1>1, <1>3 DEF IInv, AbsentInv, Unique
    <2>3. Unique' => ~Directory!Taken(e)
      BY <1>1, <2>2 DEF Directory!Taken, WithEmail
    <2> QED
      BY <1>1, <2>1, <2>3 DEF Directory!Register, Directory!Enter
  <1> QED
    BY <1>2, <1>3

(* A callback that creates a user does so by the index, or ends the word on e-mails. *)
LEMMA CallbackStep ==
  ASSUME IInv, NEW w \in Workers, NEW u \in Users, CreateOAuthUser(w, u)
  PROVE  Directory!EnterWith(u, req[w].yandex, req[w].email) \/ UNCHANGED <<email, yandex, Unique, published>>
  <1> DEFINE e == req[w].email
             y == req[w].yandex
  <1>1. /\ pc[w] = "create" /\ email[u] = None
        /\ UNCHANGED <<emailIndex, published>> /\ <<y, e>> \in Profiles
    BY DEF CreateOAuthUser, Fresh, indexVars, IInv, CallbackInv
  <1>2. CASE UNCHANGED <<userVars, bypassed>>
    BY <1>1, <1>2 DEF userVars, Unique
  <1>3. CASE ~UNCHANGED <<userVars, bypassed>>
    <2>1. /\ email' = [email EXCEPT ![u] = e] /\ yandex' = [yandex EXCEPT ![u] = y]
          /\ bypassed' = (bypassed \/ ~emailIndex)
          /\ emailIndex => WithEmail(e) = {}
      BY <1>3 DEF CreateOAuthUser
    <2>2. Unique' <=> emailIndex
      BY <1>1, <2>1 DEF Unique
    <2>3. Unique' = Unique \/ Unique' = FALSE
      BY <2>2 DEF Unique, IInv, TypeOK
    <2>4. Unique' => ~Directory!Taken(e)
      BY <2>1, <2>2 DEF Directory!Taken, WithEmail
    <2> QED
      BY <1>1, <2>1, <2>3, <2>4 DEF Directory!EnterWith, Directory!Enter
  <1> QED
    BY <1>2, <1>3

LEMMA LinkStep ==
  ASSUME IInv, NEW w \in Workers, Link(w)
  PROVE  Directory!Link(req[w].user, req[w].yandex) \/ UNCHANGED <<email, yandex, Unique, published>>
  <1>1. /\ pc[w] = "link" /\ UNCHANGED <<email, Unique, published>>
        /\ yandex' = yandex \/ yandex' = [yandex EXCEPT ![req[w].user] = req[w].yandex]
    BY DEF Link, indexVars, Unique
  <1>2. <<req[w].yandex, email[req[w].user]>> \in Profiles
    BY <1>1 DEF IInv, CallbackInv
  <1> QED
    BY <1>1, <1>2 DEF Directory!Link

(* A step that inserts, links and publishes nothing may lose or regain the word. *)
LEMMA WordStep ==
  ASSUME TypeOK, UNCHANGED <<email, yandex, published>>,
         Unique' => Unique \/ \A e \in Emails : AtMostOne(WithEmail(e))
  PROVE  Directory!Next \/ UNCHANGED <<email, yandex, Unique, published>>
  <1>1. CASE ~Unique'
    <2>1. Unique' = FALSE
      BY <1>1 DEF Unique
    <2> QED
      BY <2>1 DEF Directory!Next, Directory!Doubt
  <1>2. CASE Unique' /\ Unique
    BY <1>2 DEF Unique
  <1>3. CASE Unique' /\ ~Unique
    <2>1. \A u, v \in Users : email[u] # None /\ email[u] = email[v] => u = v
      BY <1>3 DEF TypeOK, AtMostOne, WithEmail
    <2>2. Unique' = TRUE
      BY <1>3 DEF Unique
    <2> QED
      BY <2>1, <2>2 DEF Directory!Next, Directory!Vouch
  <1> QED
    BY <1>1, <1>2, <1>3

(* Every step of a request, a starting pod or the environment is one of the
   directory, or changes nothing there. *)
LEMMA DirectoryStep == IInv /\ InsertedInv /\ [Next]_vars => Directory!Next \/ UNCHANGED <<email, yandex, Unique, published>>
  <1> SUFFICES ASSUME IInv, InsertedInv, [Next]_vars PROVE Directory!Next \/ UNCHANGED <<email, yandex, Unique, published>>
    OBVIOUS
  <1>0. TypeOK
    BY DEF IInv
  <1> USE <1>0 DEF lockVars, userVars, indexVars
  <1>1. CASE UNCHANGED vars
    BY <1>1 DEF vars, Unique
  <1>2. ASSUME NEW w \in Workers, NEW u \in Users, InsertUser(w, u) PROVE Directory!Next \/ UNCHANGED <<email, yandex, Unique, published>>
    BY <1>2, RegisterStep DEF Directory!Next, InsertUser, TypeOK
  <1>3. ASSUME NEW w \in Workers, NEW u \in Users, CreateOAuthUser(w, u) PROVE Directory!Next \/ UNCHANGED <<email, yandex, Unique, published>>
    <2>1. <<req[w].yandex, req[w].email>> \in Profiles
      BY <1>3 DEF CreateOAuthUser, IInv, CallbackInv
    <2> QED
      BY <1>3, <2>1, ProfileParts, CallbackStep DEF Directory!Next
  <1>4. ASSUME NEW w \in Workers, Link(w) PROVE Directory!Next \/ UNCHANGED <<email, yandex, Unique, published>>
    <2>1. <<req[w].yandex, req[w].email>> \in Profiles /\ req[w].user \in Users
      BY <1>4 DEF Link, IInv, CallbackInv, TypeOK
    <2> QED
      BY <1>4, <2>1, ProfileParts, LinkStep DEF Directory!Next
  <1>5. ASSUME NEW w \in Workers, PublishEvent(w) PROVE Directory!Next \/ UNCHANGED <<email, yandex, Unique, published>>
    <2>1. /\ req[w].user \in Users /\ email[req[w].user] # None
          /\ published' = published \cup {req[w].user} /\ UNCHANGED <<email, yandex, Unique>>
      BY <1>5 DEF PublishEvent, TypeOK, InsertedInv, Unique
    <2> QED
      BY <2>1 DEF Directory!Next, Directory!Announce
  <1>6. ASSUME NEW w \in Workers, CheckEmail(w) PROVE Directory!Next \/ UNCHANGED <<email, yandex, Unique, published>>
    BY <1>6, WordStep DEF CheckEmail, Unique
  <1>7. ASSUME NEW w \in Workers, IssueSession(w) PROVE Directory!Next \/ UNCHANGED <<email, yandex, Unique, published>>
    BY <1>7, WordStep DEF IssueSession, Unique
  <1>8. ASSUME NEW w \in Workers, Raise(w) PROVE Directory!Next \/ UNCHANGED <<email, yandex, Unique, published>>
    BY <1>8, WordStep DEF Raise, Unique
  <1>9. ASSUME NEW w \in Workers, Release(w) PROVE Directory!Next \/ UNCHANGED <<email, yandex, Unique, published>>
    BY <1>9, WordStep DEF Release, Unique
  <1>10. ASSUME NEW w \in Workers, MarkState(w) PROVE Directory!Next \/ UNCHANGED <<email, yandex, Unique, published>>
    BY <1>10, WordStep DEF MarkState, Unique
  <1>11. ASSUME NEW w \in Workers, FindByYandex(w) PROVE Directory!Next \/ UNCHANGED <<email, yandex, Unique, published>>
    BY <1>11, WordStep DEF FindByYandex, Unique
  <1>12. ASSUME NEW w \in Workers, FindByEmail(w) PROVE Directory!Next \/ UNCHANGED <<email, yandex, Unique, published>>
    BY <1>12, WordStep DEF FindByEmail, Unique
  <1>13. ASSUME NEW w \in Workers, SignIn(w) PROVE Directory!Next \/ UNCHANGED <<email, yandex, Unique, published>>
    BY <1>13, WordStep DEF SignIn, Unique
  <1>14. ASSUME NEW w \in Workers, CallbackFails(w) PROVE Directory!Next \/ UNCHANGED <<email, yandex, Unique, published>>
    BY <1>14, WordStep DEF CallbackFails, Unique
  <1>15. ASSUME NEW w \in Workers, Crash(w) PROVE Directory!Next \/ UNCHANGED <<email, yandex, Unique, published>>
    BY <1>15, WordStep DEF Crash, Unique
  <1>16. ASSUME NEW w \in Workers, NEW e \in Emails, Acquire(w, e) PROVE Directory!Next \/ UNCHANGED <<email, yandex, Unique, published>>
    BY <1>16, WordStep DEF Acquire, Unique
  <1>17. ASSUME NEW w \in Workers, NEW t \in States, Redirect(w, t) PROVE Directory!Next \/ UNCHANGED <<email, yandex, Unique, published>>
    BY <1>17, WordStep DEF Redirect, Unique
  <1>18. ASSUME NEW w \in Workers, NEW t \in States, CallbackStart(w, t) PROVE Directory!Next \/ UNCHANGED <<email, yandex, Unique, published>>
    BY <1>18, WordStep DEF CallbackStart, Unique
  <1>19. ASSUME NEW w \in Workers, NEW y \in YandexIds, NEW e \in Emails, Exchange(w, y, e) PROVE Directory!Next \/ UNCHANGED <<email, yandex, Unique, published>>
    BY <1>19, WordStep DEF Exchange, Unique
  <1>20. CASE Startup
    <2>1. UNCHANGED <<email, yandex, published, bypassed>>
      BY <1>20 DEF Startup, CreateEmailIndex, DropYandexIndex, CreateYandexIndex, StartupFails
    <2>2. emailIndex' = emailIndex \/ \A e \in Emails : AtMostOne(WithEmail(e))
      BY <1>20 DEF Startup, CreateEmailIndex, DropYandexIndex, CreateYandexIndex, StartupFails
    <2> QED
      BY <2>1, <2>2, WordStep DEF Unique
  <1>21. CASE Environment
    <2>1. UNCHANGED <<email, yandex, published, emailIndex>>
      BY <1>21 DEF Environment, AcquireAnswerLost, LockExpires, RedisFails, RedisRecovers, StateExpires
    <2>2. bypassed => bypassed'
      <3>1. ASSUME NEW e \in Emails, LockExpires(e) PROVE bypassed => bypassed'
        BY <3>1 DEF LockExpires
      <3>2. CASE RedisRecovers
        BY <3>2 DEF RedisRecovers
      <3> QED
        BY <1>21, <3>1, <3>2 DEF Environment, AcquireAnswerLost, RedisFails, StateExpires
    <2> QED
      BY <2>1, <2>2, WordStep DEF Unique
  <1> QED
    BY <1>1, <1>2, <1>3, <1>4, <1>5, <1>6, <1>7, <1>8, <1>9, <1>10, <1>11, <1>12, <1>13, <1>14, <1>15, <1>16, <1>17, <1>18, <1>19, <1>20, <1>21 DEF Next, Refuse, Register, OAuth

(* Registration and the OAuth login implement the directory of users for any numbers
   of requests, users and accounts, with and without the indexes and under all faults
   (service.py:133-149, 288-306, db.py:44-52). *)
THEOREM RegistrationImplementsDirectory == Spec => ImplementsDirectory
  <1>1. Init => InsertedInv
    BY DEF Init, InsertedInv
  <1>2. IInv /\ InsertedInv /\ [Next]_vars => InsertedInv'
    BY InsertedStep
  <1>3. IInv /\ InsertedInv /\ [Next]_vars => [Directory!Next]_<<email, yandex, Unique, published>>
    BY DirectoryStep
  <1> QED
    BY <1>1, <1>2, <1>3, DirectoryInit, Invariance, PTL DEF Spec, ImplementsDirectory, Directory!Spec
=============================================================================
