------------------------- MODULE AuthSessionsProof -------------------------
(* Inductive invariant and safety proofs of AuthSessions. *)
EXTENDS AuthSessions, TLAPS

(* Which endpoints pass through a label. *)
OnPath(w) ==
  /\ pc[w] \in {"ping", "jtiGet", "dbGet", "granted"} => req[w].op \in Guarded
  /\ pc[w] \in {"issueAccess", "issueRefresh", "storeJti"} => req[w].op \in {"login", "refresh"}
  /\ pc[w] = "list" => req[w].op = "refresh"
  /\ pc[w] = "del" => req[w].op \in {"logout", "logoutAll", "refresh", "reset"}
  /\ pc[w] = "revoke" => req[w].op \in {"logout", "refresh"}
  /\ pc[w] = "revokeAll" => req[w].op \in {"logoutAll", "reset"}
  /\ pc[w] = "createReset" => req[w].op = "forgot"
  /\ pc[w] \in {"setPassword", "markUsed", "scan"} => req[w].op = "reset"
  /\ pc[w] = "respond" => req[w].op # "whoami"

(* The request has made the revoking call for everything it was asked to end. *)
HasRevoked(w) ==
  \/ req[w].op \in {"logout", "logoutAll", "reset"} /\ pc[w] = "respond"
  \/ req[w].op = "refresh" /\ pc[w] # "revoke"

(* Documents: the refresh document is inserted after the access document, and
   what a client holds has both. *)
DocsInOrder ==
  \A s \in Sessions :
    /\ refresh[s] # "none" => access[s] # "none"
    /\ access[s] # "none" => owner[s] # None
    /\ s \in held => refresh[s] # "none"

Gone(s) == access[s] = "revoked" /\ refresh[s] = "revoked"

ClosedInv == \A s \in closed \cap Sessions : s \in held /\ Gone(s)

(* What a request was asked to end was held, is the user's own, and is revoked
   once the revoking call is made. *)
TargetsInv(w) ==
  /\ req[w].op \in Guarded \cup {"refresh"} => req[w].sess \in held /\ owner[req[w].sess] = req[w].user
  /\ req[w].op \in {"logout", "refresh"} => req[w].targets \cap Sessions \subseteq {req[w].sess}
  /\ req[w].op \in {"whoami", "login", "forgot"} => req[w].targets \cap Sessions = {}
  /\ \A s \in req[w].targets \cap Sessions :
       /\ s \in held /\ owner[s] = req[w].user
       /\ HasRevoked(w) => Gone(s)

(* How far the session that a request is issuing has come. *)
NewInv(w) ==
  /\ req[w].op \in {"login", "refresh"} <=> req[w].new # None
  /\ req[w].new # None =>
       /\ req[w].new \notin held
       /\ pc[w] \in {"revoke", "list", "del", "issueAccess"} => access[req[w].new] = "none"
       /\ pc[w] = "issueRefresh" => access[req[w].new] # "none"
       /\ pc[w] \in {"storeJti", "respond"} => refresh[req[w].new] # "none"
       /\ pc[w] \in {"issueRefresh", "storeJti", "respond"} => owner[req[w].new] = req[w].user
       /\ \A v \in Workers \ {w} : req[v].new # req[w].new

SafetyInv ==
  /\ DocsInOrder
  /\ ClosedInv
  /\ \A w \in Workers : OnPath(w) /\ TargetsInv(w) /\ NewInv(w)

(* Reset tokens. *)
ResetInv ==
  /\ \A t \in ResetTokens : (t \in resetHeld \/ resetUser[t] # None) => resetState[t] # "none"
  /\ \A t \in resetHeld : resetUser[t] # None
  /\ ClosedResetTokenIsDead
  /\ \A t \in closed \cap ResetTokens : t \in resetHeld
  /\ \A w \in Workers :
       /\ req[w].op = "forgot" =>
            /\ req[w].reset # None
            /\ pc[w] = "createReset" =>
                 /\ resetState[req[w].reset] = "none"
                 /\ \A v \in Workers \ {w} : req[v].reset # req[w].reset
            /\ pc[w] = "respond" => resetUser[req[w].reset] # None
            /\ \A t \in req[w].targets \cap ResetTokens : resetState[t] = "used" /\ t \in resetHeld
       /\ req[w].op = "reset" =>
            /\ req[w].reset # None
            /\ req[w].reset \in resetHeld
            /\ req[w].targets \cap ResetTokens = {req[w].reset}
            /\ pc[w] \notin {"setPassword", "markUsed"} => resetState[req[w].reset] = "used"
       /\ req[w].op \notin {"forgot", "reset"} => req[w].targets \cap ResetTokens = {}

(* What is revoked, and what a request that has yet to revoke may revoke, is of
   a user who has asked for it. *)
AskedInv ==
  /\ \A s \in Sessions : access[s] = "revoked" \/ refresh[s] = "revoked" => s \in asked
  /\ \A w \in Workers :
       /\ EndingAll(w, req[w].user) => OwnedBy(req[w].user) \subseteq asked
       /\ req[w].op = "logout" /\ pc[w] \in {"granted", "del", "revoke"} => req[w].sess \in asked
       /\ req[w].op = "refresh" /\ pc[w] = "revoke" => req[w].sess \in asked

IInv == TypeOK /\ SafetyInv /\ ResetInv /\ AskedInv

-----------------------------------------------------------------------------
(* How a step of a worker may move its control; the rest of TypeOK is about the
   stores. *)
ControlOK ==
  /\ pc \in [Workers -> Labels]
  /\ req \in [Workers -> Request \cup {NoRequest}]
  /\ \A w \in Workers : pc[w] = "idle" <=> req[w] = NoRequest

(* A request in execution has an operation, which NoRequest has not. *)
LEMMA NotNoRequest == \A r \in Request : r # NoRequest /\ r.op \in AllOps
  <1> TAKE r \in Request
  <1>1. r.op \in Ops
    BY DEF Request
  <1>2. NoRequest.op = "none"
    BY DEF NoRequest, Locals
  <1>3. "none" \notin AllOps
    BY DEF AllOps, Guarded
  <1> QED
    BY <1>1, <1>2, <1>3, OpsAssumption

LEMMA StartControl ==
  ASSUME TypeOK, NEW w \in Workers, NEW label \in Labels \ {"idle"}, NEW r \in Request,
         Start(w, label, r)
  PROVE  ControlOK'
  BY NotNoRequest DEF TypeOK, ControlOK, Start, Goto, Labels

LEMMA GotoControl ==
  ASSUME TypeOK, NEW w \in Workers, NEW label \in Labels \ {"idle"}, pc[w] # "idle",
         Goto(w, label), UNCHANGED req
  PROVE  ControlOK'
  BY DEF TypeOK, ControlOK, Goto, Labels

LEMMA FinishControl ==
  ASSUME TypeOK, NEW w \in Workers, Finish(w)
  PROVE  ControlOK'
  BY DEF TypeOK, ControlOK, Finish, Goto, Labels

LEMMA FoundControl ==
  ASSUME TypeOK, NEW w \in Workers, NEW label \in Labels \ {"idle"}, pc[w] # "idle",
         NEW F \in SUBSET Sessions,
         req' = [req EXCEPT ![w].found = F], Goto(w, label)
  PROVE  ControlOK'
  <1>1. req[w] \in Request
    BY DEF TypeOK
  <1>2. [req[w] EXCEPT !.found = F] \in Request
    BY <1>1 DEF Request
  <1>3. req' = [req EXCEPT ![w] = [req[w] EXCEPT !.found = F]]
    OBVIOUS
  <1> QED
    BY <1>2, <1>3, NotNoRequest DEF TypeOK, ControlOK, Goto, Labels

-----------------------------------------------------------------------------
(* Initially the inductive invariant holds: nothing was issued, every worker is
   idle (the state after create_indexes on empty stores, app/main.py). *)
LEMMA InitInv == Init => IInv
  <1> USE NoneAssumption DEF Init
  <1>1. Init => TypeOK
    BY DEF TypeOK, DocState, Labels
  <1>2. Init => SafetyInv
    BY DEF SafetyInv, DocsInOrder, ClosedInv, Gone, OnPath, TargetsInv, NewInv, HasRevoked, NoRequest, Locals, Guarded
  <1>3. Init => ResetInv
    BY DEF ResetInv, ClosedResetTokenIsDead, NoRequest, Locals
  <1>4. Init => AskedInv
    BY DEF AskedInv, EndingAll, NoRequest, Locals
  <1> QED BY <1>1, <1>2, <1>3, <1>4 DEF IInv

(* Every step keeps the types (each handler step of service.py and
   dependencies.py, each step of the environment). *)
LEMMA TypeStep == IInv /\ [Next]_vars => TypeOK'
  <1> SUFFICES ASSUME IInv, [Next]_vars PROVE TypeOK'
    OBVIOUS
  <1> USE DEF IInv
  <1>0. ASSUME NEW w \in Workers, pc[w] # "idle"
        PROVE  req[w] \in Request /\ req[w] # NoRequest
    BY <1>0 DEF TypeOK
  <1>1. CASE UNCHANGED vars
    BY <1>1 DEF TypeOK, vars, docVars, resetVars, clientVars
  <1>2. ASSUME NEW w \in Workers, Refuse(w) PROVE TypeOK'
    BY <1>2 DEF TypeOK, Refuse, vars, docVars, resetVars, clientVars, Labels, DocState, Request, NoRequest, Locals
  <1>3. ASSUME NEW w \in Workers, Abort(w) PROVE TypeOK'
    BY <1>3, <1>0 DEF TypeOK, Abort, Finish, Goto, docVars, resetVars, clientVars, Labels, DocState, Request, NoRequest, Locals
  <1>4. ASSUME NEW w \in Workers, Respond(w) PROVE TypeOK'
    BY <1>4, <1>0 DEF TypeOK, Respond, Finish, Goto, ResetInv, docVars, resetVars, clientVars, Labels, DocState, Request, NoRequest, Locals
  <1>5. ASSUME NEW w \in Workers, NEW op \in Ops, NEW s \in Sessions, Arrive(w, op, s) PROVE TypeOK'
    <2> DEFINE r == Locals(op, owner[s], s, None, None, ToEnd(op, s))
    <2>1. s \in held /\ Start(w, "ping", r)
      BY <1>5 DEF Arrive
    <2>2. owner[s] \in Users
      BY <2>1 DEF TypeOK, SafetyInv, DocsInOrder
    <2>3. r \in Request
      BY <2>2 DEF Request, Locals, ToEnd, TypeOK
    <2>4. ControlOK'
      <3> HIDE DEF r
      <3> QED BY <2>1, <2>3, StartControl DEF Labels
    <2> QED
      BY <1>5, <2>4 DEF TypeOK, ControlOK, Arrive, docVars, resetVars, clientVars
  <1>6. ASSUME NEW w \in Workers, GuardPing(w) PROVE TypeOK'
    BY <1>6, <1>0 DEF TypeOK, GuardPing, Goto, docVars, resetVars, clientVars, Labels, DocState, Request, NoRequest, Locals
  <1>7. ASSUME NEW w \in Workers, GuardJti(w) PROVE TypeOK'
    <2>1. ControlOK'
      BY <1>7, GotoControl, FinishControl DEF GuardJti, Labels
    <2> QED
      BY <1>7, <2>1 DEF TypeOK, ControlOK, GuardJti, docVars, resetVars, clientVars
  <1>8. ASSUME NEW w \in Workers, GuardDb(w) PROVE TypeOK'
    <2>1. ControlOK'
      BY <1>8, GotoControl, FinishControl DEF GuardDb, Labels
    <2>2. asked' \subseteq Sessions
      BY <1>8, <1>0 DEF GuardDb, TypeOK, SafetyInv, OnPath, TargetsInv, OwnedBy, Guarded
    <2> QED
      BY <1>8, <2>1, <2>2 DEF TypeOK, ControlOK, GuardDb, docVars, resetVars, clientVars
  <1>9. ASSUME NEW w \in Workers, ListAccess(w) PROVE TypeOK'
    <2> DEFINE F == {s \in {req[w].sess} : Live(access[s])}
    <2>1. F \in SUBSET Sessions /\ pc[w] # "idle"
      BY <1>9, <1>0 DEF ListAccess, SafetyInv, TargetsInv, OnPath, TypeOK
    <2>2. ControlOK'
      BY <1>9, <2>1, FoundControl DEF ListAccess, Labels
    <2> QED
      BY <1>9, <2>2 DEF TypeOK, ControlOK, ListAccess, docVars, resetVars, clientVars
  <1>10. ASSUME NEW w \in Workers, ScanKeys(w) PROVE TypeOK'
    <2> DEFINE F == IF redisUp THEN {s \in jti : owner[s] = req[w].user} ELSE {}
    <2>1. F \in SUBSET Sessions /\ pc[w] # "idle"
      BY <1>10 DEF ScanKeys, TypeOK
    <2>2. ControlOK'
      BY <1>10, <2>1, FoundControl DEF ScanKeys, Labels
    <2> QED
      BY <1>10, <2>2 DEF TypeOK, ControlOK, ScanKeys, docVars, resetVars, clientVars
  <1>11. ASSUME NEW w \in Workers, NEW s \in Sessions, DelKey(w, s) PROVE TypeOK'
    <2> DEFINE F == IF redisUp \/ req[w].op \in {"logout", "refresh"}
                    THEN req[w].found \ {s} ELSE {}
    <2>1. F \in SUBSET Sessions /\ pc[w] # "idle"
      BY <1>11, <1>0 DEF DelKey, Request
    <2>2. req' = [req EXCEPT ![w].found = F] /\ Goto(w, "del")
      BY <1>11 DEF DelKey, Goto, TypeOK
    <2>3. ControlOK'
      BY <2>1, <2>2, FoundControl DEF Labels
    <2> QED
      BY <1>11, <2>3 DEF TypeOK, ControlOK, DelKey, docVars, resetVars, clientVars
  <1>12. ASSUME NEW w \in Workers, DelDone(w) PROVE TypeOK'
    BY <1>12, <1>0 DEF TypeOK, DelDone, Goto, AfterDel, docVars, resetVars, clientVars, Labels, DocState, Request, NoRequest, Locals
  <1>13. ASSUME NEW w \in Workers, RevokeSession(w) PROVE TypeOK'
    BY <1>13, <1>0 DEF TypeOK, RevokeSession, Goto, Revoked, docVars, resetVars, clientVars, Labels, DocState, Request, NoRequest, Locals
  <1>14. ASSUME NEW w \in Workers, RevokeAll(w) PROVE TypeOK'
    BY <1>14, <1>0 DEF TypeOK, RevokeAll, Goto, Revoked, docVars, resetVars, clientVars, Labels, DocState, Request, NoRequest, Locals
  <1>15. ASSUME NEW w \in Workers, NEW u \in Users, NEW s \in Sessions, LoginStart(w, u, s) PROVE TypeOK'
    BY <1>15, <1>0 DEF TypeOK, LoginStart, Start, Goto, docVars, resetVars, clientVars, Labels, DocState, Request, NoRequest, Locals
  <1>16. ASSUME NEW w \in Workers, NEW s \in Sessions, NEW new \in Sessions, RefreshStart(w, s, new) PROVE TypeOK'
    <2> DEFINE r == Locals("refresh", owner[s], s, new, None, {s})
    <2>1. s \in held /\ Start(w, "revoke", r)
      BY <1>16 DEF RefreshStart
    <2>2. owner[s] \in Users
      BY <2>1 DEF TypeOK, SafetyInv, DocsInOrder
    <2>3. r \in Request
      BY <2>1, <2>2 DEF Request, Locals, Start
    <2>4. ControlOK'
      <3> HIDE DEF r
      <3> QED BY <2>1, <2>3, StartControl DEF Labels
    <2> QED
      BY <1>16, <2>4 DEF TypeOK, ControlOK, RefreshStart, docVars, resetVars, clientVars
  <1>17. ASSUME NEW w \in Workers, IssueAccess(w) PROVE TypeOK'
    <2>1. ControlOK'
      BY <1>17, GotoControl DEF IssueAccess, Labels
    <2>2. req[w].new \in Sessions /\ req[w].user \in Users
      BY <1>17, <1>0 DEF IssueAccess, SafetyInv, OnPath, NewInv, Request
    <2> QED
      BY <1>17, <2>1, <2>2 DEF TypeOK, ControlOK, IssueAccess, DocState, docVars, resetVars, clientVars
  <1>18. ASSUME NEW w \in Workers, IssueRefresh(w) PROVE TypeOK'
    BY <1>18, <1>0 DEF TypeOK, IssueRefresh, Goto, docVars, resetVars, clientVars, Labels, DocState, Request, NoRequest, Locals
  <1>19. ASSUME NEW w \in Workers, StoreJti(w) PROVE TypeOK'
    <2>1. ControlOK'
      BY <1>19, GotoControl DEF StoreJti, Labels
    <2> QED
      <3>1. req[w].new \in Sessions
        BY <1>19, <1>0 DEF StoreJti, SafetyInv, OnPath, NewInv, Request
      <3> QED
        BY <1>19, <2>1, <3>1 DEF TypeOK, ControlOK, StoreJti, docVars, resetVars, clientVars
  <1>20. ASSUME NEW w \in Workers, NEW u \in Users, NEW t \in ResetTokens, ForgotStart(w, u, t) PROVE TypeOK'
    BY <1>20, <1>0 DEF TypeOK, ForgotStart, Start, Goto, docVars, resetVars, clientVars, Labels, DocState, Request, NoRequest, Locals
  <1>21. ASSUME NEW w \in Workers, CreateReset(w) PROVE TypeOK'
    BY <1>21, <1>0 DEF TypeOK, CreateReset, Goto, docVars, resetVars, clientVars, Labels, DocState, Request, NoRequest, Locals
  <1>22. ASSUME NEW w \in Workers, NEW t \in ResetTokens, ResetStart(w, t) PROVE TypeOK'
    <2> DEFINE r == Locals("reset", resetUser[t], None, None, t, HeldBy(resetUser[t]) \cup {t})
    <2>1. t \in resetHeld /\ Start(w, "setPassword", r)
      BY <1>22 DEF ResetStart
    <2>2. resetUser[t] \in Users
      BY <2>1 DEF TypeOK, ResetInv
    <2>3. r \in Request
      BY <2>1, <2>2 DEF Request, Locals, Start, HeldBy, TypeOK
    <2>4. ControlOK'
      <3> HIDE DEF r
      <3> QED BY <2>1, <2>3, StartControl DEF Labels
    <2> QED
      BY <1>22, <2>4 DEF TypeOK, ControlOK, ResetStart, OwnedBy, docVars, resetVars, clientVars
  <1>23. ASSUME NEW w \in Workers, SetPassword(w) PROVE TypeOK'
    BY <1>23, <1>0 DEF TypeOK, SetPassword, Goto, docVars, resetVars, clientVars, Labels, DocState, Request, NoRequest, Locals
  <1>24. ASSUME NEW w \in Workers, MarkUsed(w) PROVE TypeOK'
    BY <1>24, <1>0 DEF TypeOK, MarkUsed, Goto, docVars, resetVars, clientVars, Labels, DocState, Request, NoRequest, Locals
  <1>25. ASSUME RedisFails PROVE TypeOK'
    BY <1>25 DEF TypeOK, RedisFails, docVars, resetVars, clientVars, Labels, DocState, Request, NoRequest, Locals
  <1>26. ASSUME RedisRecovers PROVE TypeOK'
    BY <1>26 DEF TypeOK, RedisRecovers, docVars, resetVars, clientVars, Labels, DocState, Request, NoRequest, Locals
  <1>27. ASSUME NEW s \in Sessions, AccessExpires(s) PROVE TypeOK'
    BY <1>27 DEF TypeOK, AccessExpires, docVars, resetVars, clientVars, Labels, DocState, Request, NoRequest, Locals
  <1>28. ASSUME NEW s \in Sessions, RefreshExpires(s) PROVE TypeOK'
    BY <1>28 DEF TypeOK, RefreshExpires, docVars, resetVars, clientVars, Labels, DocState, Request, NoRequest, Locals
  <1>29. ASSUME NEW s \in Sessions, JtiExpires(s) PROVE TypeOK'
    BY <1>29 DEF TypeOK, JtiExpires, docVars, resetVars, clientVars, Labels, DocState, Request, NoRequest, Locals
  <1>30. ASSUME NEW t \in ResetTokens, ResetExpires(t) PROVE TypeOK'
    BY <1>30 DEF TypeOK, ResetExpires, docVars, resetVars, clientVars, Labels, DocState, Request, NoRequest, Locals
  <1> QED
    BY <1>1, <1>2, <1>3, <1>4, <1>5, <1>6, <1>7, <1>8, <1>9, <1>10, <1>11, <1>12, <1>13, <1>14, <1>15, <1>16, <1>17, <1>18, <1>19, <1>20, <1>21, <1>22, <1>23, <1>24, <1>25, <1>26, <1>27, <1>28, <1>29, <1>30 DEF Next, WorkerStep, Environment

(* Every step keeps the safety invariant. *)
LEMMA SafetyStep == IInv /\ [Next]_vars => SafetyInv'
  <1> SUFFICES ASSUME IInv, [Next]_vars PROVE SafetyInv'
    OBVIOUS
  <1>0. TypeOK /\ TypeOK'
    BY TypeStep DEF IInv
  <1> USE <1>0 DEF IInv, TypeOK, SafetyInv, DocsInOrder, ClosedInv, OnPath, TargetsInv, NewInv, HasRevoked, Gone, Guarded
  <1>1. CASE UNCHANGED vars
    BY <1>1 DEF vars, docVars, clientVars
  <1>2. ASSUME NEW w \in Workers, Refuse(w) PROVE SafetyInv'
    BY <1>2 DEF Refuse, vars, docVars, clientVars
  <1>3. ASSUME NEW w \in Workers, Abort(w) PROVE SafetyInv'
    BY <1>3, NoneAssumption DEF Abort, Finish, NoRequest, Locals, Goto, docVars, resetVars, clientVars, Request, Labels
  <1>4. ASSUME NEW w \in Workers, Respond(w) PROVE SafetyInv'
    <2> USE <1>4, NoneAssumption DEF Respond, Finish, NoRequest, Locals, Goto, docVars, resetVars, clientVars, Request, Labels
    <2>1. DocsInOrder'
      OBVIOUS
    <2>2. ClosedInv'
      <3>1. \A s \in req[w].targets \cap Sessions : s \in held /\ Gone(s)
        <4>1. CASE pc[w] = "respond"
          <5>1. req[w].op \in AllOps
            BY <4>1, NotNoRequest
          <5> QED BY <4>1, <5>1 DEF AllOps
        <4>2. CASE pc[w] = "granted" /\ req[w].op = "whoami"
          BY <4>2
        <4> QED BY <4>1, <4>2
      <3> QED
        BY <3>1
    <2>3. ASSUME NEW v \in Workers PROVE OnPath(v)'
      OBVIOUS
    <2>4. ASSUME NEW v \in Workers PROVE TargetsInv(v)'
      OBVIOUS
    <2>5. ASSUME NEW v \in Workers PROVE NewInv(v)'
      OBVIOUS
    <2> QED
      BY <2>1, <2>2, <2>3, <2>4, <2>5
  <1>5. ASSUME NEW w \in Workers, NEW op \in Ops, NEW s \in Sessions, Arrive(w, op, s) PROVE SafetyInv'
    BY <1>5, NoneAssumption DEF Arrive, Start, Locals, ToEnd, Goto, docVars, resetVars, clientVars, Request, Labels
  <1>6. ASSUME NEW w \in Workers, GuardPing(w) PROVE SafetyInv'
    BY <1>6, NoneAssumption DEF GuardPing, Goto, docVars, resetVars, clientVars, Request, Labels
  <1>7. ASSUME NEW w \in Workers, GuardJti(w) PROVE SafetyInv'
    <2> USE <1>7, NoneAssumption DEF Goto, docVars, resetVars, clientVars, Labels
    <2>1. CASE redisUp /\ req[w].sess \in jti
      BY <2>1 DEF GuardJti, Request
    <2>2. CASE ~(redisUp /\ req[w].sess \in jti)
      BY <2>2 DEF GuardJti, Finish, NoRequest, Locals
    <2> QED
      BY <2>1, <2>2
  <1>8. ASSUME NEW w \in Workers, GuardDb(w) PROVE SafetyInv'
    <2> USE <1>8, NoneAssumption DEF Goto, docVars, resetVars, clientVars, Labels
    <2>1. CASE Live(access[req[w].sess])
      BY <2>1 DEF GuardDb, Request
    <2>2. CASE ~Live(access[req[w].sess])
      BY <2>2 DEF GuardDb, Finish, NoRequest, Locals
    <2> QED
      BY <2>1, <2>2
  <1>9. ASSUME NEW w \in Workers, ListAccess(w) PROVE SafetyInv'
    BY <1>9, NoneAssumption DEF ListAccess, Goto, docVars, resetVars, clientVars, Request, Labels
  <1>10. ASSUME NEW w \in Workers, ScanKeys(w) PROVE SafetyInv'
    BY <1>10, NoneAssumption DEF ScanKeys, Goto, docVars, resetVars, clientVars, Request, Labels
  <1>11. ASSUME NEW w \in Workers, NEW s \in Sessions, DelKey(w, s) PROVE SafetyInv'
    BY <1>11, NoneAssumption DEF DelKey, docVars, resetVars, clientVars, Request, Labels
  <1>12. ASSUME NEW w \in Workers, DelDone(w) PROVE SafetyInv'
    BY <1>12, NoneAssumption DEF DelDone, AfterDel, Goto, docVars, resetVars, clientVars, Request, Labels
  <1>13. ASSUME NEW w \in Workers, RevokeSession(w) PROVE SafetyInv'
    <2> USE <1>13, NoneAssumption DEF RevokeSession, Revoked, Goto, docVars, resetVars, clientVars, Request, Labels
    <2>1. DocsInOrder'
      OBVIOUS
    <2>2. ClosedInv'
      OBVIOUS
    <2>3. ASSUME NEW v \in Workers PROVE OnPath(v)'
      OBVIOUS
    <2>4. ASSUME NEW v \in Workers PROVE TargetsInv(v)'
      <3>1. \A s \in Sessions : Gone(s) => Gone(s)'
        OBVIOUS
      <3>2. CASE v # w
        <4>1. pc'[v] = pc[v] /\ req'[v] = req[v]
          BY <3>2
        <4> QED BY <3>1, <4>1
      <3>3. CASE v = w
        <4>1. \A s \in req[w].targets \cap Sessions : Gone(s)'
          BY DEF DocState
        <4> QED BY <3>3, <4>1
      <3> QED
        BY <3>2, <3>3
    <2>5. ASSUME NEW v \in Workers PROVE NewInv(v)'
      OBVIOUS
    <2> QED
      BY <2>1, <2>2, <2>3, <2>4, <2>5
  <1>14. ASSUME NEW w \in Workers, RevokeAll(w) PROVE SafetyInv'
    <2> USE <1>14, NoneAssumption DEF RevokeAll, Revoked, Goto, docVars, resetVars, clientVars, Request, Labels
    <2>1. DocsInOrder'
      OBVIOUS
    <2>2. ClosedInv'
      OBVIOUS
    <2>3. ASSUME NEW v \in Workers PROVE OnPath(v)'
      OBVIOUS
    <2>4. ASSUME NEW v \in Workers PROVE TargetsInv(v)'
      <3>1. \A s \in Sessions : Gone(s) => Gone(s)'
        OBVIOUS
      <3>2. CASE v # w
        <4>1. pc'[v] = pc[v] /\ req'[v] = req[v]
          BY <3>2
        <4> QED BY <3>1, <4>1
      <3>3. CASE v = w
        <4>1. \A s \in req[w].targets \cap Sessions : Gone(s)'
          BY DEF DocState
        <4> QED BY <3>3, <4>1
      <3> QED
        BY <3>2, <3>3
    <2>5. ASSUME NEW v \in Workers PROVE NewInv(v)'
      OBVIOUS
    <2> QED
      BY <2>1, <2>2, <2>3, <2>4, <2>5
  <1>15. ASSUME NEW w \in Workers, NEW u \in Users, NEW s \in Sessions, LoginStart(w, u, s) PROVE SafetyInv'
    BY <1>15, NoneAssumption DEF LoginStart, Start, Locals, Fresh, Goto, docVars, resetVars, clientVars, Request, Labels
  <1>16. ASSUME NEW w \in Workers, NEW s \in Sessions, NEW new \in Sessions, RefreshStart(w, s, new) PROVE SafetyInv'
    BY <1>16, NoneAssumption DEF RefreshStart, Start, Locals, Fresh, Goto, docVars, resetVars, clientVars, Request, Labels
  <1>17. ASSUME NEW w \in Workers, IssueAccess(w) PROVE SafetyInv'
    BY <1>17, NoneAssumption DEF IssueAccess, Goto, docVars, resetVars, clientVars, Request, Labels
  <1>18. ASSUME NEW w \in Workers, IssueRefresh(w) PROVE SafetyInv'
    BY <1>18, NoneAssumption DEF IssueRefresh, Goto, docVars, resetVars, clientVars, Request, Labels
  <1>19. ASSUME NEW w \in Workers, StoreJti(w) PROVE SafetyInv'
    BY <1>19, NoneAssumption DEF StoreJti, Goto, docVars, resetVars, clientVars, Request, Labels
  <1>20. ASSUME NEW w \in Workers, NEW u \in Users, NEW t \in ResetTokens, ForgotStart(w, u, t) PROVE SafetyInv'
    BY <1>20, NoneAssumption, DisjointAssumption DEF ForgotStart, Start, Locals, Goto, docVars, resetVars, clientVars, Request, Labels
  <1>21. ASSUME NEW w \in Workers, CreateReset(w) PROVE SafetyInv'
    BY <1>21, NoneAssumption DEF CreateReset, Goto, docVars, resetVars, clientVars, Request, Labels
  <1>22. ASSUME NEW w \in Workers, NEW t \in ResetTokens, ResetStart(w, t) PROVE SafetyInv'
    BY <1>22, NoneAssumption, DisjointAssumption DEF ResetInv, ResetStart, Start, Locals, HeldBy, Goto, docVars, resetVars, clientVars, Request, Labels
  <1>23. ASSUME NEW w \in Workers, SetPassword(w) PROVE SafetyInv'
    BY <1>23, NoneAssumption DEF SetPassword, Goto, docVars, resetVars, clientVars, Request, Labels
  <1>24. ASSUME NEW w \in Workers, MarkUsed(w) PROVE SafetyInv'
    BY <1>24, NoneAssumption DEF MarkUsed, Goto, docVars, resetVars, clientVars, Request, Labels
  <1>25. ASSUME RedisFails PROVE SafetyInv'
    BY <1>25, NoneAssumption DEF RedisFails, docVars, resetVars, clientVars, Request, Labels
  <1>26. ASSUME RedisRecovers PROVE SafetyInv'
    BY <1>26, NoneAssumption DEF RedisRecovers, docVars, resetVars, clientVars, Request, Labels
  <1>27. ASSUME NEW s \in Sessions, AccessExpires(s) PROVE SafetyInv'
    BY <1>27, NoneAssumption DEF AccessExpires, Live, docVars, resetVars, clientVars, Request, Labels
  <1>28. ASSUME NEW s \in Sessions, RefreshExpires(s) PROVE SafetyInv'
    BY <1>28, NoneAssumption DEF RefreshExpires, docVars, resetVars, clientVars, Request, Labels
  <1>29. ASSUME NEW s \in Sessions, JtiExpires(s) PROVE SafetyInv'
    BY <1>29, NoneAssumption DEF JtiExpires, docVars, resetVars, clientVars, Request, Labels
  <1>30. ASSUME NEW t \in ResetTokens, ResetExpires(t) PROVE SafetyInv'
    BY <1>30, NoneAssumption DEF ResetExpires, docVars, resetVars, clientVars, Request, Labels
  <1> QED
    BY <1>1, <1>2, <1>3, <1>4, <1>5, <1>6, <1>7, <1>8, <1>9, <1>10, <1>11, <1>12, <1>13, <1>14, <1>15, <1>16, <1>17, <1>18, <1>19, <1>20, <1>21, <1>22, <1>23, <1>24, <1>25, <1>26, <1>27, <1>28, <1>29, <1>30 DEF Next, WorkerStep, Environment

(* Every step keeps the invariant of the reset tokens. *)
LEMMA ResetStep == IInv /\ [Next]_vars => ResetInv'
  <1> SUFFICES ASSUME IInv, [Next]_vars PROVE ResetInv'
    OBVIOUS
  <1>0. TypeOK /\ TypeOK' /\ \A w \in Workers : OnPath(w)
    BY TypeStep DEF IInv, SafetyInv
  <1> USE <1>0 DEF IInv, TypeOK, ResetInv, ClosedResetTokenIsDead, OnPath, Guarded
  <1>1. CASE UNCHANGED vars
    BY <1>1 DEF vars, resetVars, clientVars
  <1>2. ASSUME NEW w \in Workers, Refuse(w) PROVE ResetInv'
    BY <1>2 DEF Refuse, vars, resetVars, clientVars
  <1>3. ASSUME NEW w \in Workers, Abort(w) PROVE ResetInv'
    BY <1>3, NoneAssumption DEF Abort, Finish, NoRequest, Locals, Goto, resetVars, clientVars, Request, Labels
  <1>4. ASSUME NEW w \in Workers, Respond(w) PROVE ResetInv'
    BY <1>4, NoneAssumption DEF Respond, Finish, NoRequest, Locals, Goto, resetVars, clientVars, Request, Labels
  <1>5. ASSUME NEW w \in Workers, NEW op \in Ops, NEW s \in Sessions, Arrive(w, op, s) PROVE ResetInv'
    BY <1>5, NoneAssumption, DisjointAssumption DEF Arrive, Start, Locals, ToEnd, Goto, resetVars, clientVars, Request, Labels
  <1>6. ASSUME NEW w \in Workers, GuardPing(w) PROVE ResetInv'
    BY <1>6, NoneAssumption DEF GuardPing, Goto, resetVars, clientVars, Request, Labels
  <1>7. ASSUME NEW w \in Workers, GuardJti(w) PROVE ResetInv'
    BY <1>7, NoneAssumption DEF GuardJti, Finish, NoRequest, Locals, Goto, resetVars, clientVars, Request, Labels
  <1>8. ASSUME NEW w \in Workers, GuardDb(w) PROVE ResetInv'
    BY <1>8, NoneAssumption DEF GuardDb, Finish, NoRequest, Locals, Goto, resetVars, clientVars, Request, Labels
  <1>9. ASSUME NEW w \in Workers, ListAccess(w) PROVE ResetInv'
    BY <1>9, NoneAssumption DEF ListAccess, Goto, resetVars, clientVars, Request, Labels
  <1>10. ASSUME NEW w \in Workers, ScanKeys(w) PROVE ResetInv'
    BY <1>10, NoneAssumption DEF ScanKeys, Goto, resetVars, clientVars, Request, Labels
  <1>11. ASSUME NEW w \in Workers, NEW s \in Sessions, DelKey(w, s) PROVE ResetInv'
    BY <1>11, NoneAssumption DEF DelKey, resetVars, clientVars, Request, Labels
  <1>12. ASSUME NEW w \in Workers, DelDone(w) PROVE ResetInv'
    BY <1>12, NoneAssumption DEF DelDone, AfterDel, Goto, resetVars, clientVars, Request, Labels
  <1>13. ASSUME NEW w \in Workers, RevokeSession(w) PROVE ResetInv'
    BY <1>13, NoneAssumption DEF RevokeSession, Goto, resetVars, clientVars, Request, Labels
  <1>14. ASSUME NEW w \in Workers, RevokeAll(w) PROVE ResetInv'
    BY <1>14, NoneAssumption DEF RevokeAll, Goto, resetVars, clientVars, Request, Labels
  <1>15. ASSUME NEW w \in Workers, NEW u \in Users, NEW s \in Sessions, LoginStart(w, u, s) PROVE ResetInv'
    BY <1>15, NoneAssumption, DisjointAssumption DEF LoginStart, Start, Locals, Goto, resetVars, clientVars, Request, Labels
  <1>16. ASSUME NEW w \in Workers, NEW s \in Sessions, NEW new \in Sessions, RefreshStart(w, s, new) PROVE ResetInv'
    BY <1>16, NoneAssumption, DisjointAssumption DEF RefreshStart, Start, Locals, Goto, resetVars, clientVars, Request, Labels
  <1>17. ASSUME NEW w \in Workers, IssueAccess(w) PROVE ResetInv'
    BY <1>17, NoneAssumption DEF IssueAccess, Goto, resetVars, clientVars, Request, Labels
  <1>18. ASSUME NEW w \in Workers, IssueRefresh(w) PROVE ResetInv'
    BY <1>18, NoneAssumption DEF IssueRefresh, Goto, resetVars, clientVars, Request, Labels
  <1>19. ASSUME NEW w \in Workers, StoreJti(w) PROVE ResetInv'
    BY <1>19, NoneAssumption DEF StoreJti, Goto, resetVars, clientVars, Request, Labels
  <1>20. ASSUME NEW w \in Workers, NEW u \in Users, NEW t \in ResetTokens, ForgotStart(w, u, t) PROVE ResetInv'
    BY <1>20, NoneAssumption, DisjointAssumption DEF ForgotStart, Start, Locals, Goto, resetVars, clientVars, Request, Labels
  <1>21. ASSUME NEW w \in Workers, CreateReset(w) PROVE ResetInv'
    BY <1>21, NoneAssumption DEF CreateReset, Goto, resetVars, clientVars, Request, Labels
  <1>22. ASSUME NEW w \in Workers, NEW t \in ResetTokens, ResetStart(w, t) PROVE ResetInv'
    BY <1>22, NoneAssumption, DisjointAssumption DEF ResetStart, Start, Locals, HeldBy, Goto, resetVars, clientVars, Request, Labels
  <1>23. ASSUME NEW w \in Workers, SetPassword(w) PROVE ResetInv'
    BY <1>23, NoneAssumption DEF SetPassword, Goto, resetVars, clientVars, Request, Labels
  <1>24. ASSUME NEW w \in Workers, MarkUsed(w) PROVE ResetInv'
    BY <1>24, NoneAssumption DEF MarkUsed, Goto, resetVars, clientVars, Request, Labels
  <1>25. ASSUME RedisFails PROVE ResetInv'
    BY <1>25, NoneAssumption DEF RedisFails, resetVars, clientVars, Request, Labels
  <1>26. ASSUME RedisRecovers PROVE ResetInv'
    BY <1>26, NoneAssumption DEF RedisRecovers, resetVars, clientVars, Request, Labels
  <1>27. ASSUME NEW s \in Sessions, AccessExpires(s) PROVE ResetInv'
    BY <1>27, NoneAssumption DEF AccessExpires, resetVars, clientVars, Request, Labels
  <1>28. ASSUME NEW s \in Sessions, RefreshExpires(s) PROVE ResetInv'
    BY <1>28, NoneAssumption DEF RefreshExpires, resetVars, clientVars, Request, Labels
  <1>29. ASSUME NEW s \in Sessions, JtiExpires(s) PROVE ResetInv'
    BY <1>29, NoneAssumption DEF JtiExpires, resetVars, clientVars, Request, Labels
  <1>30. ASSUME NEW t \in ResetTokens, ResetExpires(t) PROVE ResetInv'
    BY <1>30, NoneAssumption DEF ResetExpires, resetVars, clientVars, Request, Labels
  <1> QED
    BY <1>1, <1>2, <1>3, <1>4, <1>5, <1>6, <1>7, <1>8, <1>9, <1>10, <1>11, <1>12, <1>13, <1>14, <1>15, <1>16, <1>17, <1>18, <1>19, <1>20, <1>21, <1>22, <1>23, <1>24, <1>25, <1>26, <1>27, <1>28, <1>29, <1>30 DEF Next, WorkerStep, Environment

(* Every step keeps the accounts of who asked for what. *)
LEMMA AskedStep == IInv /\ [Next]_vars => AskedInv'
  <1> SUFFICES ASSUME IInv, [Next]_vars PROVE AskedInv'
    OBVIOUS
  <1>0. TypeOK /\ TypeOK' /\ SafetyInv /\ AskedInv
    BY TypeStep DEF IInv
  <1> USE <1>0 DEF TypeOK, SafetyInv, AskedInv, DocsInOrder, OnPath, TargetsInv, NewInv, OwnedBy, EndingAll, Guarded
  <1>1. CASE UNCHANGED vars
    BY <1>1 DEF vars, docVars
  <1>2. ASSUME NEW w \in Workers, Refuse(w) PROVE AskedInv'
    BY <1>2 DEF Refuse, vars, docVars
  <1>3. ASSUME NEW w \in Workers, Abort(w) PROVE AskedInv'
    BY <1>3, NoneAssumption DEF Abort, Finish, NoRequest, Locals, Goto, docVars, Request, Labels
  <1>4. ASSUME NEW w \in Workers, Respond(w) PROVE AskedInv'
    BY <1>4, NoneAssumption DEF Respond, Finish, NoRequest, Locals, Goto, docVars, Request, Labels
  <1>5. ASSUME NEW w \in Workers, NEW op \in Ops, NEW s \in Sessions, Arrive(w, op, s) PROVE AskedInv'
    BY <1>5, NoneAssumption DEF Arrive, Start, Locals, ToEnd, Goto, docVars, Request, Labels
  <1>6. ASSUME NEW w \in Workers, GuardPing(w) PROVE AskedInv'
    BY <1>6, NoneAssumption DEF GuardPing, Goto, docVars, Request, Labels
  <1>7. ASSUME NEW w \in Workers, GuardJti(w) PROVE AskedInv'
    BY <1>7, NoneAssumption DEF GuardJti, Finish, NoRequest, Locals, Goto, docVars, Request, Labels
  <1>8. ASSUME NEW w \in Workers, GuardDb(w) PROVE AskedInv'
    BY <1>8, NoneAssumption DEF GuardDb, Finish, NoRequest, Locals, Goto, docVars, Request, Labels
  <1>9. ASSUME NEW w \in Workers, ListAccess(w) PROVE AskedInv'
    BY <1>9, NoneAssumption DEF ListAccess, Goto, docVars, Request, Labels
  <1>10. ASSUME NEW w \in Workers, ScanKeys(w) PROVE AskedInv'
    BY <1>10, NoneAssumption DEF ScanKeys, Goto, docVars, Request, Labels
  <1>11. ASSUME NEW w \in Workers, NEW s \in Sessions, DelKey(w, s) PROVE AskedInv'
    BY <1>11, NoneAssumption DEF DelKey, docVars, Request, Labels
  <1>12. ASSUME NEW w \in Workers, DelDone(w) PROVE AskedInv'
    BY <1>12, NoneAssumption DEF DelDone, AfterDel, Goto, docVars, Request, Labels
  <1>13. ASSUME NEW w \in Workers, RevokeSession(w) PROVE AskedInv'
    BY <1>13, NoneAssumption DEF RevokeSession, Goto, docVars, Request, Labels
  <1>14. ASSUME NEW w \in Workers, RevokeAll(w) PROVE AskedInv'
    BY <1>14, NoneAssumption DEF RevokeAll, Goto, docVars, Request, Labels
  <1>15. ASSUME NEW w \in Workers, NEW u \in Users, NEW s \in Sessions, LoginStart(w, u, s) PROVE AskedInv'
    BY <1>15, NoneAssumption DEF LoginStart, Start, Locals, Goto, docVars, Request, Labels
  <1>16. ASSUME NEW w \in Workers, NEW s \in Sessions, NEW new \in Sessions, RefreshStart(w, s, new) PROVE AskedInv'
    BY <1>16, NoneAssumption DEF RefreshStart, Start, Locals, Goto, docVars, Request, Labels
  <1>17. ASSUME NEW w \in Workers, IssueAccess(w) PROVE AskedInv'
    BY <1>17, NoneAssumption DEF IssueAccess, Goto, docVars, Request, Labels
  <1>18. ASSUME NEW w \in Workers, IssueRefresh(w) PROVE AskedInv'
    BY <1>18, NoneAssumption DEF IssueRefresh, Goto, docVars, Request, Labels
  <1>19. ASSUME NEW w \in Workers, StoreJti(w) PROVE AskedInv'
    BY <1>19, NoneAssumption DEF StoreJti, Goto, docVars, Request, Labels
  <1>20. ASSUME NEW w \in Workers, NEW u \in Users, NEW t \in ResetTokens, ForgotStart(w, u, t) PROVE AskedInv'
    BY <1>20, NoneAssumption DEF ForgotStart, Start, Locals, Goto, docVars, Request, Labels
  <1>21. ASSUME NEW w \in Workers, CreateReset(w) PROVE AskedInv'
    BY <1>21, NoneAssumption DEF CreateReset, Goto, docVars, Request, Labels
  <1>22. ASSUME NEW w \in Workers, NEW t \in ResetTokens, ResetStart(w, t) PROVE AskedInv'
    BY <1>22, NoneAssumption DEF ResetStart, Start, Locals, HeldBy, Goto, docVars, Request, Labels
  <1>23. ASSUME NEW w \in Workers, SetPassword(w) PROVE AskedInv'
    BY <1>23, NoneAssumption DEF SetPassword, Goto, docVars, Request, Labels
  <1>24. ASSUME NEW w \in Workers, MarkUsed(w) PROVE AskedInv'
    BY <1>24, NoneAssumption DEF MarkUsed, Goto, docVars, Request, Labels
  <1>25. ASSUME RedisFails PROVE AskedInv'
    BY <1>25, NoneAssumption DEF RedisFails, docVars, Request, Labels
  <1>26. ASSUME RedisRecovers PROVE AskedInv'
    BY <1>26, NoneAssumption DEF RedisRecovers, docVars, Request, Labels
  <1>27. ASSUME NEW s \in Sessions, AccessExpires(s) PROVE AskedInv'
    BY <1>27, NoneAssumption DEF AccessExpires, docVars, Request, Labels
  <1>28. ASSUME NEW s \in Sessions, RefreshExpires(s) PROVE AskedInv'
    BY <1>28, NoneAssumption DEF RefreshExpires, docVars, Request, Labels
  <1>29. ASSUME NEW s \in Sessions, JtiExpires(s) PROVE AskedInv'
    BY <1>29, NoneAssumption DEF JtiExpires, docVars, Request, Labels
  <1>30. ASSUME NEW t \in ResetTokens, ResetExpires(t) PROVE AskedInv'
    BY <1>30, NoneAssumption DEF ResetExpires, docVars, Request, Labels
  <1> QED
    BY <1>1, <1>2, <1>3, <1>4, <1>5, <1>6, <1>7, <1>8, <1>9, <1>10, <1>11, <1>12, <1>13, <1>14, <1>15, <1>16, <1>17, <1>18, <1>19, <1>20, <1>21, <1>22, <1>23, <1>24, <1>25, <1>26, <1>27, <1>28, <1>29, <1>30 DEF Next, WorkerStep, Environment

LEMMA InvStep == IInv /\ [Next]_vars => IInv'
  BY TypeStep, SafetyStep, ResetStep, AskedStep DEF IInv

(* The inductive invariant: sessions are issued document by document, what a
   request was asked to end is ended once it has made its revoking call. *)
THEOREM Invariance == Spec => []IInv
  BY InitInv, InvStep, PTL DEF Spec


(* Logout, logout_all, refresh and reset_password keep their promise: what a
   response has confirmed as ended is unusable for ever (service.py:169-203,
   236-250), for any number of requests, sessions and users and any faults. *)
THEOREM ClosedSessionsStayDead == Spec => []ClosedSessionIsDead
  <1>1. IInv => ClosedSessionIsDead
    BY DEF IInv, SafetyInv, ClosedInv, Gone, Ended, ClosedSessionIsDead
  <1> QED
    BY <1>1, Invariance, PTL

(* A reset token replaced by a later forgot_password, or spent by an answered
   reset_password, is used up (service.py:216, 247). *)
THEOREM ClosedResetTokensStayDead == Spec => []ClosedResetTokenIsDead
  <1>1. IInv => ClosedResetTokenIsDead
    BY DEF IInv, ResetInv
  <1> QED
    BY <1>1, Invariance, PTL

(* Every variable keeps its type, the locals of a request included. *)
THEOREM TypeCorrectness == Spec => []TypeOK
  <1>1. IInv => TypeOK
    BY DEF IInv
  <1> QED
    BY <1>1, Invariance, PTL

(* The guard passes a request only by reading a live access document. *)
LEMMA GrantReadsValid ==
  ASSUME IInv, [Next]_vars, NEW w \in Workers, pc[w] # "granted", pc'[w] = "granted"
  PROVE  GuardDb(w) /\ Live(access[req[w].sess])
  <1> USE DEF IInv, TypeOK
  <1>1. CASE UNCHANGED vars
    BY <1>1 DEF vars
  <1>2. CASE Environment
    BY <1>2 DEF Environment, RedisFails, RedisRecovers, AccessExpires, RefreshExpires, JtiExpires, ResetExpires
  <1>3. ASSUME NEW v \in Workers, WorkerStep(v) PROVE GuardDb(w) /\ Live(access[req[w].sess])
    <2>1. CASE GuardDb(v)
      BY <2>1 DEF GuardDb, Goto, Finish
    <2>2. CASE Refuse(v) \/ Abort(v) \/ Respond(v) \/ \E op \in Ops, s \in Sessions : Arrive(v, op, s)
      BY <2>2 DEF Refuse, Abort, Respond, Arrive, Start, Finish, Goto, vars
    <2>3. CASE GuardPing(v) \/ GuardJti(v) \/ ListAccess(v) \/ ScanKeys(v)
      BY <2>3 DEF GuardPing, GuardJti, ListAccess, ScanKeys, Finish, Goto
    <2>4. CASE (\E s \in Sessions : DelKey(v, s)) \/ DelDone(v)
      BY <2>4 DEF DelKey, DelDone, AfterDel, Goto
    <2>5. CASE RevokeSession(v) \/ RevokeAll(v) \/ IssueAccess(v) \/ IssueRefresh(v) \/ StoreJti(v)
      BY <2>5 DEF RevokeSession, RevokeAll, IssueAccess, IssueRefresh, StoreJti, Goto
    <2>6. CASE \/ \E u \in Users, s \in Sessions : LoginStart(v, u, s)
               \/ \E s, new \in Sessions : RefreshStart(v, s, new)
      BY <2>6 DEF LoginStart, RefreshStart, Start, Goto
    <2>7. CASE \/ \E u \in Users, t \in ResetTokens : ForgotStart(v, u, t)
               \/ \E t \in ResetTokens : ResetStart(v, t)
               \/ CreateReset(v) \/ SetPassword(v) \/ MarkUsed(v)
      BY <2>7 DEF ForgotStart, ResetStart, CreateReset, SetPassword, MarkUsed, Start, Goto
    <2> QED
      BY <1>3, <2>1, <2>2, <2>3, <2>4, <2>5, <2>6, <2>7 DEF WorkerStep
  <1> QED
    BY <1>1, <1>2, <1>3 DEF Next

(* get_current_auth never accepts a session whose end was confirmed before it
   read the access document (dependencies.py:47-57). *)
THEOREM NoGrantAfterCloseHolds == Spec => NoGrantAfterClose
  <1>1. ASSUME IInv, [Next]_vars, NEW w \in Workers, pc[w] # "granted", pc'[w] = "granted"
        PROVE  req[w].sess \notin closed
    <2>1. GuardDb(w) /\ Live(access[req[w].sess])
      BY <1>1, GrantReadsValid
    <2>2. req[w].sess \in Sessions
      BY <2>1, <1>1 DEF GuardDb, IInv, TypeOK, SafetyInv, OnPath, TargetsInv
    <2> QED
      BY <2>1, <2>2, <1>1 DEF IInv, SafetyInv, ClosedInv, Gone, Live
  <1>2. IInv /\ [Next]_vars =>
          [\A w \in Workers : pc[w] # "granted" /\ pc'[w] = "granted" => req[w].sess \notin closed]_vars
    BY <1>1
  <1> QED
    BY <1>2, Invariance, PTL DEF Spec, NoGrantAfterClose

-----------------------------------------------------------------------------
(* The keys of the whitelist, while Redis answers and no request dies *)

Calm == Faults \cap {"redis", "abort"} = {}

(* A session whose key was stored: its client has the cookies, or is about to. *)
Stored(s) == s \in held \/ \E w \in Workers : pc[w] = "respond" /\ req[w].new = s

(* What a request still has to delete are keys of sessions that it is ending. *)
FoundInv(w) ==
  pc[w] = "del" =>
    \A s \in req[w].found :
      \/ req[w].op = "logout" /\ req[w].sess = s
      \/ req[w].op \in {"logoutAll", "reset"} /\ req[w].user = owner[s]

(* A refresh lists the documents of a session that it has revoked already. *)
ListInv(w) == pc[w] = "list" => ~Live(access[req[w].sess])

KeyInv ==
  /\ redisUp
  /\ \A s \in Sessions : access[s] = "none" => owner[s] = None
  /\ \A w \in Workers : FoundInv(w) /\ ListInv(w)
  /\ \A s \in Sessions :
       Stored(s) /\ access[s] = "valid" /\ s \notin jti => \E w \in Workers : Closing(w, s)

LEMMA KeyInit == Init => KeyInv
  BY DEF Init, KeyInv, FoundInv, ListInv, Stored

(* What a step of a request must keep for the keys to stay accounted for. *)
LEMMA KeysKept ==
  ASSUME IInv, KeyInv, NEW w \in Workers,
         \A v \in Workers : v # w => pc'[v] = pc[v] /\ req'[v] = req[v],
         redisUp', held \subseteq held',
         \A s \in Sessions :
           /\ access'[s] = "none" => access[s] = "none" /\ owner'[s] = owner[s]
           /\ access[s] # "none" => owner'[s] = owner[s]
           /\ Live(access[s])' /\ Stored(s)' => Live(access[s])
           /\ access'[s] = "valid" /\ Stored(s)' => access[s] = "valid"
           /\ access'[s] = "valid" /\ Stored(s)' => Stored(s) \/ s \in jti'
           /\ access'[s] = "valid" /\ s \in jti /\ s \notin jti' => Closing(w, s)'
           /\ access'[s] = "valid" /\ Closing(w, s) => Closing(w, s)',
         FoundInv(w)', ListInv(w)'
  PROVE  KeyInv'
  <1>0. TypeOK /\ SafetyInv
    BY DEF IInv
  <1>1. \A s \in Sessions : access'[s] = "none" => owner'[s] = None
    BY DEF KeyInv
  <1>2. ASSUME NEW v \in Workers, v # w PROVE FoundInv(v)'
    <2> SUFFICES ASSUME pc[v] = "del", NEW s \in req[v].found
                 PROVE  \/ req[v].op = "logout" /\ req[v].sess = s
                        \/ req[v].op \in {"logoutAll", "reset"} /\ req[v].user = owner'[s]
      BY <1>2 DEF FoundInv
    <2>1. req[v] \in Request
      BY <1>0 DEF TypeOK
    <2>2. s \in Sessions /\ req[v].user \in Users
      BY <2>1 DEF Request
    <2>3. \/ req[v].op = "logout" /\ req[v].sess = s
          \/ req[v].op \in {"logoutAll", "reset"} /\ req[v].user = owner[s]
      BY DEF KeyInv, FoundInv
    <2>4. CASE req[v].op \in {"logoutAll", "reset"} /\ req[v].user = owner[s]
      <3>1. access[s] # "none"
        BY <2>2, <2>4, NoneAssumption DEF KeyInv
      <3> QED
        BY <2>2, <2>4, <3>1
    <2> QED
      BY <2>3, <2>4
  <1>3. ASSUME NEW v \in Workers, v # w PROVE ListInv(v)'
    <2> SUFFICES ASSUME pc[v] = "list" PROVE ~Live(access'[req[v].sess])
      BY <1>3 DEF ListInv
    <2>1. req[v].sess \in held /\ req[v].sess \in Sessions /\ ~Live(access[req[v].sess])
      BY <1>0 DEF SafetyInv, OnPath, TargetsInv, TypeOK, KeyInv, ListInv
    <2>2. Stored(req[v].sess)'
      <3>1. PICK s \in Sessions : s = req[v].sess
        BY <2>1
      <3>2. Stored(s)'
        BY <2>1, <3>1 DEF Stored
      <3>3. req'[v] = req[v]
        BY <1>3
      <3> QED
        BY <3>1, <3>2, <3>3 DEF Stored
    <2> QED
      <3>1. PICK s \in Sessions : s = req[v].sess
        BY <2>1
      <3>2. Stored(s)'
        BY <2>1, <3>1 DEF Stored
      <3> QED
        BY <2>1, <3>1, <3>2
  <1>4. ASSUME NEW s \in Sessions, Stored(s)', access'[s] = "valid", s \notin jti'
        PROVE  \E v \in Workers : Closing(v, s)'
    <2>1. Stored(s) /\ access[s] = "valid" /\ owner'[s] = owner[s]
      BY <1>4
    <2>2. CASE s \in jti
      BY <2>2, <1>4
    <2>3. CASE s \notin jti
      <3>1. PICK v \in Workers : Closing(v, s)
        BY <2>1, <2>3 DEF KeyInv
      <3>2. CASE v = w
        BY <3>1, <3>2, <1>4
      <3>3. CASE v # w
        <4>1. Closing(v, s)'
          BY <3>1, <3>3, <2>1 DEF Closing
        <4> QED
          BY <4>1
      <3> QED
        BY <3>2, <3>3
    <2> QED
      BY <2>2, <2>3
  <1> QED
    BY <1>1, <1>2, <1>3, <1>4 DEF KeyInv

(* A step that changes no document, no key and no cookie. *)
LEMMA KeyControl ==
  ASSUME IInv, KeyInv, NEW w \in Workers,
         UNCHANGED <<access, owner, jti, redisUp, held>>,
         \A v \in Workers : v # w => pc'[v] = pc[v] /\ req'[v] = req[v],
         pc'[w] = "respond" => req'[w].new = None,
         \A s \in Sessions : Closing(w, s) => Closing(w, s)',
         FoundInv(w)', ListInv(w)'
  PROVE  KeyInv'
  <1>1. \A s \in Sessions : Stored(s)' => Stored(s)
    BY NoneAssumption DEF Stored
  <1>2. redisUp
    BY DEF KeyInv
  <1> QED
    BY <1>1, <1>2, KeysKept

(* Every step keeps the keys of usable sessions, except of those being ended. *)
LEMMA KeyStep == Calm /\ IInv /\ KeyInv /\ [Next]_vars => KeyInv'
  <1> SUFFICES ASSUME Calm, IInv, KeyInv, [Next]_vars PROVE KeyInv'
    OBVIOUS
  <1>0. TypeOK /\ SafetyInv /\ redisUp
    BY DEF IInv, KeyInv
  <1> USE <1>0 DEF docVars, resetVars, clientVars
  <1>a. ASSUME NEW w \in Workers, pc[w] # "idle"
        PROVE  req[w] \in Request /\ OnPath(w) /\ TargetsInv(w) /\ NewInv(w) /\ FoundInv(w) /\ ListInv(w)
    BY <1>a DEF TypeOK, SafetyInv, KeyInv
  <1>b. NoRequest.new = None
    BY DEF NoRequest, Locals
  <1>1. CASE UNCHANGED vars
    BY <1>1 DEF vars, KeyInv, FoundInv, ListInv, Stored, Closing
  <1>2. ASSUME NEW w \in Workers, Refuse(w) PROVE KeyInv'
    BY <1>2, <1>1 DEF Refuse
  <1>3. ASSUME NEW w \in Workers, Abort(w) PROVE KeyInv'
    BY <1>3 DEF Abort, Calm
  <1>4. ASSUME NEW w \in Workers, Respond(w) PROVE KeyInv'
    <2>1. /\ \A v \in Workers : v # w => pc'[v] = pc[v] /\ req'[v] = req[v]
          /\ UNCHANGED <<access, owner, jti, redisUp>>
          /\ pc'[w] = "idle" /\ held' = held \cup ({req[w].new} \ {None})
          /\ pc[w] = "respond" \/ (pc[w] = "granted" /\ req[w].op = "whoami")
      BY <1>4 DEF Respond, Finish, Goto, TypeOK
    <2>2. \A s \in Sessions : Stored(s)' => Stored(s)
      <3>1. pc[w] = "granted" => req[w].new = None
        BY <2>1, <1>a DEF NewInv
      <3> QED
        BY <2>1, <3>1 DEF Stored
    <2>3. \A s \in Sessions : ~Closing(w, s)
      BY <2>1 DEF Closing
    <2>4. FoundInv(w)' /\ ListInv(w)'
      BY <2>1 DEF FoundInv, ListInv
    <2> QED
      BY <2>1, <2>2, <2>3, <2>4, KeysKept
  <1>5. ASSUME NEW w \in Workers, NEW op \in Ops, NEW s \in Sessions, Arrive(w, op, s) PROVE KeyInv'
    <2>1. /\ \A v \in Workers : v # w => pc'[v] = pc[v] /\ req'[v] = req[v]
          /\ UNCHANGED <<access, owner, jti, redisUp, held>>
          /\ pc'[w] \in {"ping"}
      BY <1>5 DEF Arrive, Goto, TypeOK, Start
    <2>2. \A k \in Sessions : ~Closing(w, k)
      BY <1>5 DEF Arrive, Closing, Start
    <2>3. FoundInv(w)' /\ ListInv(w)'
      BY <2>1 DEF FoundInv, ListInv
    <2> QED
      BY <2>1, <2>2, <2>3, KeyControl
  <1>6. ASSUME NEW w \in Workers, GuardPing(w) PROVE KeyInv'
    <2>1. /\ \A v \in Workers : v # w => pc'[v] = pc[v] /\ req'[v] = req[v]
          /\ UNCHANGED <<access, owner, jti, redisUp, held>>
          /\ pc'[w] \in {"jtiGet", "dbGet"}
      BY <1>6 DEF GuardPing, Goto, TypeOK
    <2>2. \A s \in Sessions : ~Closing(w, s)
      BY <1>6 DEF GuardPing, Closing
    <2>3. FoundInv(w)' /\ ListInv(w)'
      BY <2>1 DEF FoundInv, ListInv
    <2> QED
      BY <2>1, <2>2, <2>3, KeyControl
  <1>7. ASSUME NEW w \in Workers, GuardJti(w) PROVE KeyInv'
    <2>1. /\ \A v \in Workers : v # w => pc'[v] = pc[v] /\ req'[v] = req[v]
          /\ UNCHANGED <<access, owner, jti, redisUp, held>>
          /\ pc'[w] \in {"dbGet", "idle"}
      BY <1>7 DEF GuardJti, Goto, TypeOK, Finish
    <2>2. \A s \in Sessions : ~Closing(w, s)
      BY <1>7 DEF GuardJti, Closing, Finish
    <2>3. FoundInv(w)' /\ ListInv(w)'
      BY <2>1 DEF FoundInv, ListInv
    <2> QED
      BY <2>1, <2>2, <2>3, KeyControl
  <1>8. ASSUME NEW w \in Workers, GuardDb(w) PROVE KeyInv'
    <2>1. /\ \A v \in Workers : v # w => pc'[v] = pc[v] /\ req'[v] = req[v]
          /\ UNCHANGED <<access, owner, jti, redisUp, held>>
          /\ pc'[w] \in {"granted", "idle"}
      BY <1>8 DEF GuardDb, Goto, TypeOK, Finish
    <2>2. \A s \in Sessions : ~Closing(w, s)
      BY <1>8 DEF GuardDb, Closing, Finish
    <2>3. FoundInv(w)' /\ ListInv(w)'
      BY <2>1 DEF FoundInv, ListInv
    <2> QED
      BY <2>1, <2>2, <2>3, KeyControl
  <1>9. ASSUME NEW w \in Workers, ListAccess(w) PROVE KeyInv'
    <2>1. /\ \A v \in Workers : v # w => pc'[v] = pc[v] /\ req'[v] = req[v]
          /\ UNCHANGED <<access, owner, jti, redisUp, held>>
          /\ pc'[w] = "del"
          /\ req' = [req EXCEPT ![w].found = {s \in {req[w].sess} : Live(access[s])}]
          /\ \/ pc[w] = "granted" /\ req[w].op = "logout"
             \/ pc[w] = "list"
      BY <1>9 DEF ListAccess, Goto, TypeOK
    <2>2. \A s \in Sessions : ~Closing(w, s)
      BY <2>1 DEF Closing
    <2>3. /\ req'[w].op = req[w].op /\ req'[w].sess = req[w].sess
          /\ req'[w].found = {s \in {req[w].sess} : Live(access[s])}
      BY <2>1, <1>a DEF TypeOK, Request
    <2>4. pc[w] = "list" => ~Live(access[req[w].sess])
      BY <2>1, <1>a DEF ListInv
    <2>5. FoundInv(w)' /\ ListInv(w)'
      BY <2>1, <2>3, <2>4 DEF FoundInv, ListInv
    <2> QED
      BY <2>1, <2>2, <2>5, KeyControl
  <1>10. ASSUME NEW w \in Workers, ScanKeys(w) PROVE KeyInv'
    <2>1. /\ \A v \in Workers : v # w => pc'[v] = pc[v] /\ req'[v] = req[v]
          /\ UNCHANGED <<access, owner, jti, redisUp, held>>
          /\ pc'[w] = "del"
          /\ req' = [req EXCEPT ![w].found = {s \in jti : owner[s] = req[w].user}]
          /\ \/ pc[w] = "granted" /\ req[w].op = "logoutAll"
             \/ pc[w] = "scan"
      BY <1>10 DEF ScanKeys, Goto, TypeOK
    <2>2. \A s \in Sessions : ~Closing(w, s)
      BY <2>1 DEF Closing
    <2>3. /\ req'[w].op = req[w].op /\ req'[w].user = req[w].user
          /\ req'[w].found = {s \in jti : owner[s] = req[w].user}
      BY <2>1, <1>a DEF TypeOK, Request
    <2>4. req[w].op \in {"logoutAll", "reset"}
      BY <2>1, <1>a DEF OnPath
    <2>5. FoundInv(w)' /\ ListInv(w)'
      BY <2>1, <2>3, <2>4 DEF FoundInv, ListInv
    <2> QED
      BY <2>1, <2>2, <2>5, KeyControl
  <1>11. ASSUME NEW w \in Workers, NEW k \in Sessions, DelKey(w, k) PROVE KeyInv'
    <2>1. /\ \A v \in Workers : v # w => pc'[v] = pc[v] /\ req'[v] = req[v]
          /\ UNCHANGED <<access, owner, redisUp, held, pc>>
          /\ pc[w] = "del" /\ k \in req[w].found /\ jti' = jti \ {k}
          /\ req' = [req EXCEPT ![w].found = @ \ {k}]
      BY <1>11 DEF DelKey, TypeOK
    <2>2. req[w] \in Request
      BY <2>1, <1>a
    <2>3. /\ req'[w].op = req[w].op /\ req'[w].user = req[w].user /\ req'[w].sess = req[w].sess
          /\ req'[w].new = req[w].new /\ req'[w].found = req[w].found \ {k}
      BY <2>1, <2>2 DEF TypeOK, Request
    <2>4. \A s \in Sessions : Closing(w, s)' <=> Closing(w, s)
      BY <2>1, <2>3 DEF Closing
    <2>5. FoundInv(w)
      BY <2>1, <1>a
    <2>6. Closing(w, k)
      BY <2>1, <2>5 DEF FoundInv, Closing
    <2>7. FoundInv(w)' /\ ListInv(w)'
      BY <2>1, <2>3, <2>5 DEF FoundInv, ListInv
    <2>8. \A s \in Sessions : Stored(s)' => Stored(s)
      BY <2>1 DEF Stored
    <2>9. \A s \in Sessions : s \in jti /\ s \notin jti' => Closing(w, s)'
      BY <2>1, <2>4, <2>6
    <2> QED
      BY <2>1, <2>4, <2>7, <2>8, <2>9, KeysKept
  <1>12. ASSUME NEW w \in Workers, DelDone(w) PROVE KeyInv'
    <2>1. /\ \A v \in Workers : v # w => pc'[v] = pc[v] /\ req'[v] = req[v]
          /\ UNCHANGED <<access, owner, jti, redisUp, held, req>>
          /\ pc[w] = "del" /\ pc'[w] = AfterDel(req[w].op)
      BY <1>12 DEF DelDone, Goto, TypeOK
    <2>2. req[w].op \in {"logout", "logoutAll", "refresh", "reset"}
      BY <2>1, <1>a DEF OnPath
    <2>3. /\ req[w].op = "logout" => pc'[w] = "revoke"
          /\ req[w].op \in {"logoutAll", "reset"} => pc'[w] = "revokeAll"
          /\ pc'[w] \in {"revoke", "revokeAll", "issueAccess"}
      BY <2>1, <2>2 DEF AfterDel
    <2>4. \A s \in Sessions : Closing(w, s) => Closing(w, s)'
      BY <2>1, <2>3 DEF Closing
    <2>5. FoundInv(w)' /\ ListInv(w)'
      BY <2>3 DEF FoundInv, ListInv
    <2> QED
      BY <2>1, <2>3, <2>4, <2>5, KeyControl
  <1>13. ASSUME NEW w \in Workers, RevokeSession(w) PROVE KeyInv'
    <2>1. /\ \A v \in Workers : v # w => pc'[v] = pc[v] /\ req'[v] = req[v]
          /\ UNCHANGED <<owner, jti, redisUp, held, req>>
          /\ pc[w] = "revoke" /\ pc'[w] = (IF req[w].op = "logout" THEN "respond" ELSE "list")
          /\ access' = [access EXCEPT ![req[w].sess] = Revoked(@)]
      BY <1>13 DEF RevokeSession, Goto, TypeOK
    <2>2. req[w].op \in {"logout", "refresh"} /\ req[w].sess \in Sessions
      BY <2>1, <1>a DEF OnPath, TargetsInv, Guarded, TypeOK
    <2>3. /\ access'[req[w].sess] # "valid" /\ ~Live(access'[req[w].sess])
          /\ \A s \in Sessions : /\ access'[s] = "none" <=> access[s] = "none"
                                 /\ Live(access'[s]) => Live(access[s])
                                 /\ access'[s] = "valid" => access[s] = "valid"
      BY <2>1, <2>2 DEF Revoked, Live, TypeOK, DocState
    <2>4. \A s \in Sessions : Closing(w, s) => s = req[w].sess
      BY <2>1, <2>2 DEF Closing
    <2>5. pc'[w] = "respond" => req[w].new = None
      BY <2>1, <2>2, <1>a DEF NewInv
    <2>6. \A s \in Sessions : Stored(s)' => Stored(s)
      BY <2>1, <2>5, NoneAssumption DEF Stored
    <2>7. FoundInv(w)' /\ ListInv(w)'
      BY <2>1, <2>3 DEF FoundInv, ListInv
    <2> QED
      BY <2>1, <2>3, <2>4, <2>6, <2>7, KeysKept
  <1>14. ASSUME NEW w \in Workers, RevokeAll(w) PROVE KeyInv'
    <2>1. /\ \A v \in Workers : v # w => pc'[v] = pc[v] /\ req'[v] = req[v]
          /\ UNCHANGED <<owner, jti, redisUp, held, req>>
          /\ pc[w] = "revokeAll" /\ pc'[w] = "respond"
          /\ access' = [s \in Sessions |-> IF owner[s] = req[w].user THEN Revoked(access[s]) ELSE access[s]]
      BY <1>14 DEF RevokeAll, Goto, TypeOK
    <2>2. \A s \in Sessions : /\ access'[s] = "none" <=> access[s] = "none"
                              /\ Live(access'[s]) => Live(access[s])
                              /\ access'[s] = "valid" => access[s] = "valid" /\ owner[s] # req[w].user
      BY <2>1 DEF Revoked, Live, TypeOK, DocState
    <2>3. req[w].op \in {"logoutAll", "reset"} /\ req[w].new = None
      BY <2>1, <1>a DEF OnPath, NewInv
    <2>4. \A s \in Sessions : Closing(w, s) => owner[s] = req[w].user
      BY <2>1, <2>3 DEF Closing
    <2>5. \A s \in Sessions : Stored(s)' => Stored(s)
      BY <2>1, <2>3, NoneAssumption DEF Stored
    <2>6. FoundInv(w)' /\ ListInv(w)'
      BY <2>1 DEF FoundInv, ListInv
    <2> QED
      BY <2>1, <2>2, <2>4, <2>5, <2>6, KeysKept
  <1>15. ASSUME NEW w \in Workers, NEW u \in Users, NEW s \in Sessions, LoginStart(w, u, s) PROVE KeyInv'
    <2>1. /\ \A v \in Workers : v # w => pc'[v] = pc[v] /\ req'[v] = req[v]
          /\ UNCHANGED <<access, owner, jti, redisUp, held>>
          /\ pc'[w] \in {"issueAccess"}
      BY <1>15 DEF LoginStart, Goto, TypeOK, Start
    <2>2. \A k \in Sessions : ~Closing(w, k)
      BY <1>15 DEF LoginStart, Closing, Start
    <2>3. FoundInv(w)' /\ ListInv(w)'
      BY <2>1 DEF FoundInv, ListInv
    <2> QED
      BY <2>1, <2>2, <2>3, KeyControl
  <1>16. ASSUME NEW w \in Workers, NEW s \in Sessions, NEW new \in Sessions, RefreshStart(w, s, new) PROVE KeyInv'
    <2>1. /\ \A v \in Workers : v # w => pc'[v] = pc[v] /\ req'[v] = req[v]
          /\ UNCHANGED <<access, owner, jti, redisUp, held>>
          /\ pc'[w] \in {"revoke"}
      BY <1>16 DEF RefreshStart, Goto, TypeOK, Start
    <2>2. \A k \in Sessions : ~Closing(w, k)
      BY <1>16 DEF RefreshStart, Closing, Start
    <2>3. FoundInv(w)' /\ ListInv(w)'
      BY <2>1 DEF FoundInv, ListInv
    <2> QED
      BY <2>1, <2>2, <2>3, KeyControl
  <1>17. ASSUME NEW w \in Workers, IssueAccess(w) PROVE KeyInv'
    <2>1. /\ \A v \in Workers : v # w => pc'[v] = pc[v] /\ req'[v] = req[v]
          /\ UNCHANGED <<jti, redisUp, held, req>>
          /\ pc[w] = "issueAccess" /\ pc'[w] = "issueRefresh"
          /\ access' = [access EXCEPT ![req[w].new] = "valid"]
          /\ owner' = [owner EXCEPT ![req[w].new] = req[w].user]
      BY <1>17 DEF IssueAccess, Goto, TypeOK
    <2>2. PICK new \in Sessions : /\ new = req[w].new /\ new \notin held /\ access[new] = "none"
                                  /\ \A v \in Workers \ {w} : req[v].new # new
      <3>1. req[w] \in Request /\ OnPath(w) /\ NewInv(w)
        BY <2>1, <1>a
      <3>2. req[w].new # None
        BY <2>1, <3>1 DEF OnPath, NewInv
      <3>3. req[w].new \in Sessions
        BY <3>1, <3>2 DEF Request
      <3> QED
        BY <2>1, <3>1, <3>2, <3>3 DEF NewInv
    <2>3. /\ \A s \in Sessions : s # new => access'[s] = access[s] /\ owner'[s] = owner[s]
          /\ access'[new] = "valid"
      BY <2>1, <2>2 DEF TypeOK
    <2>4. ~Stored(new)'
      BY <2>1, <2>2 DEF Stored
    <2>5. \A s \in Sessions : Stored(s)' => Stored(s)
      BY <2>1 DEF Stored
    <2>6. \A s \in Sessions : ~Closing(w, s)
      BY <2>1 DEF Closing
    <2>7. FoundInv(w)' /\ ListInv(w)'
      BY <2>1 DEF FoundInv, ListInv
    <2>8. \A s \in Sessions :
            /\ access'[s] = "none" => access[s] = "none" /\ owner'[s] = owner[s]
            /\ access[s] # "none" => owner'[s] = owner[s]
            /\ Live(access'[s]) /\ Stored(s)' => Live(access[s])
            /\ access'[s] = "valid" /\ Stored(s)' => access[s] = "valid"
      BY <2>2, <2>3, <2>4
    <2> QED
      BY <2>1, <2>5, <2>6, <2>7, <2>8, KeysKept
  <1>18. ASSUME NEW w \in Workers, IssueRefresh(w) PROVE KeyInv'
    <2>1. /\ \A v \in Workers : v # w => pc'[v] = pc[v] /\ req'[v] = req[v]
          /\ UNCHANGED <<access, owner, jti, redisUp, held>>
          /\ pc'[w] \in {"storeJti"}
      BY <1>18 DEF IssueRefresh, Goto, TypeOK
    <2>2. \A s \in Sessions : ~Closing(w, s)
      BY <1>18 DEF IssueRefresh, Closing
    <2>3. FoundInv(w)' /\ ListInv(w)'
      BY <2>1 DEF FoundInv, ListInv
    <2> QED
      BY <2>1, <2>2, <2>3, KeyControl
  <1>19. ASSUME NEW w \in Workers, StoreJti(w) PROVE KeyInv'
    <2>1. /\ \A v \in Workers : v # w => pc'[v] = pc[v] /\ req'[v] = req[v]
          /\ UNCHANGED <<access, owner, redisUp, held, req>>
          /\ pc[w] = "storeJti" /\ pc'[w] = "respond"
          /\ jti' = jti \cup {req[w].new}
      BY <1>19 DEF StoreJti, Goto, TypeOK
    <2>2. \A s \in Sessions : Stored(s)' => Stored(s) \/ s \in jti'
      BY <2>1 DEF Stored
    <2>3. \A s \in Sessions : ~Closing(w, s)
      BY <2>1 DEF Closing
    <2>4. FoundInv(w)' /\ ListInv(w)'
      BY <2>1 DEF FoundInv, ListInv
    <2> QED
      BY <2>1, <2>2, <2>3, <2>4, KeysKept
  <1>20. ASSUME NEW w \in Workers, NEW u \in Users, NEW t \in ResetTokens, ForgotStart(w, u, t) PROVE KeyInv'
    <2>1. /\ \A v \in Workers : v # w => pc'[v] = pc[v] /\ req'[v] = req[v]
          /\ UNCHANGED <<access, owner, jti, redisUp, held>>
          /\ pc'[w] \in {"createReset"}
      BY <1>20 DEF ForgotStart, Goto, TypeOK, Start
    <2>2. \A s \in Sessions : ~Closing(w, s)
      BY <1>20 DEF ForgotStart, Closing, Start
    <2>3. FoundInv(w)' /\ ListInv(w)'
      BY <2>1 DEF FoundInv, ListInv
    <2> QED
      BY <2>1, <2>2, <2>3, KeyControl
  <1>21. ASSUME NEW w \in Workers, CreateReset(w) PROVE KeyInv'
    <2>1. /\ \A v \in Workers : v # w => pc'[v] = pc[v] /\ req'[v] = req[v]
          /\ UNCHANGED <<access, owner, jti, redisUp, held, req>>
          /\ pc[w] = "createReset" /\ pc'[w] = "respond"
      BY <1>21 DEF CreateReset, Goto, TypeOK
    <2>2. req[w].new = None
      BY <2>1, <1>a DEF OnPath, NewInv
    <2>3. \A s \in Sessions : ~Closing(w, s)
      BY <2>1 DEF Closing
    <2>4. FoundInv(w)' /\ ListInv(w)'
      BY <2>1 DEF FoundInv, ListInv
    <2> QED
      BY <2>1, <2>2, <2>3, <2>4, KeyControl
  <1>22. ASSUME NEW w \in Workers, NEW t \in ResetTokens, ResetStart(w, t) PROVE KeyInv'
    <2>1. /\ \A v \in Workers : v # w => pc'[v] = pc[v] /\ req'[v] = req[v]
          /\ UNCHANGED <<access, owner, jti, redisUp, held>>
          /\ pc'[w] \in {"setPassword"}
      BY <1>22 DEF ResetStart, Goto, TypeOK, Start
    <2>2. \A s \in Sessions : ~Closing(w, s)
      BY <1>22 DEF ResetStart, Closing, Start
    <2>3. FoundInv(w)' /\ ListInv(w)'
      BY <2>1 DEF FoundInv, ListInv
    <2> QED
      BY <2>1, <2>2, <2>3, KeyControl
  <1>23. ASSUME NEW w \in Workers, SetPassword(w) PROVE KeyInv'
    <2>1. /\ \A v \in Workers : v # w => pc'[v] = pc[v] /\ req'[v] = req[v]
          /\ UNCHANGED <<access, owner, jti, redisUp, held>>
          /\ pc'[w] \in {"markUsed"}
      BY <1>23 DEF SetPassword, Goto, TypeOK
    <2>2. \A s \in Sessions : ~Closing(w, s)
      BY <1>23 DEF SetPassword, Closing
    <2>3. FoundInv(w)' /\ ListInv(w)'
      BY <2>1 DEF FoundInv, ListInv
    <2> QED
      BY <2>1, <2>2, <2>3, KeyControl
  <1>24. ASSUME NEW w \in Workers, MarkUsed(w) PROVE KeyInv'
    <2>1. /\ \A v \in Workers : v # w => pc'[v] = pc[v] /\ req'[v] = req[v]
          /\ UNCHANGED <<access, owner, jti, redisUp, held>>
          /\ pc'[w] \in {"scan"}
      BY <1>24 DEF MarkUsed, Goto, TypeOK
    <2>2. \A s \in Sessions : ~Closing(w, s)
      BY <1>24 DEF MarkUsed, Closing
    <2>3. FoundInv(w)' /\ ListInv(w)'
      BY <2>1 DEF FoundInv, ListInv
    <2> QED
      BY <2>1, <2>2, <2>3, KeyControl
  <1>25. CASE RedisFails
    BY <1>25 DEF RedisFails, Calm
  <1>26. CASE RedisRecovers
    BY <1>26 DEF RedisRecovers
  <1>27. ASSUME NEW s \in Sessions, AccessExpires(s) PROVE KeyInv'
    BY <1>27 DEF AccessExpires, Live, KeyInv, FoundInv, ListInv, Stored, Closing, TypeOK
  <1>28. ASSUME NEW s \in Sessions, RefreshExpires(s) PROVE KeyInv'
    BY <1>28 DEF RefreshExpires, KeyInv, FoundInv, ListInv, Stored, Closing, TypeOK
  <1>29. ASSUME NEW s \in Sessions, JtiExpires(s) PROVE KeyInv'
    BY <1>29 DEF JtiExpires, KeyInv, FoundInv, ListInv, Stored, Closing, TypeOK
  <1>30. ASSUME NEW t \in ResetTokens, ResetExpires(t) PROVE KeyInv'
    BY <1>30 DEF ResetExpires, KeyInv, FoundInv, ListInv, Stored, Closing, TypeOK
  <1> QED
    BY <1>1, <1>2, <1>3, <1>4, <1>5, <1>6, <1>7, <1>8, <1>9, <1>10, <1>11, <1>12, <1>13, <1>14, <1>15, <1>16, <1>17, <1>18, <1>19, <1>20, <1>21, <1>22, <1>23, <1>24, <1>25, <1>26, <1>27, <1>28, <1>29, <1>30
    DEF Next, WorkerStep, Environment

(* A session is taken from its client only after its own user asked: neither
   document is revoked before, under any fault, and while Redis answers and no
   request dies the key of a valid access token goes only to a request that is
   ending its session (service.py:68-77, 118-122, 195-203;
   token_repository.py:68-94). *)
THEOREM SessionsEndByTheirUsersOnly == Spec => []UsableUntilEnded
  <1>1. IInv => \A s \in held : s \notin asked => access[s] # "revoked" /\ refresh[s] # "revoked"
    BY DEF IInv, TypeOK, AskedInv
  <1>2. CASE Calm
    <2>1. IInv /\ KeyInv /\ [Next]_vars => KeyInv'
      BY <1>2, KeyStep
    <2>2. IInv /\ KeyInv => UsableUntilEnded
      <3>1. IInv /\ KeyInv => \A s \in held : s \in Sessions /\ Stored(s)
        BY DEF IInv, TypeOK, Stored
      <3> QED
        BY <1>1, <3>1 DEF KeyInv, UsableUntilEnded
    <2> QED
      BY <2>1, <2>2, KeyInit, Invariance, PTL DEF Spec
  <1>3. CASE ~Calm
    <2>1. IInv => UsableUntilEnded
      BY <1>1, <1>3 DEF Calm, UsableUntilEnded
    <2> QED
      BY <2>1, Invariance, PTL
  <1> QED
    BY <1>2, <1>3
=============================================================================
