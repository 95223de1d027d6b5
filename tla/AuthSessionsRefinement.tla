----------------------- MODULE AuthSessionsRefinement -----------------------
(* AuthSessions implements SessionLifecycle: the step-by-step proof. *)
EXTENDS AuthSessionsProof

Abstract == <<Phase, HolderOf, asked \cap held, closed \cap Sessions, Grants>>

LEMMA PhaseOf ==
  \A s \in Sessions : Phase[s] = IF s \notin held THEN "unissued"
                                  ELSE IF Gone(s) THEN "ended" ELSE "open"
  BY DEF Phase, Gone

(* A step that leaves the clients' knowledge, what they hold and the requests
   behind the guard as they were is a stutter of the lifecycle. *)
LEMMA Stutter ==
  ASSUME held' = held, closed' = closed, held \subseteq Sessions,
         \A s \in held : s \in asked' <=> s \in asked,
         \A s \in held : owner'[s] = owner[s] /\ (Gone(s)' <=> Gone(s)),
         \A w \in Workers : /\ LetIn(w)' <=> LetIn(w)
                            /\ LetIn(w) => req'[w].sess = req[w].sess
  PROVE  UNCHANGED Abstract
  <1>1. Phase' = Phase
    BY DEF Phase, Gone
  <1>2. HolderOf' = HolderOf
    BY DEF HolderOf
  <1>3. Grants' = Grants
    BY DEF Grants
  <1>4. (asked \cap held)' = asked \cap held
    OBVIOUS
  <1> QED
    BY <1>1, <1>2, <1>3, <1>4 DEF Abstract

LEMMA LifecycleInit == Init => Lifecycle!Init
  BY DEF Init, Lifecycle!Init, Phase, HolderOf, Grants, LetIn, NoRequest, Locals, Guarded

(* An answer: the confirmed sessions are of the user of the request, and gone;
   the issued one was not held. *)
LEMMA AnswerStep ==
  ASSUME IInv, NEW w \in Workers, Respond(w)
  PROVE  \/ Lifecycle!Answer(w, req[w].user)
         \/ \E s \in Sessions : Lifecycle!Issue(w, req[w].user, s)
  <1> USE DEF IInv, SafetyInv
  <1> DEFINE r == req[w]
  <1>1. /\ r \in Request /\ r.user \in Users
        /\ pc' = [pc EXCEPT ![w] = "idle"] /\ req' = [req EXCEPT ![w] = NoRequest]
        /\ held' = held \cup ({r.new} \ {None}) /\ closed' = closed \cup r.targets
        /\ UNCHANGED <<access, refresh, owner, asked>>
    BY DEF Respond, Finish, Goto, TypeOK, Request, docVars
  <1>2. \A s \in r.targets \cap Sessions : s \in held /\ owner[s] = r.user /\ Gone(s)
    <2>1. r.op \in AllOps
      BY <1>1, NotNoRequest
    <2>2. r.op \in {"whoami", "login", "forgot"} \/ HasRevoked(w)
      BY <2>1 DEF HasRevoked, Respond, AllOps, Guarded
    <2> QED
      BY <2>2 DEF TargetsInv
  <1>3. \E S \in SUBSET {s \in Lifecycle!OfUser(r.user) : Phase[s] = "ended"} :
          (closed \cap Sessions)' = (closed \cap Sessions) \cup S
    <2> DEFINE S == r.targets \cap Sessions
    <2>1. S \subseteq {s \in Lifecycle!OfUser(r.user) : Phase[s] = "ended"}
      BY <1>2, PhaseOf DEF HolderOf, Lifecycle!OfUser
    <2>2. (closed \cap Sessions)' = (closed \cap Sessions) \cup S
      BY <1>1
    <2> HIDE DEF S
    <2> QED
      BY <2>1, <2>2
  <1>4. Grants' = [Grants EXCEPT ![w] = None]
    BY <1>1 DEF Grants, LetIn, NoRequest, Locals, Guarded, TypeOK
  <1>5. CASE r.new = None
    <2>1. UNCHANGED <<Phase, HolderOf, asked \cap held>>
      BY <1>1, <1>5 DEF Phase, HolderOf
    <2> QED
      BY <1>3, <1>4, <2>1 DEF Lifecycle!Answer
  <1>6. CASE r.new # None
    <2>1. pc[w] = "respond"
      BY <1>6 DEF Respond, NewInv
    <2>2. r.new \in Sessions /\ r.new \notin held /\ owner[r.new] = r.user
      BY <1>1, <1>6, <2>1 DEF NewInv, Request
    <2>3. held' = held \cup {r.new}
      BY <1>1, <1>6
    <2>4. Phase' = [Phase EXCEPT ![r.new] = IF Gone(r.new) THEN "ended" ELSE "open"]
      BY <1>1, <2>2, <2>3 DEF Phase, Gone
    <2>5. HolderOf' = [HolderOf EXCEPT ![r.new] = r.user]
      BY <1>1, <2>2, <2>3 DEF HolderOf
    <2>6. (asked \cap held)' = (asked \cap held) \cup (asked \cap {r.new})
      BY <1>1, <2>3
    <2>7. Gone(r.new) => r.new \in asked
      BY <2>2 DEF AskedInv, Gone
    <2>8. Phase[r.new] = "unissued" /\ Phase'[r.new] = IF Gone(r.new) THEN "ended" ELSE "open"
      BY <2>2, <2>4 DEF Phase
    <2>9. Lifecycle!Issue(w, r.user, r.new)
      <3>1. (asked \cap held)' \in {asked \cap held, (asked \cap held) \cup {r.new}}
        BY <2>6
      <3>2. Phase'[r.new] = "ended" => r.new \in (asked \cap held)'
        BY <2>7, <2>8, <2>6
      <3>3. Phase' = [Phase EXCEPT ![r.new] = "open"] \/ Phase' = [Phase EXCEPT ![r.new] = "ended"]
        BY <2>4
      <3> QED
        BY <1>3, <1>4, <2>5, <2>8, <3>1, <3>2, <3>3 DEF Lifecycle!Issue
    <2> QED
      BY <2>2, <2>9
  <1> QED
    BY <1>5, <1>6

(* The guard's acceptance is the abstract grant: the document it read was live,
   so the session is open; what it adds to asked is the user's own. *)
LEMMA GrantStep ==
  ASSUME IInv, NEW w \in Workers, GuardDb(w), pc'[w] = "granted"
  PROVE  \E s \in Sessions : Lifecycle!Grant(w, s)
  <1> USE DEF IInv, SafetyInv, TypeOK
  <1> DEFINE s == req[w].sess
             N == asked' \cap held
  <1>1. /\ pc[w] = "dbGet" /\ Live(access[s]) /\ UNCHANGED req /\ pc' = [pc EXCEPT ![w] = "granted"]
        /\ UNCHANGED <<access, refresh, owner, held, closed>>
    BY DEF GuardDb, Goto, Finish, docVars, clientVars
  <1>2. s \in held /\ s \in Sessions /\ req[w].op \in Guarded /\ owner[s] = req[w].user
    BY <1>1 DEF OnPath, TargetsInv
  <1>3. Phase[s] = "open"
    BY <1>1, <1>2 DEF Phase, Live
  <1>4. Grants[w] = None
    BY <1>1 DEF Grants, LetIn
  <1>5. Grants' = [Grants EXCEPT ![w] = s]
    BY <1>1, <1>2 DEF Grants, LetIn
  <1>6. UNCHANGED <<Phase, HolderOf, closed \cap Sessions>>
    BY <1>1 DEF Phase, HolderOf
  <1>7. \E S \in SUBSET Lifecycle!OfUser(HolderOf[s]) : (asked \cap held)' = (asked \cap held) \cup S
    <2> DEFINE S == (asked' \ asked) \cap held
    <2>1. asked \subseteq asked' /\ \A k \in asked' \ asked : k = s \/ owner[k] = req[w].user
      BY <1>1, <1>2 DEF GuardDb, OwnedBy, Guarded
    <2>2. S \subseteq Lifecycle!OfUser(HolderOf[s])
      BY <1>2, <2>1 DEF Lifecycle!OfUser, HolderOf
    <2>3. (asked \cap held)' = (asked \cap held) \cup S
      BY <1>1, <2>1
    <2> QED
      BY <2>2, <2>3
  <1> QED
    BY <1>2, <1>3, <1>4, <1>5, <1>6, <1>7 DEF Lifecycle!Grant

(* A refresh or a reset that begins asks to end sessions of its user. *)
LEMMA AskStep ==
  ASSUME IInv, NEW u \in Users, UNCHANGED <<access, refresh, owner, held, closed>>,
         asked \subseteq asked', \A k \in asked' \ asked : owner[k] = u,
         \A w \in Workers : /\ LetIn(w)' <=> LetIn(w)
                            /\ LetIn(w) => req'[w].sess = req[w].sess
  PROVE  Lifecycle!Ask(u)
  <1> DEFINE S == (asked' \ asked) \cap held
  <1>1. S \subseteq Lifecycle!OfUser(u)
    BY DEF Lifecycle!OfUser, HolderOf, IInv, TypeOK
  <1>2. (asked \cap held)' = (asked \cap held) \cup S
    OBVIOUS
  <1>3. UNCHANGED <<Phase, HolderOf, closed \cap Sessions, Grants>>
    BY DEF Phase, HolderOf, Grants
  <1> QED
    BY <1>1, <1>2, <1>3 DEF Lifecycle!Ask

(* A revocation ends what was asked for. *)
LEMMA EndStep ==
  ASSUME IInv, UNCHANGED <<owner, held, closed, asked, req>>,
         \A s \in held : Gone(s)' => Gone(s) \/ s \in asked,
         \A s \in held : Gone(s) => Gone(s)',
         \A w \in Workers : LetIn(w)' <=> LetIn(w)
  PROVE  Lifecycle!End
  <1> DEFINE S == {s \in held : Gone(s)' /\ ~Gone(s)}
  <1>1. S \subseteq asked \cap held /\ held \subseteq Sessions
    BY DEF IInv, TypeOK
  <1>2. \A s \in Sessions : Phase'[s] = IF s \in S THEN "ended" ELSE Phase[s]
    BY DEF Phase, Gone
  <1>3. Phase' = [s \in Sessions |-> IF s \in S THEN "ended" ELSE Phase[s]]
    <2> HIDE DEF S
    <2> QED
      BY <1>2 DEF Phase
  <1>4. UNCHANGED <<HolderOf, asked \cap held, closed \cap Sessions, Grants>>
    BY DEF HolderOf, Grants
  <1> QED
    BY <1>1, <1>3, <1>4 DEF Lifecycle!End

(* Every step of the service is a step of the lifecycle or a stutter. *)
LEMMA LifecycleStep ==
  IInv /\ [Next]_vars => Lifecycle!Next \/ UNCHANGED Abstract
  <1> SUFFICES ASSUME IInv, [Next]_vars
               PROVE  Lifecycle!Next \/ UNCHANGED Abstract
    OBVIOUS
  <1>0. TypeOK /\ TypeOK' /\ DocsInOrder /\ \A w \in Workers : OnPath(w) /\ NewInv(w)
    BY TypeStep DEF IInv, SafetyInv
  <1> USE <1>0 DEF TypeOK, OnPath, NewInv, DocsInOrder, Guarded, Gone
  <1>1. CASE UNCHANGED vars
    BY <1>1, Stutter DEF vars, docVars, clientVars, LetIn
  <1>2. ASSUME NEW w \in Workers, Refuse(w) PROVE Lifecycle!Next \/ UNCHANGED Abstract
    BY <1>2, Stutter DEF Refuse, vars, docVars, clientVars, LetIn
  <1>3. ASSUME NEW w \in Workers, Abort(w) PROVE Lifecycle!Next \/ UNCHANGED Abstract
    <2>1. Lifecycle!Drop(w)
      <3>1. Grants' = [Grants EXCEPT ![w] = None]
        BY <1>3 DEF Abort, Finish, Goto, NoRequest, Locals, Grants, LetIn
      <3>2. UNCHANGED <<Phase, HolderOf, asked \cap held, closed \cap Sessions>>
        BY <1>3 DEF Abort, docVars, clientVars, Phase, HolderOf
      <3> QED
        BY <3>1, <3>2 DEF Lifecycle!Drop
    <2> QED
      BY <2>1 DEF Lifecycle!Next
  <1>4. ASSUME NEW w \in Workers, Respond(w) PROVE Lifecycle!Next \/ UNCHANGED Abstract
    BY <1>4, <1>0, AnswerStep DEF Lifecycle!Next, TypeOK, Request, Respond
  <1>5. ASSUME NEW w \in Workers, NEW op \in Ops, NEW s \in Sessions, Arrive(w, op, s) PROVE Lifecycle!Next \/ UNCHANGED Abstract
    BY <1>5, Stutter DEF Arrive, Start, NoRequest, Locals, Goto, docVars, clientVars, LetIn, Request, Labels
  <1>6. ASSUME NEW w \in Workers, GuardPing(w) PROVE Lifecycle!Next \/ UNCHANGED Abstract
    BY <1>6, Stutter DEF GuardPing, Goto, docVars, clientVars, LetIn, Request, Labels
  <1>7. ASSUME NEW w \in Workers, GuardJti(w) PROVE Lifecycle!Next \/ UNCHANGED Abstract
    BY <1>7, Stutter DEF GuardJti, Finish, NoRequest, Locals, Goto, docVars, clientVars, LetIn, Request, Labels
  <1>8. ASSUME NEW w \in Workers, GuardDb(w) PROVE Lifecycle!Next \/ UNCHANGED Abstract
    <2>1. CASE pc'[w] = "granted"
      BY <1>8, <2>1, GrantStep DEF Lifecycle!Next
    <2>2. CASE pc'[w] # "granted"
      <3>1. \A v \in Workers : LetIn(v)' <=> LetIn(v)
        BY <1>8, <2>2 DEF GuardDb, Goto, Finish, LetIn, NoRequest, Locals
      <3> QED
        BY <1>8, <2>2, <3>1, Stutter DEF GuardDb, Goto, Finish, LetIn, docVars, clientVars
    <2> QED
      BY <2>1, <2>2
  <1>9. ASSUME NEW w \in Workers, ListAccess(w) PROVE Lifecycle!Next \/ UNCHANGED Abstract
    BY <1>9, Stutter DEF ListAccess, Goto, docVars, clientVars, LetIn, Request, Labels
  <1>10. ASSUME NEW w \in Workers, ScanKeys(w) PROVE Lifecycle!Next \/ UNCHANGED Abstract
    BY <1>10, Stutter DEF ScanKeys, Goto, docVars, clientVars, LetIn, Request, Labels
  <1>11. ASSUME NEW w \in Workers, NEW s \in Sessions, DelKey(w, s) PROVE Lifecycle!Next \/ UNCHANGED Abstract
    BY <1>11, Stutter DEF DelKey, docVars, clientVars, LetIn, Request, Labels
  <1>12. ASSUME NEW w \in Workers, DelDone(w) PROVE Lifecycle!Next \/ UNCHANGED Abstract
    BY <1>12, Stutter DEF DelDone, AfterDel, Goto, docVars, clientVars, LetIn, Request, Labels
  <1>13. ASSUME NEW w \in Workers, RevokeSession(w) PROVE Lifecycle!Next \/ UNCHANGED Abstract
    <2>1. /\ pc[w] = "revoke" /\ UNCHANGED <<owner, held, closed, asked, req>>
          /\ access' = [access EXCEPT ![req[w].sess] = Revoked(@)]
          /\ refresh' = [refresh EXCEPT ![req[w].sess] = Revoked(@)]
          /\ pc' = [pc EXCEPT ![w] = IF req[w].op = "logout" THEN "respond" ELSE "list"]
      BY <1>13 DEF RevokeSession, Goto, clientVars
    <2>2. req[w].sess \in asked
      BY <2>1 DEF IInv, AskedInv
    <2>3. Lifecycle!End
      BY <2>1, <2>2, EndStep DEF Revoked, LetIn
    <2> QED
      BY <2>3 DEF Lifecycle!Next
  <1>14. ASSUME NEW w \in Workers, RevokeAll(w) PROVE Lifecycle!Next \/ UNCHANGED Abstract
    <2>1. /\ pc[w] = "revokeAll" /\ UNCHANGED <<owner, held, closed, asked, req>>
          /\ access' = [s \in Sessions |-> IF owner[s] = req[w].user THEN Revoked(access[s]) ELSE access[s]]
          /\ refresh' = [s \in Sessions |-> IF owner[s] = req[w].user THEN Revoked(refresh[s]) ELSE refresh[s]]
          /\ pc' = [pc EXCEPT ![w] = "respond"]
      BY <1>14 DEF RevokeAll, Goto, clientVars
    <2>2. OwnedBy(req[w].user) \subseteq asked
      BY <2>1 DEF IInv, AskedInv, EndingAll
    <2>3. Lifecycle!End
      BY <2>1, <2>2, EndStep DEF Revoked, OwnedBy, LetIn
    <2> QED
      BY <2>3 DEF Lifecycle!Next
  <1>15. ASSUME NEW w \in Workers, NEW u \in Users, NEW s \in Sessions, LoginStart(w, u, s) PROVE Lifecycle!Next \/ UNCHANGED Abstract
    BY <1>15, Stutter DEF LoginStart, Start, NoRequest, Locals, Goto, docVars, clientVars, LetIn, Request, Labels
  <1>16. ASSUME NEW w \in Workers, NEW s \in Sessions, NEW new \in Sessions, RefreshStart(w, s, new) PROVE Lifecycle!Next \/ UNCHANGED Abstract
    <2>0. PICK u \in Users : u = owner[s]
      BY <1>16 DEF RefreshStart
    <2>1. /\ s \in held
          /\ UNCHANGED <<access, refresh, owner, held, closed>> /\ asked' = asked \cup {s}
      BY <1>16 DEF RefreshStart, docVars, clientVars
    <2>2. \A v \in Workers : /\ LetIn(v)' <=> LetIn(v)
                             /\ LetIn(v) => req'[v].sess = req[v].sess
      BY <1>16 DEF RefreshStart, Start, NoRequest, Locals, Goto, LetIn
    <2>3. asked \subseteq asked' /\ \A k \in asked' \ asked : owner[k] = u
      BY <2>0, <2>1
    <2>4. Lifecycle!Ask(u)
      BY <2>1, <2>2, <2>3, AskStep
    <2> QED
      BY <2>4 DEF Lifecycle!Next
  <1>17. ASSUME NEW w \in Workers, IssueAccess(w) PROVE Lifecycle!Next \/ UNCHANGED Abstract
    BY <1>17, Stutter DEF IssueAccess, Goto, docVars, clientVars, LetIn, Request, Labels
  <1>18. ASSUME NEW w \in Workers, IssueRefresh(w) PROVE Lifecycle!Next \/ UNCHANGED Abstract
    BY <1>18, Stutter DEF IssueRefresh, Goto, docVars, clientVars, LetIn, Request, Labels
  <1>19. ASSUME NEW w \in Workers, StoreJti(w) PROVE Lifecycle!Next \/ UNCHANGED Abstract
    BY <1>19, Stutter DEF StoreJti, Goto, docVars, clientVars, LetIn, Request, Labels
  <1>20. ASSUME NEW w \in Workers, NEW u \in Users, NEW t \in ResetTokens, ForgotStart(w, u, t) PROVE Lifecycle!Next \/ UNCHANGED Abstract
    BY <1>20, Stutter DEF ForgotStart, Start, NoRequest, Locals, Goto, docVars, clientVars, LetIn, Request, Labels
  <1>21. ASSUME NEW w \in Workers, CreateReset(w) PROVE Lifecycle!Next \/ UNCHANGED Abstract
    BY <1>21, Stutter DEF CreateReset, Goto, docVars, clientVars, LetIn, Request, Labels
  <1>22. ASSUME NEW w \in Workers, NEW t \in ResetTokens, ResetStart(w, t) PROVE Lifecycle!Next \/ UNCHANGED Abstract
    <2>0. PICK u \in Users : u = resetUser[t]
      BY <1>22 DEF ResetStart, IInv, ResetInv
    <2>1. /\ UNCHANGED <<access, refresh, owner, held, closed>>
          /\ asked' = asked \cup OwnedBy(resetUser[t])
      BY <1>22 DEF ResetStart, docVars, clientVars
    <2>2. \A v \in Workers : /\ LetIn(v)' <=> LetIn(v)
                             /\ LetIn(v) => req'[v].sess = req[v].sess
      BY <1>22 DEF ResetStart, Start, NoRequest, Locals, Goto, LetIn
    <2>3. asked \subseteq asked' /\ \A k \in asked' \ asked : owner[k] = u
      BY <2>0, <2>1 DEF OwnedBy
    <2>4. Lifecycle!Ask(u)
      BY <2>1, <2>2, <2>3, AskStep
    <2> QED
      BY <2>4 DEF Lifecycle!Next
  <1>23. ASSUME NEW w \in Workers, SetPassword(w) PROVE Lifecycle!Next \/ UNCHANGED Abstract
    BY <1>23, Stutter DEF SetPassword, Goto, docVars, clientVars, LetIn, Request, Labels
  <1>24. ASSUME NEW w \in Workers, MarkUsed(w) PROVE Lifecycle!Next \/ UNCHANGED Abstract
    BY <1>24, Stutter DEF MarkUsed, Goto, docVars, clientVars, LetIn, Request, Labels
  <1>25. ASSUME RedisFails PROVE Lifecycle!Next \/ UNCHANGED Abstract
    BY <1>25, Stutter DEF RedisFails, docVars, clientVars, LetIn, Request, Labels
  <1>26. ASSUME RedisRecovers PROVE Lifecycle!Next \/ UNCHANGED Abstract
    BY <1>26, Stutter DEF RedisRecovers, docVars, clientVars, LetIn, Request, Labels
  <1>27. ASSUME NEW s \in Sessions, AccessExpires(s) PROVE Lifecycle!Next \/ UNCHANGED Abstract
    BY <1>27, Stutter DEF AccessExpires, Live, docVars, clientVars, LetIn, Request, Labels
  <1>28. ASSUME NEW s \in Sessions, RefreshExpires(s) PROVE Lifecycle!Next \/ UNCHANGED Abstract
    BY <1>28, Stutter DEF RefreshExpires, docVars, clientVars, LetIn, Request, Labels
  <1>29. ASSUME NEW s \in Sessions, JtiExpires(s) PROVE Lifecycle!Next \/ UNCHANGED Abstract
    BY <1>29, Stutter DEF JtiExpires, docVars, clientVars, LetIn, Request, Labels
  <1>30. ASSUME NEW t \in ResetTokens, ResetExpires(t) PROVE Lifecycle!Next \/ UNCHANGED Abstract
    BY <1>30, Stutter DEF ResetExpires, docVars, clientVars, LetIn, Request, Labels
  <1> QED
    BY <1>1, <1>2, <1>3, <1>4, <1>5, <1>6, <1>7, <1>8, <1>9, <1>10, <1>11, <1>12, <1>13, <1>14, <1>15, <1>16, <1>17, <1>18, <1>19, <1>20, <1>21, <1>22, <1>23, <1>24, <1>25, <1>26, <1>27, <1>28, <1>29, <1>30 DEF Next, WorkerStep, Environment

(* The service implements the session lifecycle that its API documents. *)
THEOREM ServiceImplementsLifecycle == Spec => ImplementsLifecycle
  <1>1. IInv /\ [Next]_vars => [Lifecycle!Next]_Abstract
    BY LifecycleStep
  <1> QED
    BY <1>1, LifecycleInit, Invariance, PTL DEF Spec, ImplementsLifecycle, Lifecycle!Spec, Lifecycle!vars, Abstract
=============================================================================
