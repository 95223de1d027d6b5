-------------------------- MODULE SessionLifecycle --------------------------
(***************************************************************************)
(* What the authentication service promises its clients, without tokens,   *)
(* two documents per session or a whitelist: a session is issued once, to  *)
(* one user, who alone can ask to end it; it ends at once and for good,    *)
(* only when that was asked; an answer confirms only ends that have        *)
(* happened; the guard accepts open sessions only.  AuthSessions           *)
(* implements this specification.                                          *)
(***************************************************************************)
CONSTANTS Workers, Users, Sessions, None

VARIABLES
  phase,      \* of a session: "unissued", "open", "ended"
  user,       \* whom it was issued to
  asked,      \* sessions whose user has asked to end them
  confirmed,  \* sessions that an answer has called ended
  grants      \* the session a request was let in with

vars == <<phase, user, asked, confirmed, grants>>

Init ==
  /\ phase = [s \in Sessions |-> "unissued"]
  /\ user = [s \in Sessions |-> None]
  /\ asked = {}
  /\ confirmed = {}
  /\ grants = [w \in Workers |-> None]

OfUser(u) == {s \in Sessions : user[s] = u}

(* The guard lets request w in, which may ask to end sessions of its user. *)
Grant(w, s) ==
  /\ phase[s] = "open"
  /\ grants[w] = None
  /\ grants' = [grants EXCEPT ![w] = s]
  /\ \E S \in SUBSET OfUser(user[s]) : asked' = asked \cup S
  /\ UNCHANGED <<phase, user, confirmed>>

(* A refresh or a password reset of user u asks without passing the guard. *)
Ask(u) ==
  /\ \E S \in SUBSET OfUser(u) : asked' = asked \cup S
  /\ UNCHANGED <<phase, user, confirmed, grants>>

(* Sessions that were to end, end. *)
End ==
  /\ \E S \in SUBSET asked :
       phase' = [s \in Sessions |-> IF s \in S THEN "ended" ELSE phase[s]]
  /\ UNCHANGED <<user, asked, confirmed, grants>>

(* Request w of user u answers: it confirms the end of sessions of u. *)
Answer(w, u) ==
  /\ \E S \in SUBSET {s \in OfUser(u) : phase[s] = "ended"} : confirmed' = confirmed \cup S
  /\ grants' = [grants EXCEPT ![w] = None]
  /\ UNCHANGED <<phase, user, asked>>

(* The same, and issues session s to u: already asked for, or even ended, when
   a request of u to end all its sessions ran meanwhile. *)
Issue(w, u, s) ==
  /\ phase[s] = "unissued"
  /\ phase' = [phase EXCEPT ![s] = "open"] \/ phase' = [phase EXCEPT ![s] = "ended"]
  /\ user' = [user EXCEPT ![s] = u]
  /\ asked' \in {asked, asked \cup {s}}
  /\ phase'[s] = "ended" => s \in asked'
  /\ \E S \in SUBSET {r \in OfUser(u) : phase[r] = "ended"} : confirmed' = confirmed \cup S
  /\ grants' = [grants EXCEPT ![w] = None]

(* Request w dies without an answer. *)
Drop(w) == grants' = [grants EXCEPT ![w] = None] /\ UNCHANGED <<phase, user, asked, confirmed>>

Next ==
  \/ \E w \in Workers :
       \/ \E s \in Sessions : Grant(w, s)
       \/ \E u \in Users : Answer(w, u)
       \/ \E u \in Users, s \in Sessions : Issue(w, u, s)
       \/ Drop(w)
  \/ \E u \in Users : Ask(u)
  \/ End

Spec == Init /\ [][Next]_vars
=============================================================================
