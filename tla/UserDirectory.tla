--------------------------- MODULE UserDirectory ---------------------------
(***************************************************************************)
(* What registration and the OAuth login promise about the users, without  *)
(* requests, locks, indexes or restarts: users are never removed and never *)
(* change their e-mail; an account of Yandex is attached only to a user    *)
(* whose e-mail Yandex has told for it; only an existing user is           *)
(* announced; and, while the directory vouches for it, nobody enters with  *)
(* an e-mail that is taken.  Registration implements this specification.   *)
(***************************************************************************)
CONSTANTS Users, Emails, YandexIds, Profiles, None

VARIABLES
  email, yandex,   \* of a user; no e-mail, no user
  unique,          \* whether the directory vouches for one user per e-mail
  announced        \* users whose registration was made known

Init ==
  /\ email = [u \in Users |-> None]
  /\ yandex = [u \in Users |-> None]
  /\ unique = TRUE
  /\ announced = {}

Taken(e) == \E u \in Users : email[u] = e

Enter(u, e) ==
  /\ email[u] = None
  /\ unique' => ~Taken(e)
  /\ email' = [email EXCEPT ![u] = e]
  /\ UNCHANGED announced

Register(u, e) == Enter(u, e) /\ UNCHANGED <<yandex, unique>>

(* Such an entry may end the directory's word on e-mails. *)
EnterWith(u, y, e) ==
  /\ <<y, e>> \in Profiles
  /\ unique' \in {unique, FALSE}
  /\ Enter(u, e)
  /\ yandex' = [yandex EXCEPT ![u] = y]

Link(u, y) ==
  /\ <<y, email[u]>> \in Profiles
  /\ yandex' = [yandex EXCEPT ![u] = y]
  /\ UNCHANGED <<email, unique, announced>>

Announce(u) ==
  /\ email[u] # None
  /\ announced' = announced \cup {u}
  /\ UNCHANGED <<email, yandex, unique>>

Doubt == unique' = FALSE /\ UNCHANGED <<email, yandex, announced>>

Vouch ==
  /\ unique' = TRUE
  /\ UNCHANGED <<email, yandex, announced>>
  /\ \A u, v \in Users : email[u] # None /\ email[u] = email[v] => u = v

Next ==
  \/ Doubt
  \/ Vouch
  \/ \E u \in Users, e \in Emails : Register(u, e)
  \/ \E u \in Users, y \in YandexIds, e \in Emails : EnterWith(u, y, e)
  \/ \E u \in Users, y \in YandexIds : Link(u, y)
  \/ \E u \in Users : Announce(u)

Spec == Init /\ [][Next]_<<email, yandex, unique, announced>>
=============================================================================
