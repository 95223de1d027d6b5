----------------------------- MODULE MailOutbox -----------------------------
(***************************************************************************)
(* What the user.registered pipeline promises whoever publishes to it,     *)
(* without pods, channels, Redis keys or attempts: a message is settled    *)
(* once and for good; it is delivered only after the mail of its event was *)
(* sent, and dead-lettered only if it carries no event or one of its own   *)
(* sends has failed.  A mail may be sent again, even after its message was *)
(* settled.  WelcomeNotifications implements this specification.           *)
(***************************************************************************)
CONSTANTS Messages, Events, EventOf, None

VARIABLES
  place,     \* where a message is: "unpublished", "pending", "delivered" or "dead"
  mailed,    \* events whose mail was sent
  troubled   \* messages with a failed send

Init ==
  /\ place = [m \in Messages |-> "unpublished"]
  /\ mailed = {}
  /\ troubled = {}

Publish(m) ==
  /\ place[m] = "unpublished"
  /\ place' = [place EXCEPT ![m] = "pending"]
  /\ UNCHANGED <<mailed, troubled>>

(* The mail of the event of m is sent; the sender may see an error all the same. *)
Mail(m) ==
  /\ place[m] # "unpublished"
  /\ EventOf[m] \in Events
  /\ mailed' = mailed \cup {EventOf[m]}
  /\ troubled' \in {troubled, troubled \cup {m}}
  /\ UNCHANGED place

Fail(m) ==
  /\ place[m] # "unpublished"
  /\ EventOf[m] \in Events
  /\ troubled' = troubled \cup {m}
  /\ UNCHANGED <<place, mailed>>

Deliver(m) ==
  /\ place[m] = "pending"
  /\ EventOf[m] \in mailed
  /\ place' = [place EXCEPT ![m] = "delivered"]
  /\ UNCHANGED <<mailed, troubled>>

Bury(m) ==
  /\ place[m] = "pending"
  /\ EventOf[m] = None \/ m \in troubled
  /\ place' = [place EXCEPT ![m] = "dead"]
  /\ UNCHANGED <<mailed, troubled>>

Next == \E m \in Messages : Publish(m) \/ Mail(m) \/ Fail(m) \/ Deliver(m) \/ Bury(m)

Spec == Init /\ [][Next]_<<place, mailed, troubled>>
=============================================================================
