-------------------- MODULE WelcomeNotificationsRefinement --------------------
(* WelcomeNotifications implements MailOutbox: the step-by-step proof. *)
EXTENDS WelcomeNotificationsProof

(* A consumer has at hand what was published, and whoever still owns a message with
   an event after a failure has failed to send it: an ack fails only on a channel
   that has lost the message. *)
HandledInv ==
  /\ \A c \in Consumers : msg[c] # None => msg[c] \in published
  /\ \A c \in Consumers :
       pc[c] \in {"failed", "requeue", "reject"} /\ Owns(c) /\ EventAt(c) # None =>
         failed[msg[c]] >= 1

AllInv == IInv /\ OwnInv /\ PlaceInv /\ HandledInv

LEMMA HandledInit == Init => HandledInv
  BY DEF Init, HandledInv

(* A bumped counter is positive, and the others stay so. *)
LEMMA BumpsUp ==
  ASSUME TypeOK, NEW m \in Messages, failed' = [failed EXCEPT ![m] = Bump(@, FailCap)]
  PROVE  failed'[m] >= 1 /\ \A n \in Messages : failed[n] >= 1 => failed'[n] >= 1
  BY Caps, BumpRange DEF TypeOK

(* What a step of one consumer must keep. *)
LEMMA HandledKept ==
  ASSUME TypeOK, HandInv, HandledInv, NEW c \in Consumers,
         published' = published,
         \A m \in Messages : failed[m] >= 1 => failed'[m] >= 1,
         \A d \in Consumers : d # c => pc'[d] = pc[d] /\ msg'[d] = msg[d] /\ unacked'[d] = unacked[d],
         msg'[c] # None => msg'[c] \in published,
         \/ pc'[c] \notin {"failed", "requeue", "reject"}
         \/ unacked'[c] = None
         \/ EventOf[msg'[c]] = None
         \/ failed'[msg'[c]] >= 1
  PROVE  HandledInv'
  <1>1. ASSUME NEW d \in Consumers, d # c,
               pc'[d] \in {"failed", "requeue", "reject"}, unacked'[d] # None, EventOf[msg'[d]] # None
        PROVE  failed'[msg'[d]] >= 1
    <2>1. msg[d] \in Messages
      BY <1>1 DEF TypeOK, HandInv
    <2>2. failed[msg[d]] >= 1
      BY <1>1 DEF HandledInv, Owns, EventAt
    <2> QED
      BY <1>1, <2>1, <2>2
  <1>2. ASSUME NEW d \in Consumers PROVE msg'[d] # None => msg'[d] \in published'
    BY <1>2 DEF HandledInv
  <1> QED
    BY <1>1, <1>2 DEF HandledInv, Owns, EventAt

(* Every step keeps it. *)
LEMMA HandledStep == AllInv /\ [Next]_vars => HandledInv'
  <1> SUFFICES ASSUME AllInv, [Next]_vars PROVE HandledInv'
    OBVIOUS
  <1>0. TypeOK /\ HandInv /\ HandledInv /\ OwnInv /\ PlaceInv
    BY DEF AllInv, IInv
  <1> USE <1>0
  <1>1. CASE UNCHANGED vars
    BY <1>1 DEF vars, broker, local, history, HandledInv, Owns, EventAt
  <1>2. ASSUME NEW m \in Messages, Publish(m) PROVE HandledInv'
    BY <1>2 DEF Publish, local, history, HandledInv, Owns, EventAt
  <1>3. ASSUME NEW c \in Consumers, NextAttempt(c) PROVE HandledInv'
    <2>1. /\ \A d \in Consumers : d # c => pc'[d] = pc[d] /\ msg'[d] = msg[d] /\ unacked'[d] = unacked[d]
          /\ UNCHANGED <<published, failed, msg>>
          /\ pc'[c] \notin {"failed", "requeue", "reject"}
      BY <1>3 DEF NextAttempt, Goto, TypeOK, broker, history
    <2> QED
      BY <2>1, HandledKept DEF HandledInv
  <1>4. ASSUME NEW c \in Consumers, CheckProcessed(c) PROVE HandledInv'
    <2>1. /\ \A d \in Consumers : d # c => pc'[d] = pc[d] /\ msg'[d] = msg[d] /\ unacked'[d] = unacked[d]
          /\ UNCHANGED <<published, failed, msg>>
          /\ pc'[c] \notin {"failed", "requeue", "reject"}
      BY <1>4 DEF CheckProcessed, Goto, TypeOK, broker, history
    <2> QED
      BY <2>1, HandledKept DEF HandledInv
  <1>5. ASSUME NEW c \in Consumers, SendAccepted(c) PROVE HandledInv'
    <2>1. /\ \A d \in Consumers : d # c => pc'[d] = pc[d] /\ msg'[d] = msg[d] /\ unacked'[d] = unacked[d]
          /\ UNCHANGED <<published, failed, msg>>
          /\ pc'[c] \notin {"failed", "requeue", "reject"}
      BY <1>5 DEF SendAccepted, Goto, TypeOK, broker, history
    <2> QED
      BY <2>1, HandledKept DEF HandledInv
  <1>6. ASSUME NEW c \in Consumers, MarkProcessed(c) PROVE HandledInv'
    <2>1. /\ \A d \in Consumers : d # c => pc'[d] = pc[d] /\ msg'[d] = msg[d] /\ unacked'[d] = unacked[d]
          /\ UNCHANGED <<published, failed, msg>>
          /\ pc'[c] \notin {"failed", "requeue", "reject"}
      BY <1>6 DEF MarkProcessed, Goto, TypeOK, broker, history
    <2> QED
      BY <2>1, HandledKept DEF HandledInv
  <1>7. ASSUME NEW c \in Consumers, DelAttempts(c) PROVE HandledInv'
    <2>1. /\ \A d \in Consumers : d # c => pc'[d] = pc[d] /\ msg'[d] = msg[d] /\ unacked'[d] = unacked[d]
          /\ UNCHANGED <<published, failed, msg>>
          /\ pc'[c] \notin {"failed", "requeue", "reject"}
      BY <1>7 DEF DelAttempts, Goto, TypeOK, broker, history
    <2> QED
      BY <2>1, HandledKept DEF HandledInv
  <1>8. ASSUME NEW c \in Consumers, SendFails(c) PROVE HandledInv'
    <2>1. /\ \A d \in Consumers : d # c => pc'[d] = pc[d] /\ msg'[d] = msg[d] /\ unacked'[d] = unacked[d]
          /\ UNCHANGED <<published, msg>>
      BY <1>8 DEF SendFails, Goto, TypeOK, broker
    <2>2. msg[c] \in Messages /\ failed' = [failed EXCEPT ![msg[c]] = Bump(@, FailCap)]
      BY <1>8 DEF SendFails, TypeOK
    <2> QED
      BY <2>1, <2>2, BumpsUp, HandledKept DEF HandledInv
  <1>9. ASSUME NEW c \in Consumers, SendAnswerLost(c) PROVE HandledInv'
    <2>1. /\ \A d \in Consumers : d # c => pc'[d] = pc[d] /\ msg'[d] = msg[d] /\ unacked'[d] = unacked[d]
          /\ UNCHANGED <<published, msg>>
      BY <1>9 DEF SendAnswerLost, Goto, TypeOK, broker
    <2>2. msg[c] \in Messages /\ failed' = [failed EXCEPT ![msg[c]] = Bump(@, FailCap)]
      BY <1>9 DEF SendAnswerLost, TypeOK
    <2> QED
      BY <2>1, <2>2, BumpsUp, HandledKept DEF HandledInv
  <1>10. ASSUME NEW c \in Consumers, HandleFailure(c) PROVE HandledInv'
    <2>1. /\ \A d \in Consumers : d # c => pc'[d] = pc[d] /\ msg'[d] = msg[d] /\ unacked'[d] = unacked[d]
          /\ UNCHANGED <<published, failed, msg, unacked>>
          /\ pc[c] = "failed"
      BY <1>10 DEF HandleFailure, Goto, TypeOK, broker, history
    <2>2. unacked'[c] = None \/ EventOf[msg'[c]] = None \/ failed'[msg'[c]] >= 1
      BY <2>1 DEF HandledInv, Owns, EventAt
    <2> QED
      BY <2>1, <2>2, HandledKept DEF HandledInv
  <1>11. ASSUME NEW c \in Consumers, AckDuplicate(c) PROVE HandledInv'
    <2>1. /\ \A d \in Consumers : d # c => pc'[d] = pc[d] /\ msg'[d] = msg[d] /\ unacked'[d] = unacked[d]
          /\ UNCHANGED <<published, failed>>
          /\ msg'[c] = None /\ pc'[c] \in {"waiting", "raised"}
      BY <1>11 DEF AckDuplicate, Settle, Forget, Goto, TypeOK, history
    <2> QED
      BY <2>1, HandledKept
  <1>12. ASSUME NEW c \in Consumers, Requeue(c) PROVE HandledInv'
    <2>1. /\ \A d \in Consumers : d # c => pc'[d] = pc[d] /\ msg'[d] = msg[d] /\ unacked'[d] = unacked[d]
          /\ UNCHANGED <<published, failed>>
          /\ msg'[c] = None /\ pc'[c] \in {"waiting", "raised"}
      BY <1>12 DEF Requeue, Settle, Forget, Goto, TypeOK, history
    <2> QED
      BY <2>1, HandledKept
  <1>13. ASSUME NEW c \in Consumers, Reject(c) PROVE HandledInv'
    <2>1. /\ \A d \in Consumers : d # c => pc'[d] = pc[d] /\ msg'[d] = msg[d] /\ unacked'[d] = unacked[d]
          /\ UNCHANGED <<published, failed>>
          /\ msg'[c] = None /\ pc'[c] \in {"waiting", "raised"}
      BY <1>13 DEF Reject, Settle, Forget, Goto, TypeOK, history
    <2> QED
      BY <2>1, HandledKept
  <1>14. ASSUME NEW c \in Consumers, Ack(c) PROVE HandledInv'
    <2>1. /\ \A d \in Consumers : d # c => pc'[d] = pc[d] /\ msg'[d] = msg[d] /\ unacked'[d] = unacked[d]
          /\ UNCHANGED <<published, failed>>
          /\ msg'[c] = None \/ msg'[c] = msg[c]
          /\ pc'[c] \in {"waiting", "raised"} \/ unacked'[c] = None
      BY <1>14 DEF Ack, Settle, Forget, Goto, Owns, TypeOK, history
    <2> QED
      BY <2>1, HandledKept DEF HandledInv
  <1>15. ASSUME NEW c \in Consumers, Raise(c) PROVE HandledInv'
    <2>1. /\ \A d \in Consumers : d # c => pc'[d] = pc[d] /\ msg'[d] = msg[d] /\ unacked'[d] = unacked[d]
          /\ UNCHANGED <<published, failed>>
          /\ msg'[c] = None /\ pc'[c] = "down"
      BY <1>15 DEF Raise, Redeliver, Forget, Goto, TypeOK, history
    <2> QED
      BY <2>1, HandledKept
  <1>16. ASSUME NEW c \in Consumers, Crash(c) PROVE HandledInv'
    <2>1. /\ \A d \in Consumers : d # c => pc'[d] = pc[d] /\ msg'[d] = msg[d] /\ unacked'[d] = unacked[d]
          /\ UNCHANGED <<published, failed>>
          /\ msg'[c] = None /\ pc'[c] = "down"
      BY <1>16 DEF Crash, Redeliver, Forget, Goto, TypeOK, history
    <2> QED
      BY <2>1, HandledKept
  <1>17. ASSUME NEW c \in Consumers, Connect(c) PROVE HandledInv'
    <2>1. /\ \A d \in Consumers : d # c => pc'[d] = pc[d] /\ msg'[d] = msg[d] /\ unacked'[d] = unacked[d]
          /\ UNCHANGED <<published, failed, msg>>
          /\ pc'[c] \in {"waiting", "down"}
      BY <1>17 DEF Connect, Goto, TypeOK, broker, history
    <2> QED
      BY <2>1, HandledKept DEF HandledInv
  <1>18. ASSUME NEW c \in Consumers, Stop(c) PROVE HandledInv'
    <2>1. /\ \A d \in Consumers : d # c => pc'[d] = pc[d] /\ msg'[d] = msg[d] /\ unacked'[d] = unacked[d]
          /\ UNCHANGED <<published, failed, msg>>
          /\ pc'[c] \in {"waiting", "down"}
      BY <1>18 DEF Stop, Goto, TypeOK, broker, history
    <2> QED
      BY <2>1, HandledKept DEF HandledInv
  <1>19. ASSUME NEW c \in Consumers, ConnectFails(c) PROVE HandledInv'
    BY <1>19 DEF ConnectFails, broker, history, HandledInv, Owns, EventAt
  <1>20. ASSUME NEW c \in Consumers, Poll(c) PROVE HandledInv'
    BY <1>20, <1>1 DEF Poll
  <1>21. ASSUME NEW c \in Consumers, NEW m \in Messages, Deliver(c, m) PROVE HandledInv'
    <2>1. /\ \A d \in Consumers : d # c => pc'[d] = pc[d] /\ msg'[d] = msg[d] /\ unacked'[d] = unacked[d]
          /\ UNCHANGED <<published, failed>>
          /\ msg'[c] = m /\ m \in published
          /\ pc'[c] \notin {"failed", "requeue", "reject"} \/ EventOf[m] = None
      BY <1>21, NothingAssumption DEF Deliver, Goto, TypeOK, PlaceInv, history
    <2> QED
      BY <2>1, HandledKept
  <1>22. ASSUME NEW c \in Consumers, ConnectionLost(c) PROVE HandledInv'
    <2>1. /\ \A d \in Consumers : d # c => pc'[d] = pc[d] /\ msg'[d] = msg[d] /\ unacked'[d] = unacked[d]
          /\ UNCHANGED <<published, failed, msg>>
          /\ unacked'[c] = None \/ pc'[c] = "raised"
      BY <1>22 DEF ConnectionLost, Redeliver, Goto, TypeOK, history
    <2> QED
      BY <2>1, HandledKept DEF HandledInv
  <1>23. CASE RedisFails
    BY <1>23 DEF RedisFails, broker, local, history, HandledInv, Owns, EventAt
  <1>24. CASE RedisRecovers
    BY <1>24 DEF RedisRecovers, broker, local, history, HandledInv, Owns, EventAt
  <1>25. ASSUME NEW e \in Events, MarkExpires(e) PROVE HandledInv'
    BY <1>25 DEF MarkExpires, broker, local, HandledInv, Owns, EventAt
  <1>26. ASSUME NEW e \in Events, AttemptsExpire(e) PROVE HandledInv'
    BY <1>26 DEF AttemptsExpire, broker, local, history, HandledInv, Owns, EventAt
  <1> QED
    BY <1>1, <1>2, <1>3, <1>4, <1>5, <1>6, <1>7, <1>8, <1>9, <1>10, <1>11, <1>12, <1>13, <1>14, <1>15, <1>16, <1>17, <1>18, <1>19, <1>20, <1>21, <1>22, <1>23, <1>24, <1>25, <1>26
    DEF Next, ConsumerStep, Handle, Supervise

(* A step that settles nothing, publishes nothing and sends nothing is a stutter of
   the outbox. *)
LEMMA Stutter ==
  ASSUME UNCHANGED <<published, acked, dead, mailed, failed>>
  PROVE  UNCHANGED <<Place, mailed, Troubled>>
  <1>1. Place' = Place
    BY DEF Place
  <1>2. Troubled' = Troubled
    BY DEF Troubled
  <1> QED
    BY <1>1, <1>2

LEMMA OutboxInit == Init => Outbox!Init
  BY DEF Init, Outbox!Init, Place, Troubled

LEMMA OutboxPublish ==
  ASSUME AllInv, NEW m \in Messages, Publish(m)
  PROVE  Outbox!Publish(m)
  <1>1. /\ m \notin published /\ published' = published \cup {m}
        /\ UNCHANGED <<acked, dead, mailed, failed>>
    BY DEF Publish, history
  <1>2. m \notin acked /\ m \notin dead
    BY <1>1 DEF AllInv, PlaceInv
  <1>3. Place[m] = "unpublished" /\ Place' = [Place EXCEPT ![m] = "pending"]
    BY <1>1, <1>2 DEF Place
  <1>4. mailed' = mailed /\ Troubled' = Troubled
    BY <1>1 DEF Troubled
  <1> QED
    BY <1>3, <1>4 DEF Outbox!Publish

(* The message at hand of a consumer that sends was published and has an event. *)
LEMMA AtHand ==
  ASSUME AllInv, NEW c \in Consumers, pc[c] = "send"
  PROVE  msg[c] \in Messages /\ EventOf[msg[c]] \in Events /\ Place[msg[c]] # "unpublished"
  <1>1. msg[c] \in Messages /\ EventOf[msg[c]] \in Events
    BY DEF AllInv, IInv, TypeOK, EventAt
  <1>2. msg[c] \in published
    BY <1>1, NothingAssumption DEF AllInv, HandledInv
  <1> QED
    BY <1>1, <1>2 DEF Place

(* What a failed send leaves behind for its message. *)
LEMMA FailedSends ==
  ASSUME TypeOK, NEW m \in Messages, failed' = [failed EXCEPT ![m] = Bump(@, FailCap)]
  PROVE  Troubled' = Troubled \cup {m}
  <1>1. /\ failed'[m] >= 1
        /\ \A n \in Messages : n # m => failed'[n] = failed[n]
    BY Caps, BumpRange DEF TypeOK
  <1> QED
    BY <1>1 DEF Troubled

LEMMA OutboxMail ==
  ASSUME AllInv, NEW c \in Consumers, SendAccepted(c) \/ SendAnswerLost(c)
  PROVE  Outbox!Mail(msg[c])
  <1> DEFINE m == msg[c]
  <1>0. TypeOK /\ pc[c] = "send"
    BY DEF AllInv, IInv, SendAccepted, SendAnswerLost
  <1>1. m \in Messages /\ EventOf[m] \in Events /\ Place[m] # "unpublished"
    BY <1>0, AtHand
  <1>2. UNCHANGED <<published, acked, dead>>
    BY DEF SendAccepted, SendAnswerLost, broker
  <1>3. mailed' = mailed \cup {EventOf[m]}
    BY DEF SendAccepted, SendAnswerLost, Mailing, EventAt
  <1>4. Troubled' = Troubled \/ Troubled' = Troubled \cup {m}
    <2>1. CASE SendAccepted(c)
      BY <2>1 DEF SendAccepted, Troubled
    <2>2. CASE SendAnswerLost(c)
      BY <2>2, <1>0, <1>1, FailedSends DEF SendAnswerLost
    <2> QED
      BY <2>1, <2>2
  <1>5. Place' = Place
    BY <1>2 DEF Place
  <1> QED
    BY <1>1, <1>3, <1>4, <1>5 DEF Outbox!Mail

LEMMA OutboxFail ==
  ASSUME AllInv, NEW c \in Consumers, SendFails(c)
  PROVE  Outbox!Fail(msg[c])
  <1> DEFINE m == msg[c]
  <1>0. TypeOK /\ pc[c] = "send"
    BY DEF AllInv, IInv, SendFails
  <1>1. m \in Messages /\ EventOf[m] \in Events /\ Place[m] # "unpublished"
    BY <1>0, AtHand
  <1>2. UNCHANGED <<published, acked, dead, mailed>>
    BY DEF SendFails, broker
  <1>3. Troubled' = Troubled \cup {m}
    BY <1>0, <1>1, FailedSends DEF SendFails
  <1>4. Place' = Place /\ mailed' = mailed
    BY <1>2 DEF Place
  <1> QED
    BY <1>1, <1>3, <1>4 DEF Outbox!Fail

(* A message that its channel still owns is pending. *)
LEMMA OwnedIsPending ==
  ASSUME AllInv, NEW c \in Consumers, Owns(c)
  PROVE  /\ msg[c] = unacked[c] /\ msg[c] \in Messages
         /\ msg[c] \in published /\ msg[c] \notin acked /\ msg[c] \notin dead
         /\ Place[msg[c]] = "pending"
  <1>1. /\ msg[c] = unacked[c] /\ msg[c] \in published
        /\ msg[c] \notin acked /\ msg[c] \notin dead
    BY DEF AllInv, OwnInv, PlaceInv
  <1>2. msg[c] \in Messages
    BY <1>1 DEF AllInv, IInv, TypeOK
  <1> QED
    BY <1>1, <1>2 DEF Place

(* Whoever acknowledges has seen the mail of the event off, or its mark. *)
LEMMA OutboxDeliver ==
  ASSUME AllInv, NEW c \in Consumers, Owns(c), AckDuplicate(c) \/ Ack(c)
  PROVE  Outbox!Deliver(msg[c])
  <1> DEFINE m == msg[c]
  <1>1. /\ pc[c] \in {"ackDuplicate", "ack"}
        /\ acked' = acked \cup {m}
        /\ UNCHANGED <<published, dead, mailed, failed>>
    BY DEF AckDuplicate, Ack, Settle, history
  <1>2. m \in Messages /\ Place[m] = "pending"
    BY OwnedIsPending
  <1>3. EventOf[m] \in mailed
    BY <1>1 DEF AllInv, IInv, MailedInv, EventAt
  <1>4. Place' = [Place EXCEPT ![m] = "delivered"]
    BY <1>1, <1>2 DEF Place
  <1>5. mailed' = mailed /\ Troubled' = Troubled
    BY <1>1 DEF Troubled
  <1> QED
    BY <1>2, <1>3, <1>4, <1>5 DEF Outbox!Deliver

(* Whoever rejects a message that is still its own has failed to send it, unless there
   was nothing to send. *)
LEMMA OutboxBury ==
  ASSUME AllInv, NEW c \in Consumers, Owns(c), Reject(c)
  PROVE  Outbox!Bury(msg[c])
  <1> DEFINE m == msg[c]
  <1>1. /\ pc[c] = "reject" /\ dead' = dead \cup {m}
        /\ UNCHANGED <<published, acked, mailed, failed>>
    BY DEF Reject, Settle, history
  <1>2. m \in Messages /\ Place[m] = "pending" /\ m \notin acked /\ m \notin dead
    BY OwnedIsPending
  <1>3. EventOf[m] = None \/ m \in Troubled
    BY <1>1, <1>2 DEF AllInv, HandledInv, EventAt, Troubled
  <1>4. Place' = [Place EXCEPT ![m] = "dead"]
    BY <1>1, <1>2 DEF Place
  <1>5. mailed' = mailed /\ Troubled' = Troubled
    BY <1>1 DEF Troubled
  <1> QED
    BY <1>2, <1>3, <1>4, <1>5 DEF Outbox!Bury

(* Every step of the pipeline is a step of the outbox or leaves it as it is. *)
LEMMA OutboxStep == AllInv /\ [Next]_vars => Outbox!Next \/ UNCHANGED <<Place, mailed, Troubled>>
  <1> SUFFICES ASSUME AllInv, [Next]_vars PROVE Outbox!Next \/ UNCHANGED <<Place, mailed, Troubled>>
    OBVIOUS
  <1>0. \A c \in Consumers : Owns(c) => msg[c] \in Messages
    BY OwnedIsPending
  <1>1. CASE UNCHANGED vars
    BY <1>1, Stutter DEF vars, broker, history
  <1>2. ASSUME NEW m \in Messages, Publish(m) PROVE Outbox!Next \/ UNCHANGED <<Place, mailed, Troubled>>
    BY <1>2, OutboxPublish DEF Outbox!Next
  <1>3. ASSUME NEW c \in Consumers, SendAccepted(c) \/ SendAnswerLost(c) PROVE Outbox!Next \/ UNCHANGED <<Place, mailed, Troubled>>
    BY <1>3, OutboxMail, AtHand DEF Outbox!Next, SendAccepted, SendAnswerLost
  <1>4. ASSUME NEW c \in Consumers, SendFails(c) PROVE Outbox!Next \/ UNCHANGED <<Place, mailed, Troubled>>
    BY <1>4, OutboxFail, AtHand DEF Outbox!Next, SendFails
  <1>5. ASSUME NEW c \in Consumers, AckDuplicate(c) \/ Ack(c) PROVE Outbox!Next \/ UNCHANGED <<Place, mailed, Troubled>>
    <2>1. CASE Owns(c)
      BY <1>5, <2>1, <1>0, OutboxDeliver DEF Outbox!Next
    <2>2. CASE ~Owns(c)
      BY <1>5, <2>2, Stutter DEF AckDuplicate, Ack, Settle, history
    <2> QED
      BY <2>1, <2>2
  <1>6. ASSUME NEW c \in Consumers, Reject(c) PROVE Outbox!Next \/ UNCHANGED <<Place, mailed, Troubled>>
    <2>1. CASE Owns(c)
      BY <1>6, <2>1, <1>0, OutboxBury DEF Outbox!Next
    <2>2. CASE ~Owns(c)
      BY <1>6, <2>2, Stutter DEF Reject, Settle, history
    <2> QED
      BY <2>1, <2>2
  <1>7. ASSUME NEW c \in Consumers, NextAttempt(c) PROVE Outbox!Next \/ UNCHANGED <<Place, mailed, Troubled>>
    BY <1>7, Stutter DEF NextAttempt, broker, history
  <1>8. ASSUME NEW c \in Consumers, CheckProcessed(c) PROVE Outbox!Next \/ UNCHANGED <<Place, mailed, Troubled>>
    BY <1>8, Stutter DEF CheckProcessed, broker, history
  <1>9. ASSUME NEW c \in Consumers, MarkProcessed(c) PROVE Outbox!Next \/ UNCHANGED <<Place, mailed, Troubled>>
    BY <1>9, Stutter DEF MarkProcessed, broker, history
  <1>10. ASSUME NEW c \in Consumers, DelAttempts(c) PROVE Outbox!Next \/ UNCHANGED <<Place, mailed, Troubled>>
    BY <1>10, Stutter DEF DelAttempts, broker, history
  <1>11. ASSUME NEW c \in Consumers, HandleFailure(c) PROVE Outbox!Next \/ UNCHANGED <<Place, mailed, Troubled>>
    BY <1>11, Stutter DEF HandleFailure, broker, history
  <1>12. ASSUME NEW c \in Consumers, Requeue(c) PROVE Outbox!Next \/ UNCHANGED <<Place, mailed, Troubled>>
    BY <1>12, Stutter DEF Requeue, Settle, broker, history
  <1>13. ASSUME NEW c \in Consumers, Raise(c) PROVE Outbox!Next \/ UNCHANGED <<Place, mailed, Troubled>>
    BY <1>13, Stutter DEF Raise, broker, history
  <1>14. ASSUME NEW c \in Consumers, Connect(c) PROVE Outbox!Next \/ UNCHANGED <<Place, mailed, Troubled>>
    BY <1>14, Stutter DEF Connect, broker, history
  <1>15. ASSUME NEW c \in Consumers, ConnectFails(c) PROVE Outbox!Next \/ UNCHANGED <<Place, mailed, Troubled>>
    BY <1>15, Stutter DEF ConnectFails, broker, history
  <1>16. ASSUME NEW c \in Consumers, ConnectionLost(c) PROVE Outbox!Next \/ UNCHANGED <<Place, mailed, Troubled>>
    BY <1>16, Stutter DEF ConnectionLost, broker, history
  <1>17. ASSUME NEW c \in Consumers, Stop(c) PROVE Outbox!Next \/ UNCHANGED <<Place, mailed, Troubled>>
    BY <1>17, Stutter DEF Stop, broker, history
  <1>18. ASSUME NEW c \in Consumers, Crash(c) PROVE Outbox!Next \/ UNCHANGED <<Place, mailed, Troubled>>
    BY <1>18, Stutter DEF Crash, broker, history
  <1>19. ASSUME NEW c \in Consumers, Poll(c) PROVE Outbox!Next \/ UNCHANGED <<Place, mailed, Troubled>>
    BY <1>19, <1>1 DEF Poll
  <1>20. ASSUME NEW c \in Consumers, NEW m \in Messages, Deliver(c, m) PROVE Outbox!Next \/ UNCHANGED <<Place, mailed, Troubled>>
    BY <1>20, Stutter DEF Deliver, history
  <1>21. CASE RedisFails
    BY <1>21, Stutter DEF RedisFails, broker, history
  <1>22. CASE RedisRecovers
    BY <1>22, Stutter DEF RedisRecovers, broker, history
  <1>23. ASSUME NEW e \in Events, MarkExpires(e) PROVE Outbox!Next \/ UNCHANGED <<Place, mailed, Troubled>>
    BY <1>23, Stutter DEF MarkExpires, broker
  <1>24. ASSUME NEW e \in Events, AttemptsExpire(e) PROVE Outbox!Next \/ UNCHANGED <<Place, mailed, Troubled>>
    BY <1>24, Stutter DEF AttemptsExpire, broker, history
  <1> QED
    BY <1>1, <1>2, <1>3, <1>4, <1>5, <1>6, <1>7, <1>8, <1>9, <1>10, <1>11, <1>12, <1>13, <1>14, <1>15, <1>16, <1>17, <1>18, <1>19, <1>20, <1>21, <1>22, <1>23, <1>24
    DEF Next, ConsumerStep, Handle, Supervise

LEMMA AllInvariance == Spec => []AllInv
  <1>1. Init => AllInv
    BY InitInv, PlaceInit, HandledInit DEF AllInv
  <1>2. AllInv /\ [Next]_vars => AllInv'
    BY TypeStep, MailedStep, PlaceStep, HandledStep DEF AllInv, IInv
  <1> QED
    BY <1>1, <1>2, PTL DEF Spec

(* The pipeline implements the outbox for any number of pods, messages, copies and
   retries and under all faults: no message is settled twice, delivered unmailed or
   dead-lettered without a failed send of its own, however the attempts were counted
   (consumer.py:60-127, rabbitmq.py:149-164). *)
THEOREM PipelineImplementsOutbox == Spec => ImplementsOutbox
  <1>1. AllInv /\ [Next]_vars => [Outbox!Next]_<<Place, mailed, Troubled>>
    BY OutboxStep
  <1> QED
    BY <1>1, OutboxInit, AllInvariance, PTL DEF Spec, ImplementsOutbox, Outbox!Spec
=============================================================================
