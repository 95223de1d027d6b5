---------------------- MODULE WelcomeNotificationsProof ----------------------
(* No welcome mail is lost: proofs about WelcomeNotifications. *)
EXTENDS WelcomeNotifications, FiniteSetTheorems, TLAPS

(* An event marked as processed was mailed, and so was the event of a consumer
   that is past its send on the way to the ack. *)
MailedInv ==
  /\ AckedMeansMailed
  /\ \A e \in processed : e \in mailed
  /\ \A c \in Consumers :
       pc[c] \in {"ackDuplicate", "mark", "delAttempts", "ack"} => EventAt(c) \in mailed

(* A consumer that rejects has a message to reject. *)
HandInv ==
  \A c \in Consumers : pc[c] = "reject" => msg[c] \in Messages

IInv == TypeOK /\ HandInv /\ MailedInv

(* The caps of the counters are positive, and bumping keeps a counter in range. *)
LEMMA Caps == MailCap \in Nat /\ MailCap >= 1 /\ FailCap \in Nat /\ FailCap >= 1
  <1>1. Cardinality(Consumers) \in Nat
    BY MessagesAssumption, FS_CardinalityType
  <1> QED
    BY <1>1, RetriesAssumption DEF MailCap, FailCap

LEMMA BumpRange ==
  \A cap \in Nat : \A n \in 0..cap :
    Bump(n, cap) \in 0..cap /\ Bump(n, cap) >= n /\ (cap >= 1 => Bump(n, cap) >= 1)
  BY DEF Bump

LEMMA Zeros ==
  /\ 0 \in 0..MaxRetries /\ 1 \in 0..MaxRetries
  /\ [e \in Events |-> 0] \in [Events -> 0..MaxRetries]
  /\ [c \in Consumers |-> 0] \in [Consumers -> 0..MaxRetries]
  /\ 0 \in 0..(MaxFailures - 1)
  /\ [c \in Consumers |-> 0] \in [Consumers -> 0..(MaxFailures - 1)]
  /\ [e \in Events |-> 0] \in [Events -> 0..MailCap]
  /\ [m \in Messages |-> 0] \in [Messages -> 0..FailCap]
  <1>1. /\ 0 \in 0..MaxRetries /\ 1 \in 0..MaxRetries /\ 0 \in 0..(MaxFailures - 1)
        /\ 0 \in 0..MailCap /\ 0 \in 0..FailCap
    BY Caps, RetriesAssumption
  <1> QED
    BY <1>1

(* The count of failures of a consumer stays below the one that ends the process. *)
LEMMA CountRange ==
  ASSUME TypeOK, NEW c \in Consumers, CountFailure(c)
  PROVE  failures' \in [Consumers -> 0..(MaxFailures - 1)]
  <1> DEFINE counts == 0..(MaxFailures - 1)
             next == IF failures[c] + 1 >= MaxFailures THEN 0 ELSE failures[c] + 1
  <1>1. failures \in [Consumers -> counts]
    BY DEF TypeOK
  <1>2. failures[c] \in counts
    BY <1>1
  <1>3. next \in counts
    BY <1>2, RetriesAssumption
  <1>4. failures' = [failures EXCEPT ![c] = next]
    BY DEF CountFailure
  <1>5. failures' \in [Consumers -> counts]
    <2> HIDE DEF counts, next
    <2> QED
      BY <1>1, <1>3, <1>4
  <1> QED
    BY <1>5

LEMMA InitInv == Init => IInv
  BY Zeros, NothingAssumption, RetriesAssumption
  DEF Init, IInv, TypeOK, Labels, HandInv, MailedInv, AckedMeansMailed

(* Every step of a consumer, the broker or the environment keeps the types. *)
LEMMA TypeStep == IInv /\ [Next]_vars => TypeOK'
  <1> SUFFICES ASSUME IInv, [Next]_vars PROVE TypeOK'
    OBVIOUS
  <1> USE Caps, BumpRange, RetriesAssumption, EventOfAssumption, NothingAssumption
      DEF IInv, TypeOK, HandInv, Labels, EventAt, broker, redis, local, history
  <1>1. CASE UNCHANGED vars
    BY <1>1 DEF vars
  <1>2. ASSUME NEW m \in Messages, Publish(m) PROVE TypeOK'
    BY <1>2 DEF Publish
  <1>3. ASSUME NEW c \in Consumers, NextAttempt(c) PROVE TypeOK'
    <2>1. EventAt(c) \in Events
      BY <1>3 DEF NextAttempt
    <2>2. Bump(attempts[EventAt(c)], MaxRetries) \in 0..MaxRetries
      BY <2>1, BumpRange
    <2>3. attempts' \in [Events -> 0..MaxRetries] /\ attempt' \in [Consumers -> 0..MaxRetries]
      <3> DEFINE next == Bump(attempts[EventAt(c)], MaxRetries)
      <3>1. attempts' = attempts \/ attempts' = [attempts EXCEPT ![EventAt(c)] = next]
        BY <1>3 DEF NextAttempt
      <3>2. attempt' = [attempt EXCEPT ![c] = 1] \/ attempt' = [attempt EXCEPT ![c] = next]
        BY <1>3 DEF NextAttempt
      <3> DEFINE R == 0..MaxRetries
      <3>3. next \in R /\ 1 \in R /\ attempts \in [Events -> R] /\ attempt \in [Consumers -> R]
        BY <2>2, Zeros
      <3>4. attempts' \in [Events -> R] /\ attempt' \in [Consumers -> R]
        <4> HIDE DEF next, R
        <4>1. attempts' \in [Events -> R]
          BY ONLY <3>1, <3>3, <2>1
        <4>2. attempt' \in [Consumers -> R]
          BY ONLY <3>2, <3>3
        <4> QED BY <4>1, <4>2
      <3> QED
        BY <3>4
    <2>4. mails' \in [Events -> 0..MailCap] /\ disturbed' \in BOOLEAN
      BY <1>3, Zeros DEF NextAttempt, Disturb
    <2> QED
      BY <1>3, <2>1, <2>3, <2>4 DEF NextAttempt, Goto
  <1>4. ASSUME NEW c \in Consumers, CheckProcessed(c) PROVE TypeOK'
    BY <1>4 DEF CheckProcessed, Goto
  <1>5. ASSUME NEW c \in Consumers, AckDuplicate(c) PROVE TypeOK'
    <2> USE <1>5 DEF AckDuplicate, Settle, Forget, Goto
    <2>1. CASE Owns(c)
      <3>1. /\ acked' = acked \cup {msg[c]} /\ msg[c] \in Messages
            /\ unacked' = [unacked EXCEPT ![c] = None]
            /\ msg' = [msg EXCEPT ![c] = None] /\ attempt' = [attempt EXCEPT ![c] = 0]
            /\ pc' = [pc EXCEPT ![c] = "waiting"]
        BY <2>1
      <3>2. UNCHANGED <<published, ready, dead, redis, failures, history>>
        BY <2>1
      <3> QED
        BY <3>1, <3>2, Zeros
    <2>2. CASE ~Owns(c)
      <3>1. /\ pc' = [pc EXCEPT ![c] = "raised"]
            /\ msg' = [msg EXCEPT ![c] = None] /\ attempt' = [attempt EXCEPT ![c] = 0]
        BY <2>2
      <3>2. UNCHANGED <<published, broker, redis, failures, history>>
        BY <2>2
      <3> QED
        BY <3>1, <3>2, Zeros
    <2> QED
      BY <2>1, <2>2
  <1>6. ASSUME NEW c \in Consumers, SendAccepted(c) PROVE TypeOK'
    BY <1>6 DEF SendAccepted, Mailing, Goto
  <1>7. ASSUME NEW c \in Consumers, SendFails(c) PROVE TypeOK'
    BY <1>7 DEF SendFails, Goto
  <1>8. ASSUME NEW c \in Consumers, SendAnswerLost(c) PROVE TypeOK'
    BY <1>8, Zeros DEF SendAnswerLost, Mailing, Disturb, Goto
  <1>9. ASSUME NEW c \in Consumers, MarkProcessed(c) PROVE TypeOK'
    BY <1>9 DEF MarkProcessed, Goto
  <1>10. ASSUME NEW c \in Consumers, DelAttempts(c) PROVE TypeOK'
    BY <1>10, Zeros DEF DelAttempts, ForgetAttempts, Goto
  <1>11. ASSUME NEW c \in Consumers, Ack(c) PROVE TypeOK'
    <2> USE <1>11 DEF Ack, Settle, Forget, Goto
    <2>1. CASE Owns(c)
      <3>1. /\ acked' = acked \cup {msg[c]} /\ msg[c] \in Messages
            /\ unacked' = [unacked EXCEPT ![c] = None]
            /\ msg' = [msg EXCEPT ![c] = None] /\ attempt' = [attempt EXCEPT ![c] = 0]
            /\ pc' = [pc EXCEPT ![c] = "waiting"]
        BY <2>1
      <3>2. UNCHANGED <<published, ready, dead, redis, failures, history>>
        BY <2>1
      <3> QED
        BY <3>1, <3>2, Zeros
    <2>2. CASE ~Owns(c)
      <3>1. /\ \/ /\ pc' = [pc EXCEPT ![c] = "raised"]
               /\ msg' = [msg EXCEPT ![c] = None] /\ attempt' = [attempt EXCEPT ![c] = 0]
            \/ /\ pc' = [pc EXCEPT ![c] = "failed"]
               /\ UNCHANGED <<msg, attempt>>
        BY <2>2
      <3>2. pc[c] = "ack" /\ UNCHANGED <<published, broker, redis, failures, history>>
        BY <2>2
      <3>3. /\ pc' \in [Consumers -> Labels] /\ msg' \in [Consumers -> Messages \cup {None}]
            /\ attempt' \in [Consumers -> 0..MaxRetries]
        BY <3>1, Zeros
      <3>4. \A d \in Consumers : pc'[d] # "raised" =>
              msg'[d] = msg[d] /\ (pc'[d] = pc[d] \/ (pc'[d] = "failed" /\ pc[d] = "ack"))
        BY <3>1, <3>2
      <3> QED
        BY <3>2, <3>3, <3>4
    <2> QED
      BY <2>1, <2>2
  <1>12. ASSUME NEW c \in Consumers, HandleFailure(c) PROVE TypeOK'
    BY <1>12, Zeros DEF HandleFailure, ForgetAttempts, Goto
  <1>13. ASSUME NEW c \in Consumers, Requeue(c) PROVE TypeOK'
    <2> USE <1>13 DEF Requeue, Settle, Forget, Goto
    <2>1. CASE Owns(c)
      <3>1. /\ ready' = ready \cup {msg[c]} /\ msg[c] \in Messages
            /\ unacked' = [unacked EXCEPT ![c] = None]
            /\ msg' = [msg EXCEPT ![c] = None] /\ attempt' = [attempt EXCEPT ![c] = 0]
            /\ pc' = [pc EXCEPT ![c] = "waiting"]
        BY <2>1
      <3>2. UNCHANGED <<published, acked, dead, redis, failures, history>>
        BY <2>1
      <3> QED
        BY <3>1, <3>2, Zeros
    <2>2. CASE ~Owns(c)
      <3>1. /\ pc' = [pc EXCEPT ![c] = "raised"]
            /\ msg' = [msg EXCEPT ![c] = None] /\ attempt' = [attempt EXCEPT ![c] = 0]
        BY <2>2
      <3>2. UNCHANGED <<published, broker, redis, failures, history>>
        BY <2>2
      <3> QED
        BY <3>1, <3>2, Zeros
    <2> QED
      BY <2>1, <2>2
  <1>14. ASSUME NEW c \in Consumers, Reject(c) PROVE TypeOK'
    <2> USE <1>14 DEF Reject, Settle, Forget, Goto
    <2>1. CASE Owns(c)
      <3>1. /\ dead' = dead \cup {msg[c]} /\ msg[c] \in Messages
            /\ unacked' = [unacked EXCEPT ![c] = None]
            /\ msg' = [msg EXCEPT ![c] = None] /\ attempt' = [attempt EXCEPT ![c] = 0]
            /\ pc' = [pc EXCEPT ![c] = "waiting"]
        BY <2>1
      <3>2. UNCHANGED <<published, ready, acked, redis, failures, history>>
        BY <2>1
      <3> QED
        BY <3>1, <3>2, Zeros
    <2>2. CASE ~Owns(c)
      <3>1. /\ pc' = [pc EXCEPT ![c] = "raised"]
            /\ msg' = [msg EXCEPT ![c] = None] /\ attempt' = [attempt EXCEPT ![c] = 0]
        BY <2>2
      <3>2. UNCHANGED <<published, broker, redis, failures, history>>
        BY <2>2
      <3> QED
        BY <3>1, <3>2, Zeros
    <2> QED
      BY <2>1, <2>2
  <1>15. ASSUME NEW c \in Consumers, Connect(c) PROVE TypeOK'
    BY <1>15 DEF Connect, Goto
  <1>16. ASSUME NEW c \in Consumers, Poll(c) PROVE TypeOK'
    BY <1>16 DEF Poll, vars
  <1>17. ASSUME NEW c \in Consumers, NEW m \in Messages, Deliver(c, m) PROVE TypeOK'
    <2>1. /\ ready' \subseteq ready /\ unacked' = [unacked EXCEPT ![c] = m]
          /\ msg' = [msg EXCEPT ![c] = m]
          /\ UNCHANGED <<published, acked, dead, redis, attempt, failures, history>>
      BY <1>17 DEF Deliver
    <2>2. PICK label \in {"attempt", "reject", "raised"} :
            pc' = [pc EXCEPT ![c] = label] /\ (label = "attempt" => EventOf[m] \in Events)
      BY <1>17 DEF Deliver, Goto
    <2>3. unacked' \in [Consumers -> Messages \cup {None}] /\ msg' \in [Consumers -> Messages \cup {None}]
      BY <2>1
    <2>4. pc' \in [Consumers -> Labels] /\ pc'[c] = label /\ msg'[c] = m
      BY <2>1, <2>2
    <2>5. \A d \in Consumers : d # c => pc'[d] = pc[d] /\ msg'[d] = msg[d]
      BY <2>1, <2>2
    <2> QED
      BY <2>1, <2>2, <2>3, <2>4, <2>5
  <1>18. ASSUME NEW c \in Consumers, ConnectionLost(c) PROVE TypeOK'
    <2>1. ready' \subseteq Messages /\ unacked' \in [Consumers -> Messages \cup {None}]
      <3>1. unacked' = unacked \/ unacked' = [unacked EXCEPT ![c] = None]
        BY <1>18 DEF ConnectionLost, Redeliver
      <3>2. ready' = ready \/ ready' = ready \cup ({unacked[c]} \ {None})
        BY <1>18 DEF ConnectionLost, Redeliver
      <3>3. unacked[c] \in Messages \cup {None}
        OBVIOUS
      <3> QED
        BY <3>1, <3>2, <3>3
    <2>2. pc' = pc \/ pc' = [pc EXCEPT ![c] = "raised"]
      BY <1>18 DEF ConnectionLost, Goto
    <2>3. UNCHANGED <<published, acked, dead, redis, msg, attempt, failures, history>>
      BY <1>18 DEF ConnectionLost
    <2>4. /\ pc' \in [Consumers -> Labels]
          /\ \A d \in Consumers : pc'[d] = pc[d] \/ pc'[d] = "raised"
      BY <2>2
    <2> QED
      BY <2>1, <2>3, <2>4
  <1>19. ASSUME NEW c \in Consumers, Crash(c) PROVE TypeOK'
    BY <1>19, Zeros DEF Crash, Disturb, Redeliver, Forget, Goto
  <1>20. ASSUME RedisFails PROVE TypeOK'
    BY <1>20, Zeros DEF RedisFails, Disturb
  <1>21. ASSUME RedisRecovers PROVE TypeOK'
    BY <1>21, Zeros DEF RedisRecovers
  <1>22. ASSUME NEW c \in Consumers, Raise(c) PROVE TypeOK'
    BY <1>22, CountRange, Zeros DEF Raise, Redeliver, Forget, Goto
  <1>23. ASSUME NEW c \in Consumers, ConnectFails(c) PROVE TypeOK'
    BY <1>23, CountRange DEF ConnectFails
  <1>24. ASSUME NEW c \in Consumers, Stop(c) PROVE TypeOK'
    BY <1>24, Zeros DEF Stop, Goto
  <1>25. ASSUME NEW e \in Events, MarkExpires(e) PROVE TypeOK'
    <2>1. mails' \in [Events -> 0..MailCap]
      <3> DEFINE R == 0..MailCap
      <3>1. 0 \in R /\ mails \in [Events -> R] /\ mails' = [mails EXCEPT ![e] = 0]
        BY <1>25 DEF MarkExpires
      <3> HIDE DEF R
      <3>2. mails' \in [Events -> R]
        BY ONLY <3>1
      <3> QED
        BY <3>2 DEF R
    <2>2. processed' \subseteq Events
      BY <1>25 DEF MarkExpires
    <2> QED
      BY <1>25, <2>1, <2>2 DEF MarkExpires
  <1>26. ASSUME NEW e \in Events, AttemptsExpire(e) PROVE TypeOK'
    BY <1>26, Zeros DEF AttemptsExpire
  <1> QED
    BY <1>1, <1>2, <1>3, <1>4, <1>5, <1>6, <1>7, <1>8, <1>9, <1>10, <1>11, <1>12, <1>13, <1>14, <1>15, <1>16, <1>17, <1>18, <1>19, <1>20, <1>21, <1>22, <1>23, <1>24, <1>25, <1>26 DEF Next, ConsumerStep, Handle, Supervise

(* What a step of a consumer must keep for the mails to stay accounted for. *)
LEMMA MailsKept ==
  ASSUME TypeOK, HandInv, MailedInv, NEW c \in Consumers,
         \A d \in Consumers : d # c => pc'[d] = pc[d] /\ msg'[d] = msg[d],
         \A e \in Events : e \in mailed => e \in mailed',
         \A e \in processed' : e \in processed \/ e \in mailed',
         \A m \in acked' : m \in acked \/ (EventOf[m] \in Events /\ EventOf[m] \in mailed'),
         pc'[c] = "reject" => msg'[c] \in Messages,
         pc'[c] \in {"ackDuplicate", "mark", "delAttempts", "ack"} => EventOf[msg'[c]] \in mailed'
  PROVE  HandInv' /\ MailedInv'
  <1>1. HandInv'
    BY DEF HandInv
  <1>2. AckedMeansMailed'
    BY DEF MailedInv, AckedMeansMailed
  <1>3. \A e \in processed' : e \in mailed'
    BY DEF MailedInv, TypeOK
  <1>4. ASSUME NEW d \in Consumers, pc'[d] \in {"ackDuplicate", "mark", "delAttempts", "ack"}
        PROVE  EventOf[msg'[d]] \in mailed'
    <2>1. CASE d = c
      BY <2>1, <1>4
    <2>2. CASE d # c
      <3>1. EventAt(d) \in Events /\ EventAt(d) \in mailed
        BY <2>2, <1>4 DEF TypeOK, MailedInv
      <3> QED
        BY <2>2, <3>1 DEF EventAt
    <2> QED
      BY <2>1, <2>2
  <1> QED
    BY <1>1, <1>2, <1>3, <1>4 DEF MailedInv, EventAt

(* Every step keeps the mails that acknowledgements and marks rely on. *)
LEMMA MailedStep == IInv /\ [Next]_vars => HandInv' /\ MailedInv'
  <1> SUFFICES ASSUME IInv, [Next]_vars PROVE HandInv' /\ MailedInv'
    OBVIOUS
  <1>0. TypeOK /\ HandInv /\ MailedInv
    BY DEF IInv
  <1> USE <1>0 DEF broker, redis, local, history
  <1>1. CASE UNCHANGED vars
    BY <1>1 DEF vars, HandInv, MailedInv, AckedMeansMailed, EventAt
  <1>2. ASSUME NEW m \in Messages, Publish(m) PROVE HandInv' /\ MailedInv'
    BY <1>2 DEF Publish, HandInv, MailedInv, AckedMeansMailed, EventAt
  <1>3. ASSUME NEW c \in Consumers, NextAttempt(c) PROVE HandInv' /\ MailedInv'
    <2>1. /\ \A d \in Consumers : d # c => pc'[d] = pc[d] /\ msg'[d] = msg[d]
          /\ pc'[c] \in {"check"} /\ UNCHANGED <<acked, processed, mailed>>
      BY <1>3 DEF NextAttempt, Goto, TypeOK
    <2> QED
      BY <2>1, MailsKept
  <1>4. ASSUME NEW c \in Consumers, CheckProcessed(c) PROVE HandInv' /\ MailedInv'
    <2>1. /\ \A d \in Consumers : d # c => pc'[d] = pc[d] /\ msg'[d] = msg[d]
          /\ UNCHANGED <<acked, processed, mailed, msg>>
      BY <1>4 DEF CheckProcessed, Goto, TypeOK
    <2>2. pc'[c] \in {"ackDuplicate", "send"} /\ (pc'[c] = "ackDuplicate" => EventAt(c) \in processed)
      BY <1>4 DEF CheckProcessed, Goto, TypeOK
    <2>3. pc'[c] = "ackDuplicate" => EventOf[msg'[c]] \in mailed'
      BY <2>1, <2>2 DEF MailedInv, EventAt
    <2> QED
      BY <2>1, <2>2, <2>3, MailsKept
  <1>5. ASSUME NEW c \in Consumers, AckDuplicate(c) PROVE HandInv' /\ MailedInv'
    <2>1. /\ \A d \in Consumers : d # c => pc'[d] = pc[d] /\ msg'[d] = msg[d]
          /\ pc'[c] \in {"waiting", "raised"} /\ UNCHANGED <<processed, mailed>>
      BY <1>5 DEF AckDuplicate, Settle, Forget, Goto, TypeOK
    <2>2. EventOf[msg[c]] \in Events /\ EventOf[msg[c]] \in mailed
      BY <1>5 DEF AckDuplicate, TypeOK, MailedInv, EventAt
    <2>3. acked' = acked \/ acked' = acked \cup {msg[c]}
      BY <1>5 DEF AckDuplicate, Settle
    <2> QED
      BY <2>1, <2>2, <2>3, MailsKept
  <1>6. ASSUME NEW c \in Consumers, SendAccepted(c) PROVE HandInv' /\ MailedInv'
    <2>1. /\ \A d \in Consumers : d # c => pc'[d] = pc[d] /\ msg'[d] = msg[d]
          /\ pc'[c] = "mark" /\ UNCHANGED <<acked, processed, msg>>
      BY <1>6 DEF SendAccepted, Goto, TypeOK
    <2>2. EventAt(c) \in Events /\ mailed' = mailed \cup {EventAt(c)}
      BY <1>6 DEF SendAccepted, Mailing, TypeOK
    <2>3. EventOf[msg'[c]] \in mailed'
      BY <2>1, <2>2 DEF EventAt
    <2> QED
      BY <2>1, <2>2, <2>3, MailsKept
  <1>7. ASSUME NEW c \in Consumers, SendFails(c) PROVE HandInv' /\ MailedInv'
    <2>1. /\ \A d \in Consumers : d # c => pc'[d] = pc[d] /\ msg'[d] = msg[d]
          /\ pc'[c] \in {"failed"} /\ UNCHANGED <<acked, processed, mailed>>
      BY <1>7 DEF SendFails, Goto, TypeOK
    <2> QED
      BY <2>1, MailsKept
  <1>8. ASSUME NEW c \in Consumers, SendAnswerLost(c) PROVE HandInv' /\ MailedInv'
    <2>1. /\ \A d \in Consumers : d # c => pc'[d] = pc[d] /\ msg'[d] = msg[d]
          /\ pc'[c] = "failed" /\ UNCHANGED <<acked, processed>>
      BY <1>8 DEF SendAnswerLost, Goto, TypeOK
    <2>2. mailed' = mailed \cup {EventAt(c)}
      BY <1>8 DEF SendAnswerLost, Mailing
    <2> QED
      BY <2>1, <2>2, MailsKept
  <1>9. ASSUME NEW c \in Consumers, MarkProcessed(c) PROVE HandInv' /\ MailedInv'
    <2>1. /\ \A d \in Consumers : d # c => pc'[d] = pc[d] /\ msg'[d] = msg[d]
          /\ pc'[c] = "delAttempts" /\ UNCHANGED <<acked, mailed, msg>>
      BY <1>9 DEF MarkProcessed, Goto, TypeOK
    <2>2. EventAt(c) \in mailed
      BY <1>9 DEF MarkProcessed, MailedInv
    <2>3. \A e \in processed' : e \in processed \/ e = EventAt(c)
      BY <1>9 DEF MarkProcessed
    <2>4. EventOf[msg'[c]] \in mailed'
      BY <2>1, <2>2 DEF EventAt
    <2> QED
      BY <2>1, <2>2, <2>3, <2>4, MailsKept
  <1>10. ASSUME NEW c \in Consumers, DelAttempts(c) PROVE HandInv' /\ MailedInv'
    <2>1. /\ \A d \in Consumers : d # c => pc'[d] = pc[d] /\ msg'[d] = msg[d]
          /\ pc'[c] = "ack" /\ UNCHANGED <<acked, processed, mailed, msg>>
      BY <1>10 DEF DelAttempts, Goto, TypeOK
    <2>2. EventAt(c) \in mailed
      BY <1>10 DEF DelAttempts, MailedInv
    <2>3. EventOf[msg'[c]] \in mailed'
      BY <2>1, <2>2 DEF EventAt
    <2> QED
      BY <2>1, <2>2, <2>3, MailsKept
  <1>11. ASSUME NEW c \in Consumers, Ack(c) PROVE HandInv' /\ MailedInv'
    <2>1. /\ \A d \in Consumers : d # c => pc'[d] = pc[d] /\ msg'[d] = msg[d]
          /\ pc'[c] \in {"waiting", "raised", "failed"} /\ UNCHANGED <<processed, mailed>>
      BY <1>11 DEF Ack, Settle, Forget, Goto, TypeOK
    <2>2. EventOf[msg[c]] \in Events /\ EventOf[msg[c]] \in mailed
      BY <1>11 DEF Ack, TypeOK, MailedInv, EventAt
    <2>3. acked' = acked \/ acked' = acked \cup {msg[c]}
      BY <1>11 DEF Ack, Settle
    <2> QED
      BY <2>1, <2>2, <2>3, MailsKept
  <1>12. ASSUME NEW c \in Consumers, HandleFailure(c) PROVE HandInv' /\ MailedInv'
    <2>1. /\ \A d \in Consumers : d # c => pc'[d] = pc[d] /\ msg'[d] = msg[d]
          /\ pc'[c] \in {"reject", "requeue"} /\ UNCHANGED <<acked, processed, mailed, msg>>
      BY <1>12 DEF HandleFailure, Goto, TypeOK
    <2>2. msg[c] \in Messages
      BY <1>12 DEF HandleFailure, TypeOK
    <2> QED
      BY <2>1, <2>2, MailsKept
  <1>13. ASSUME NEW c \in Consumers, Requeue(c) PROVE HandInv' /\ MailedInv'
    <2>1. /\ \A d \in Consumers : d # c => pc'[d] = pc[d] /\ msg'[d] = msg[d]
          /\ pc'[c] \in {"waiting", "raised"} /\ UNCHANGED <<processed, mailed>>
      BY <1>13 DEF Requeue, Settle, Forget, Goto, TypeOK
    <2>2. acked' = acked
      BY <1>13 DEF Requeue, Settle
    <2> QED
      BY <2>1, <2>2, MailsKept
  <1>14. ASSUME NEW c \in Consumers, Reject(c) PROVE HandInv' /\ MailedInv'
    <2>1. /\ \A d \in Consumers : d # c => pc'[d] = pc[d] /\ msg'[d] = msg[d]
          /\ pc'[c] \in {"waiting", "raised"} /\ UNCHANGED <<processed, mailed>>
      BY <1>14 DEF Reject, Settle, Forget, Goto, TypeOK
    <2>2. acked' = acked
      BY <1>14 DEF Reject, Settle
    <2> QED
      BY <2>1, <2>2, MailsKept
  <1>15. ASSUME NEW c \in Consumers, Raise(c) PROVE HandInv' /\ MailedInv'
    <2>1. /\ \A d \in Consumers : d # c => pc'[d] = pc[d] /\ msg'[d] = msg[d]
          /\ pc'[c] \in {"down"} /\ UNCHANGED <<acked, processed, mailed>>
      BY <1>15 DEF Raise, Goto, TypeOK, Redeliver, Forget
    <2> QED
      BY <2>1, MailsKept
  <1>16. ASSUME NEW c \in Consumers, Connect(c) PROVE HandInv' /\ MailedInv'
    <2>1. /\ \A d \in Consumers : d # c => pc'[d] = pc[d] /\ msg'[d] = msg[d]
          /\ pc'[c] \in {"waiting"} /\ UNCHANGED <<acked, processed, mailed>>
      BY <1>16 DEF Connect, Goto, TypeOK
    <2> QED
      BY <2>1, MailsKept
  <1>17. ASSUME NEW c \in Consumers, ConnectFails(c) PROVE HandInv' /\ MailedInv'
    <2>1. /\ \A d \in Consumers : d # c => pc'[d] = pc[d] /\ msg'[d] = msg[d]
          /\ pc'[c] \in {"down"} /\ UNCHANGED <<acked, processed, mailed>>
      BY <1>17 DEF ConnectFails, Goto, TypeOK
    <2> QED
      BY <2>1, MailsKept
  <1>18. ASSUME NEW c \in Consumers, Stop(c) PROVE HandInv' /\ MailedInv'
    <2>1. /\ \A d \in Consumers : d # c => pc'[d] = pc[d] /\ msg'[d] = msg[d]
          /\ pc'[c] \in {"down"} /\ UNCHANGED <<acked, processed, mailed>>
      BY <1>18 DEF Stop, Goto, TypeOK
    <2> QED
      BY <2>1, MailsKept
  <1>19. ASSUME NEW c \in Consumers, Poll(c) PROVE HandInv' /\ MailedInv'
    BY <1>19, <1>1 DEF Poll
  <1>20. ASSUME NEW c \in Consumers, NEW m \in Messages, Deliver(c, m) PROVE HandInv' /\ MailedInv'
    <2>1. /\ \A d \in Consumers : d # c => pc'[d] = pc[d] /\ msg'[d] = msg[d]
          /\ pc'[c] \in {"attempt", "reject", "raised"} /\ msg'[c] = m
          /\ UNCHANGED <<acked, processed, mailed>>
      BY <1>20 DEF Deliver, Goto, TypeOK
    <2> QED
      BY <2>1, MailsKept
  <1>21. ASSUME NEW c \in Consumers, ConnectionLost(c) PROVE HandInv' /\ MailedInv'
    <2>1. /\ pc' = pc \/ pc' = [pc EXCEPT ![c] = "raised"]
          /\ UNCHANGED <<acked, processed, mailed, msg>>
      BY <1>21 DEF ConnectionLost, Goto
    <2>2. /\ \A d \in Consumers : d # c => pc'[d] = pc[d] /\ msg'[d] = msg[d]
          /\ pc'[c] = pc[c] \/ pc'[c] = "raised"
      BY <2>1 DEF TypeOK
    <2>3. /\ pc[c] = "reject" => msg[c] \in Messages
          /\ pc[c] \in {"ackDuplicate", "mark", "delAttempts", "ack"} => EventOf[msg[c]] \in mailed
      BY DEF HandInv, MailedInv, EventAt
    <2> QED
      BY <2>1, <2>2, <2>3, MailsKept
  <1>22. ASSUME NEW c \in Consumers, Crash(c) PROVE HandInv' /\ MailedInv'
    <2>1. /\ \A d \in Consumers : d # c => pc'[d] = pc[d] /\ msg'[d] = msg[d]
          /\ pc'[c] \in {"down"} /\ UNCHANGED <<acked, processed, mailed>>
      BY <1>22 DEF Crash, Goto, TypeOK, Redeliver, Forget
    <2> QED
      BY <2>1, MailsKept
  <1>23. CASE RedisFails
    BY <1>23 DEF RedisFails, HandInv, MailedInv, AckedMeansMailed, EventAt
  <1>24. CASE RedisRecovers
    BY <1>24 DEF RedisRecovers, HandInv, MailedInv, AckedMeansMailed, EventAt
  <1>25. ASSUME NEW e \in Events, MarkExpires(e) PROVE HandInv' /\ MailedInv'
    BY <1>25 DEF MarkExpires, HandInv, MailedInv, AckedMeansMailed, EventAt
  <1>26. ASSUME NEW e \in Events, AttemptsExpire(e) PROVE HandInv' /\ MailedInv'
    BY <1>26 DEF AttemptsExpire, HandInv, MailedInv, AckedMeansMailed, EventAt
  <1> QED
    BY <1>1, <1>2, <1>3, <1>4, <1>5, <1>6, <1>7, <1>8, <1>9, <1>10, <1>11, <1>12, <1>13, <1>14, <1>15, <1>16, <1>17, <1>18, <1>19, <1>20, <1>21, <1>22, <1>23, <1>24, <1>25, <1>26
    DEF Next, ConsumerStep, Handle, Supervise

(* What a consumer's channel owns is the message its handler was given; a
   consumer between two messages owns nothing. *)
OwnInv ==
  \A c \in Consumers : Owns(c) => unacked[c] = msg[c] /\ pc[c] \notin {"waiting", "down"}

(* MessagesConserved, message by message. *)
PlaceInv ==
  /\ ready \subseteq published /\ acked \subseteq published /\ dead \subseteq published
  /\ \A m \in published :
       m \in ready \/ m \in acked \/ m \in dead \/ \E c \in Consumers : unacked[c] = m
  /\ \A m \in published : ~(m \in ready /\ m \in acked) /\ ~(m \in ready /\ m \in dead)
                            /\ ~(m \in acked /\ m \in dead)
  /\ \A c \in Consumers : Owns(c) =>
       /\ unacked[c] \in published
       /\ unacked[c] \notin ready /\ unacked[c] \notin acked /\ unacked[c] \notin dead
       /\ \A d \in Consumers : d # c => unacked[d] # unacked[c]

LEMMA PlaceMeansConserved == TypeOK /\ PlaceInv => MessagesConserved
  <1> SUFFICES ASSUME TypeOK, PlaceInv PROVE MessagesConserved
    OBVIOUS
  <1> DEFINE held == {unacked[c] : c \in Consumers} \ {None}
  <1>1. \A m \in held : m \in published
    BY DEF PlaceInv, Owns
  <1>2. \A m \in published : m # None
    BY NothingAssumption DEF TypeOK
  <1>3. \A m \in published : m \in ready \cup acked \cup dead \cup held
    BY <1>2 DEF PlaceInv
  <1>4. published = ready \cup acked \cup dead \cup held
    <2> HIDE DEF held
    <2> QED
      BY <1>1, <1>3 DEF PlaceInv
  <1>5. ready \cap acked = {} /\ ready \cap dead = {} /\ acked \cap dead = {}
    BY DEF PlaceInv
  <1> QED
    BY <1>4, <1>5 DEF MessagesConserved, PlaceInv

LEMMA PlaceInit == Init => OwnInv /\ PlaceInv
  BY DEF Init, OwnInv, PlaceInv, Owns

(* A step that moves nothing in the broker and lets no owner leave its handler. *)
LEMMA BrokerStill ==
  ASSUME TypeOK, OwnInv, PlaceInv, UNCHANGED <<published, broker>>,
         \A c \in Consumers : Owns(c) => msg'[c] = msg[c] /\ pc'[c] \notin {"waiting", "down"}
  PROVE  OwnInv' /\ PlaceInv'
  <1>1. PlaceInv'
    BY DEF PlaceInv, Owns, broker
  <1>2. OwnInv'
    BY DEF OwnInv, Owns, broker
  <1> QED
    BY <1>1, <1>2

(* A step that takes the message of one channel and puts it into one of the three sets. *)
LEMMA Placed ==
  ASSUME TypeOK, OwnInv, PlaceInv, NEW c \in Consumers, Owns(c),
         published' = published,
         unacked' = [unacked EXCEPT ![c] = None],
         \/ ready' = ready \cup {unacked[c]} /\ UNCHANGED <<acked, dead>>
         \/ acked' = acked \cup {unacked[c]} /\ UNCHANGED <<ready, dead>>
         \/ dead' = dead \cup {unacked[c]} /\ UNCHANGED <<ready, acked>>,
         \A d \in Consumers : d # c => msg'[d] = msg[d] /\ pc'[d] = pc[d]
  PROVE  OwnInv' /\ PlaceInv'
  <1>1. unacked[c] \in published /\ unacked[c] # None
    BY DEF PlaceInv, Owns
  <1>2. /\ unacked'[c] = None
        /\ \A d \in Consumers : d # c => unacked'[d] = unacked[d]
    BY DEF TypeOK
  <1>3. OwnInv'
    BY <1>2 DEF OwnInv, Owns
  <1>4. \A m \in published' :
          m \in ready' \/ m \in acked' \/ m \in dead' \/ \E d \in Consumers : unacked'[d] = m
    <2> SUFFICES ASSUME NEW m \in published
                 PROVE  m \in ready' \/ m \in acked' \/ m \in dead' \/ \E d \in Consumers : unacked'[d] = m
      OBVIOUS
    <2>1. CASE m = unacked[c]
      BY <2>1
    <2>2. CASE m # unacked[c]
      BY <2>2, <1>2 DEF PlaceInv
    <2> QED
      BY <2>1, <2>2
  <1>5. \A d \in Consumers : Owns(d)' =>
          /\ unacked'[d] \in published'
          /\ unacked'[d] \notin ready' /\ unacked'[d] \notin acked' /\ unacked'[d] \notin dead'
          /\ \A b \in Consumers : b # d => unacked'[b] # unacked'[d]
    <2> SUFFICES ASSUME NEW d \in Consumers, unacked'[d] # None
                 PROVE  /\ unacked'[d] \in published'
                        /\ unacked'[d] \notin ready' /\ unacked'[d] \notin acked' /\ unacked'[d] \notin dead'
                        /\ \A b \in Consumers : b # d => unacked'[b] # unacked'[d]
      BY DEF Owns
    <2>1. d # c /\ unacked'[d] = unacked[d]
      BY <1>2
    <2>2. Owns(d) /\ unacked[d] # unacked[c]
      BY <2>1 DEF PlaceInv, Owns
    <2>3. \A b \in Consumers : b # d => unacked'[b] # unacked'[d]
      BY <2>1, <2>2, <1>2 DEF PlaceInv
    <2> QED
      BY <2>1, <2>2, <2>3 DEF PlaceInv
  <1>6. /\ ready' \subseteq published' /\ acked' \subseteq published' /\ dead' \subseteq published'
        /\ \A m \in published' : ~(m \in ready' /\ m \in acked') /\ ~(m \in ready' /\ m \in dead')
                                   /\ ~(m \in acked' /\ m \in dead')
    BY <1>1 DEF PlaceInv
  <1> QED
    BY <1>3, <1>4, <1>5, <1>6 DEF PlaceInv

(* Publishing puts a new message into the queue. *)
LEMMA PlacePublish ==
  ASSUME TypeOK, OwnInv, PlaceInv, NEW m \in Messages, Publish(m)
  PROVE  OwnInv' /\ PlaceInv'
  <1>1. /\ m \notin published /\ published' = published \cup {m} /\ ready' = ready \cup {m}
        /\ UNCHANGED <<unacked, acked, dead, pc, msg>>
    BY DEF Publish, local
  <1>2. OwnInv'
    BY <1>1 DEF OwnInv, Owns
  <1>3. \A c \in Consumers : Owns(c) => unacked[c] # m
    BY <1>1 DEF PlaceInv
  <1> QED
    BY <1>1, <1>2, <1>3 DEF PlaceInv, Owns

(* A delivery moves the head of the queue to a channel that owned nothing. *)
LEMMA PlaceDeliver ==
  ASSUME TypeOK, OwnInv, PlaceInv, NEW c \in Consumers, NEW m \in Messages, Deliver(c, m)
  PROVE  OwnInv' /\ PlaceInv'
  <1>1. /\ m \in ready /\ ready' = ready \ {m} /\ UNCHANGED <<published, acked, dead>>
        /\ \A d \in Consumers : d # c => unacked'[d] = unacked[d] /\ msg'[d] = msg[d] /\ pc'[d] = pc[d]
        /\ unacked'[c] = m /\ msg'[c] = m /\ pc'[c] \notin {"waiting", "down"}
    BY DEF Deliver, Goto, TypeOK
  <1>2. ~Owns(c)
    BY DEF OwnInv, Deliver
  <1>3. OwnInv'
    BY <1>1 DEF OwnInv, Owns
  <1>4. \A n \in published' :
          n \in ready' \/ n \in acked' \/ n \in dead' \/ \E d \in Consumers : unacked'[d] = n
    <2> SUFFICES ASSUME NEW n \in published
                 PROVE  n \in ready' \/ n \in acked' \/ n \in dead' \/ \E d \in Consumers : unacked'[d] = n
      BY <1>1
    <2>1. CASE n = m
      BY <2>1, <1>1
    <2>2. CASE n # m
      <3>1. n \in ready \/ n \in acked \/ n \in dead \/ \E d \in Consumers : unacked[d] = n
        BY DEF PlaceInv
      <3>2. ASSUME NEW d \in Consumers, unacked[d] = n PROVE d # c
        BY <1>2, <3>2, NothingAssumption DEF Owns, TypeOK
      <3> QED
        BY <2>2, <1>1, <3>1, <3>2
    <2> QED
      BY <2>1, <2>2
  <1>5. m \in published /\ m \notin acked /\ m \notin dead
    BY <1>1 DEF PlaceInv
  <1>6. \A d \in Consumers : Owns(d) => unacked[d] # m
    BY <1>1 DEF PlaceInv
  <1>7. \A d \in Consumers : unacked'[d] # None =>
          /\ unacked'[d] \in published'
          /\ unacked'[d] \notin ready' /\ unacked'[d] \notin acked' /\ unacked'[d] \notin dead'
          /\ \A b \in Consumers : b # d => unacked'[b] # unacked'[d]
    <2> SUFFICES ASSUME NEW d \in Consumers, unacked'[d] # None
                 PROVE  /\ unacked'[d] \in published'
                        /\ unacked'[d] \notin ready' /\ unacked'[d] \notin acked' /\ unacked'[d] \notin dead'
                        /\ \A b \in Consumers : b # d => unacked'[b] # unacked'[d]
      OBVIOUS
    <2>1. CASE d = c
      BY <2>1, <1>1, <1>5, <1>6, NothingAssumption DEF Owns
    <2>2. CASE d # c
      <3>1. Owns(d) /\ unacked'[d] = unacked[d]
        BY <2>2, <1>1 DEF Owns
      <3>2. \A b \in Consumers : b # d => unacked'[b] # unacked'[d]
        BY <2>2, <3>1, <1>1, <1>6 DEF PlaceInv
      <3> QED
        BY <3>1, <3>2, <1>1 DEF PlaceInv
    <2> QED
      BY <2>1, <2>2
  <1> QED
    BY <1>1, <1>3, <1>4, <1>5, <1>7 DEF PlaceInv, Owns

(* Every step keeps each published message in one place. *)
LEMMA PlaceStep == IInv /\ OwnInv /\ PlaceInv /\ [Next]_vars => OwnInv' /\ PlaceInv'
  <1> SUFFICES ASSUME IInv, OwnInv, PlaceInv, [Next]_vars PROVE OwnInv' /\ PlaceInv'
    OBVIOUS
  <1>0. TypeOK
    BY DEF IInv
  <1> USE <1>0
  <1>1. CASE UNCHANGED vars
    BY <1>1 DEF vars, OwnInv, PlaceInv, Owns, broker, local
  <1>2. ASSUME NEW m \in Messages, Publish(m) PROVE OwnInv' /\ PlaceInv'
    BY <1>2, PlacePublish
  <1>3. ASSUME NEW c \in Consumers, NextAttempt(c) PROVE OwnInv' /\ PlaceInv'
    <2>1. /\ UNCHANGED <<published, broker, msg>>
          /\ \E label \in Labels \ {"waiting", "down"} : pc' = [pc EXCEPT ![c] = label]
      BY <1>3 DEF NextAttempt, Goto, Labels
    <2> QED
      BY <2>1, BrokerStill DEF TypeOK, OwnInv
  <1>4. ASSUME NEW c \in Consumers, CheckProcessed(c) PROVE OwnInv' /\ PlaceInv'
    <2>1. /\ UNCHANGED <<published, broker, msg>>
          /\ \E label \in Labels \ {"waiting", "down"} : pc' = [pc EXCEPT ![c] = label]
      BY <1>4 DEF CheckProcessed, Goto, Labels
    <2> QED
      BY <2>1, BrokerStill DEF TypeOK, OwnInv
  <1>5. ASSUME NEW c \in Consumers, AckDuplicate(c) PROVE OwnInv' /\ PlaceInv'
    <2>1. /\ \A d \in Consumers : d # c => msg'[d] = msg[d] /\ pc'[d] = pc[d]
          /\ published' = published
      BY <1>5 DEF AckDuplicate, Settle, Forget, Goto, TypeOK
    <2>2. CASE Owns(c)
      <3>1. /\ unacked' = [unacked EXCEPT ![c] = None]
            /\ acked' = acked \cup {unacked[c]}
            /\ UNCHANGED <<ready, dead>>
        BY <1>5, <2>2 DEF AckDuplicate, Settle, OwnInv
      <3> QED
        BY <2>1, <2>2, <3>1, Placed
    <2>3. CASE ~Owns(c)
      <3>1. UNCHANGED <<published, broker>>
        BY <1>5, <2>3 DEF AckDuplicate, Settle, broker
      <3> QED
        BY <2>1, <2>3, <3>1, BrokerStill DEF OwnInv
    <2> QED
      BY <2>2, <2>3
  <1>6. ASSUME NEW c \in Consumers, SendAccepted(c) PROVE OwnInv' /\ PlaceInv'
    <2>1. /\ UNCHANGED <<published, broker, msg>>
          /\ \E label \in Labels \ {"waiting", "down"} : pc' = [pc EXCEPT ![c] = label]
      BY <1>6 DEF SendAccepted, Goto, Labels
    <2> QED
      BY <2>1, BrokerStill DEF TypeOK, OwnInv
  <1>7. ASSUME NEW c \in Consumers, SendFails(c) PROVE OwnInv' /\ PlaceInv'
    <2>1. /\ UNCHANGED <<published, broker, msg>>
          /\ \E label \in Labels \ {"waiting", "down"} : pc' = [pc EXCEPT ![c] = label]
      BY <1>7 DEF SendFails, Goto, Labels
    <2> QED
      BY <2>1, BrokerStill DEF TypeOK, OwnInv
  <1>8. ASSUME NEW c \in Consumers, SendAnswerLost(c) PROVE OwnInv' /\ PlaceInv'
    <2>1. /\ UNCHANGED <<published, broker, msg>>
          /\ \E label \in Labels \ {"waiting", "down"} : pc' = [pc EXCEPT ![c] = label]
      BY <1>8 DEF SendAnswerLost, Goto, Labels
    <2> QED
      BY <2>1, BrokerStill DEF TypeOK, OwnInv
  <1>9. ASSUME NEW c \in Consumers, MarkProcessed(c) PROVE OwnInv' /\ PlaceInv'
    <2>1. /\ UNCHANGED <<published, broker, msg>>
          /\ \E label \in Labels \ {"waiting", "down"} : pc' = [pc EXCEPT ![c] = label]
      BY <1>9 DEF MarkProcessed, Goto, Labels
    <2> QED
      BY <2>1, BrokerStill DEF TypeOK, OwnInv
  <1>10. ASSUME NEW c \in Consumers, DelAttempts(c) PROVE OwnInv' /\ PlaceInv'
    <2>1. /\ UNCHANGED <<published, broker, msg>>
          /\ \E label \in Labels \ {"waiting", "down"} : pc' = [pc EXCEPT ![c] = label]
      BY <1>10 DEF DelAttempts, Goto, Labels
    <2> QED
      BY <2>1, BrokerStill DEF TypeOK, OwnInv
  <1>11. ASSUME NEW c \in Consumers, Ack(c) PROVE OwnInv' /\ PlaceInv'
    <2>1. /\ \A d \in Consumers : d # c => msg'[d] = msg[d] /\ pc'[d] = pc[d]
          /\ published' = published
      BY <1>11 DEF Ack, Settle, Forget, Goto, TypeOK
    <2>2. CASE Owns(c)
      <3>1. /\ unacked' = [unacked EXCEPT ![c] = None]
            /\ acked' = acked \cup {unacked[c]}
            /\ UNCHANGED <<ready, dead>>
        BY <1>11, <2>2 DEF Ack, Settle, OwnInv
      <3> QED
        BY <2>1, <2>2, <3>1, Placed
    <2>3. CASE ~Owns(c)
      <3>1. UNCHANGED <<published, broker>>
        BY <1>11, <2>3 DEF Ack, Settle, broker
      <3> QED
        BY <2>1, <2>3, <3>1, BrokerStill DEF OwnInv
    <2> QED
      BY <2>2, <2>3
  <1>12. ASSUME NEW c \in Consumers, HandleFailure(c) PROVE OwnInv' /\ PlaceInv'
    <2>1. /\ UNCHANGED <<published, broker, msg>>
          /\ \E label \in Labels \ {"waiting", "down"} : pc' = [pc EXCEPT ![c] = label]
      BY <1>12 DEF HandleFailure, Goto, Labels
    <2> QED
      BY <2>1, BrokerStill DEF TypeOK, OwnInv
  <1>13. ASSUME NEW c \in Consumers, Requeue(c) PROVE OwnInv' /\ PlaceInv'
    <2>1. /\ \A d \in Consumers : d # c => msg'[d] = msg[d] /\ pc'[d] = pc[d]
          /\ published' = published
      BY <1>13 DEF Requeue, Settle, Forget, Goto, TypeOK
    <2>2. CASE Owns(c)
      <3>1. /\ unacked' = [unacked EXCEPT ![c] = None]
            /\ ready' = ready \cup {unacked[c]}
            /\ UNCHANGED <<acked, dead>>
        BY <1>13, <2>2 DEF Requeue, Settle, OwnInv
      <3> QED
        BY <2>1, <2>2, <3>1, Placed
    <2>3. CASE ~Owns(c)
      <3>1. UNCHANGED <<published, broker>>
        BY <1>13, <2>3 DEF Requeue, Settle, broker
      <3> QED
        BY <2>1, <2>3, <3>1, BrokerStill DEF OwnInv
    <2> QED
      BY <2>2, <2>3
  <1>14. ASSUME NEW c \in Consumers, Reject(c) PROVE OwnInv' /\ PlaceInv'
    <2>1. /\ \A d \in Consumers : d # c => msg'[d] = msg[d] /\ pc'[d] = pc[d]
          /\ published' = published
      BY <1>14 DEF Reject, Settle, Forget, Goto, TypeOK
    <2>2. CASE Owns(c)
      <3>1. /\ unacked' = [unacked EXCEPT ![c] = None]
            /\ dead' = dead \cup {unacked[c]}
            /\ UNCHANGED <<ready, acked>>
        BY <1>14, <2>2 DEF Reject, Settle, OwnInv
      <3> QED
        BY <2>1, <2>2, <3>1, Placed
    <2>3. CASE ~Owns(c)
      <3>1. UNCHANGED <<published, broker>>
        BY <1>14, <2>3 DEF Reject, Settle, broker
      <3> QED
        BY <2>1, <2>3, <3>1, BrokerStill DEF OwnInv
    <2> QED
      BY <2>2, <2>3
  <1>15. ASSUME NEW c \in Consumers, Raise(c) PROVE OwnInv' /\ PlaceInv'
    <2>1. /\ \A d \in Consumers : d # c => msg'[d] = msg[d] /\ pc'[d] = pc[d]
          /\ UNCHANGED <<published, acked, dead>>
          /\ unacked' = [unacked EXCEPT ![c] = None]
          /\ ready' = ready \cup ({unacked[c]} \ {None})
      BY <1>15 DEF Raise, Redeliver, Forget, Goto, TypeOK
    <2>2. CASE Owns(c)
      <3>1. ready' = ready \cup {unacked[c]}
        BY <2>1, <2>2 DEF Owns
      <3> QED
        BY <2>1, <2>2, <3>1, Placed
    <2>3. CASE ~Owns(c)
      <3>1. UNCHANGED <<published, broker>>
        BY <2>1, <2>3 DEF Owns, TypeOK, broker
      <3> QED
        BY <2>1, <2>3, <3>1, BrokerStill DEF OwnInv
    <2> QED
      BY <2>2, <2>3
  <1>16. ASSUME NEW c \in Consumers, Connect(c) PROVE OwnInv' /\ PlaceInv'
    <2>1. ~Owns(c)
      BY <1>16 DEF Connect, OwnInv
    <2>2. /\ UNCHANGED <<published, broker, msg>>
          /\ \A d \in Consumers : d # c => pc'[d] = pc[d]
      BY <1>16 DEF Connect, Goto, TypeOK
    <2> QED
      BY <2>1, <2>2, BrokerStill DEF OwnInv
  <1>17. ASSUME NEW c \in Consumers, ConnectFails(c) PROVE OwnInv' /\ PlaceInv'
    <2>1. ~Owns(c)
      BY <1>17 DEF ConnectFails, OwnInv
    <2>2. /\ UNCHANGED <<published, broker, msg>>
          /\ \A d \in Consumers : d # c => pc'[d] = pc[d]
      BY <1>17 DEF ConnectFails, Goto, TypeOK
    <2> QED
      BY <2>1, <2>2, BrokerStill DEF OwnInv
  <1>18. ASSUME NEW c \in Consumers, Stop(c) PROVE OwnInv' /\ PlaceInv'
    <2>1. ~Owns(c)
      BY <1>18 DEF Stop, OwnInv
    <2>2. /\ UNCHANGED <<published, broker, msg>>
          /\ \A d \in Consumers : d # c => pc'[d] = pc[d]
      BY <1>18 DEF Stop, Goto, TypeOK
    <2> QED
      BY <2>1, <2>2, BrokerStill DEF OwnInv
  <1>19. ASSUME NEW c \in Consumers, Poll(c) PROVE OwnInv' /\ PlaceInv'
    BY <1>19 DEF Poll, vars, OwnInv, PlaceInv, Owns, broker, local
  <1>20. ASSUME NEW c \in Consumers, NEW m \in Messages, Deliver(c, m) PROVE OwnInv' /\ PlaceInv'
    BY <1>20, PlaceDeliver
  <1>21. ASSUME NEW c \in Consumers, ConnectionLost(c) PROVE OwnInv' /\ PlaceInv'
    <2>1. CASE Owns(c) /\ Redeliver(c) /\ UNCHANGED pc
      <3>1. ready' = ready \cup {unacked[c]} /\ unacked' = [unacked EXCEPT ![c] = None]
        BY <2>1 DEF Redeliver, Owns
      <3> QED
        BY <1>21, <2>1, <3>1, Placed DEF ConnectionLost
    <2>2. CASE pc[c] = "waiting" /\ Goto(c, "raised") /\ UNCHANGED <<ready, unacked>>
      <3>1. UNCHANGED <<published, broker, msg>> /\ pc' = [pc EXCEPT ![c] = "raised"]
        BY <1>21, <2>2 DEF ConnectionLost, Goto, broker
      <3> QED
        BY <3>1, BrokerStill DEF OwnInv, TypeOK
    <2> QED
      BY <1>21, <2>1, <2>2 DEF ConnectionLost
  <1>22. ASSUME NEW c \in Consumers, Crash(c) PROVE OwnInv' /\ PlaceInv'
    <2>1. /\ \A d \in Consumers : d # c => msg'[d] = msg[d] /\ pc'[d] = pc[d]
          /\ UNCHANGED <<published, acked, dead>>
          /\ unacked' = [unacked EXCEPT ![c] = None]
          /\ ready' = ready \cup ({unacked[c]} \ {None})
      BY <1>22 DEF Crash, Redeliver, Forget, Goto, TypeOK
    <2>2. CASE Owns(c)
      <3>1. ready' = ready \cup {unacked[c]}
        BY <2>1, <2>2 DEF Owns
      <3> QED
        BY <2>1, <2>2, <3>1, Placed
    <2>3. CASE ~Owns(c)
      <3>1. UNCHANGED <<published, broker>>
        BY <2>1, <2>3 DEF Owns, TypeOK, broker
      <3> QED
        BY <2>1, <2>3, <3>1, BrokerStill DEF OwnInv
    <2> QED
      BY <2>2, <2>3
  <1>23. ASSUME RedisFails PROVE OwnInv' /\ PlaceInv'
    BY <1>23, BrokerStill DEF RedisFails, OwnInv, local
  <1>24. ASSUME RedisRecovers PROVE OwnInv' /\ PlaceInv'
    BY <1>24, BrokerStill DEF RedisRecovers, OwnInv, local
  <1>25. ASSUME NEW e \in Events, MarkExpires(e) PROVE OwnInv' /\ PlaceInv'
    BY <1>25, BrokerStill DEF MarkExpires, OwnInv, local
  <1>26. ASSUME NEW e \in Events, AttemptsExpire(e) PROVE OwnInv' /\ PlaceInv'
    BY <1>26, BrokerStill DEF AttemptsExpire, OwnInv, local
  <1> QED
    BY <1>1, <1>2, <1>3, <1>4, <1>5, <1>6, <1>7, <1>8, <1>9, <1>10, <1>11, <1>12, <1>13, <1>14, <1>15, <1>16, <1>17, <1>18, <1>19, <1>20, <1>21, <1>22, <1>23, <1>24, <1>25, <1>26
    DEF Next, ConsumerStep, Handle, Supervise

(* Consumers between the check and the answer of the server, and between that answer
   and the mark. *)
AtSend(e) == {c \in Consumers : pc[c] = "send" /\ EventAt(c) = e}
AtMark(e) == {c \in Consumers : pc[c] = "mark" /\ EventAt(c) = e}

(* Undisturbed, Redis answers, whoever has mailed an event that is not marked yet is
   about to mark it, and once it is marked only those already past their check may
   still mail it. *)
DupInv ==
  ~disturbed =>
    /\ redisUp
    /\ \A e \in Events :
         /\ e \notin processed => mails[e] <= Cardinality(AtMark(e))
         /\ e \in processed => mails[e] + Cardinality(AtSend(e)) <= Cardinality(Consumers)

LEMMA Counts ==
  \A e : /\ IsFiniteSet(AtSend(e)) /\ Cardinality(AtSend(e)) \in Nat
         /\ IsFiniteSet(AtMark(e)) /\ Cardinality(AtMark(e)) \in Nat
         /\ Cardinality(AtMark(e)) <= Cardinality(Consumers)
         /\ Cardinality(AtMark(e)) + Cardinality(AtSend(e)) <= Cardinality(Consumers)
  <1> SUFFICES ASSUME NEW e
               PROVE  /\ IsFiniteSet(AtSend(e)) /\ Cardinality(AtSend(e)) \in Nat
                      /\ IsFiniteSet(AtMark(e)) /\ Cardinality(AtMark(e)) \in Nat
                      /\ Cardinality(AtMark(e)) <= Cardinality(Consumers)
                      /\ Cardinality(AtMark(e)) + Cardinality(AtSend(e)) <= Cardinality(Consumers)
    OBVIOUS
  <1> DEFINE S == AtSend(e)
             M == AtMark(e)
  <1>1. S \subseteq Consumers /\ M \subseteq Consumers /\ M \cap S = {}
    BY DEF AtSend, AtMark
  <1>2. IsFiniteSet(Consumers)
    BY MessagesAssumption
  <1> HIDE DEF S, M
  <1>3. IsFiniteSet(S) /\ IsFiniteSet(M) /\ IsFiniteSet(M \cup S)
    BY <1>1, <1>2, FS_Subset, FS_Union
  <1>4. Cardinality(M \cup S) <= Cardinality(Consumers)
    <2>1. M \cup S \subseteq Consumers
      BY <1>1
    <2> QED
      BY <2>1, <1>2, FS_Subset
  <1>5. /\ Cardinality(S) \in Nat /\ Cardinality(M) \in Nat /\ Cardinality(M \cap S) = 0
        /\ Cardinality(Consumers) \in Nat
    BY <1>1, <1>2, <1>3, FS_CardinalityType, FS_EmptySet
  <1>6. Cardinality(M \cup S) = Cardinality(M) + Cardinality(S) - Cardinality(M \cap S)
    BY <1>3, FS_Union
  <1>7. Cardinality(M) + Cardinality(S) <= Cardinality(Consumers)
    BY <1>4, <1>5, <1>6
  <1> QED
    BY <1>3, <1>5, <1>7 DEF S, M

LEMMA DupMeansBounded == TypeOK /\ DupInv => DuplicatesBounded
  <1> SUFFICES ASSUME TypeOK, DupInv, ~disturbed, NEW e \in Events
               PROVE  mails[e] <= Cardinality(Consumers)
    BY DEF DuplicatesBounded
  <1>1. mails[e] \in Nat /\ Cardinality(Consumers) \in Nat
    BY Caps, MessagesAssumption, FS_CardinalityType DEF TypeOK
  <1> QED
    BY <1>1, Counts DEF DupInv

LEMMA DupInit == Init => DupInv
  <1> SUFFICES ASSUME Init PROVE DupInv
    OBVIOUS
  <1>1. redisUp /\ processed = {} /\ \A e \in Events : mails[e] = 0
    BY DEF Init
  <1> QED
    BY <1>1, Counts DEF DupInv

(* A step that starts and ends nobody's sending or marking. *)
LEMMA DupStill ==
  ASSUME DupInv, UNCHANGED <<redisUp, processed, mails>> \/ disturbed', disturbed => disturbed',
         \A c \in Consumers : \/ pc'[c] = pc[c] /\ msg'[c] = msg[c]
                              \/ pc[c] \notin {"send", "mark"} /\ pc'[c] \notin {"send", "mark"}
  PROVE  DupInv'
  <1> SUFFICES ASSUME ~disturbed' PROVE DupInv'
    BY DEF DupInv
  <1>1. \A e : AtSend(e)' = AtSend(e) /\ AtMark(e)' = AtMark(e)
    BY DEF AtSend, AtMark, EventAt
  <1> QED
    BY <1>1 DEF DupInv

(* A consumer leaves its send; the mail may have been accepted. *)
LEMMA DupSent ==
  ASSUME TypeOK, DupInv, NEW c \in Consumers, pc[c] = "send",
         UNCHANGED <<redisUp, processed, disturbed, msg>>,
         \/ pc' = [pc EXCEPT ![c] = "mark"] /\ mails' = [mails EXCEPT ![EventAt(c)] = Bump(@, MailCap)]
         \/ pc' = [pc EXCEPT ![c] = "failed"] /\ mails' = mails
  PROVE  DupInv'
  <1> SUFFICES ASSUME ~disturbed PROVE DupInv'
    BY DEF DupInv
  <1>0. PICK s \in Events : s = EventAt(c)
    BY DEF TypeOK
  <1>1. s = EventAt(c) /\ mails \in [Events -> Nat]
    BY <1>0, Caps DEF TypeOK
  <1>2. redisUp
    BY DEF DupInv
  <1>3. ASSUME NEW e \in Events, e # s PROVE AtSend(e)' = AtSend(e) /\ AtMark(e)' = AtMark(e) /\ mails'[e] = mails[e]
    BY <1>1, <1>3 DEF AtSend, AtMark, EventAt, TypeOK
  <1>4. c \in AtSend(s) /\ AtSend(s)' = AtSend(s) \ {c}
    BY <1>1 DEF AtSend, EventAt, TypeOK
  <1>5. Cardinality(AtSend(s)') = Cardinality(AtSend(s)) - 1
    BY <1>4, Counts, FS_RemoveElement
  <1>6. \/ /\ AtMark(s)' = AtMark(s) \cup {c} /\ c \notin AtMark(s)
           /\ mails'[s] <= mails[s] + 1
        \/ AtMark(s)' = AtMark(s) /\ mails'[s] = mails[s]
    <2>1. CASE pc' = [pc EXCEPT ![c] = "mark"] /\ mails' = [mails EXCEPT ![EventAt(c)] = Bump(@, MailCap)]
      <3>1. AtMark(s)' = AtMark(s) \cup {c} /\ c \notin AtMark(s)
        BY <1>1, <2>1 DEF AtMark, EventAt, TypeOK
      <3>2. mails'[s] = Bump(mails[s], MailCap)
        BY <2>1, <1>1
      <3>3. mails'[s] <= mails[s] + 1
        BY <3>2, <1>1 DEF Bump
      <3> QED
        BY <3>1, <3>3
    <2>2. CASE pc' = [pc EXCEPT ![c] = "failed"] /\ mails' = mails
      BY <1>1, <2>2 DEF AtMark, EventAt, TypeOK
    <2> QED
      BY <2>1, <2>2
  <1>7. \/ Cardinality(AtMark(s)') = Cardinality(AtMark(s)) + 1 /\ mails'[s] <= mails[s] + 1
        \/ Cardinality(AtMark(s)') = Cardinality(AtMark(s)) /\ mails'[s] = mails[s]
    BY <1>6, Counts, FS_AddElement
  <1>8. mails'[s] \in Nat
    BY <1>1, <1>6, Caps, BumpRange DEF Bump
  <1>9. /\ s \notin processed => mails'[s] <= Cardinality(AtMark(s)')
        /\ s \in processed => mails'[s] + Cardinality(AtSend(s)') <= Cardinality(Consumers)
    <2>1. /\ Cardinality(AtSend(s)) \in Nat /\ Cardinality(AtMark(s)) \in Nat /\ mails[s] \in Nat
          /\ Cardinality(Consumers) \in Nat
      BY Counts, <1>1, MessagesAssumption, FS_CardinalityType
    <2>2. /\ s \notin processed => mails[s] <= Cardinality(AtMark(s))
          /\ s \in processed => mails[s] + Cardinality(AtSend(s)) <= Cardinality(Consumers)
      BY <1>1 DEF DupInv
    <2> QED
      BY <2>1, <2>2, <1>5, <1>7, <1>8
  <1>10. ASSUME NEW e \in Events
         PROVE  /\ e \notin processed => mails'[e] <= Cardinality(AtMark(e)')
                /\ e \in processed => mails'[e] + Cardinality(AtSend(e)') <= Cardinality(Consumers)
    <2>1. CASE e = s
      BY <2>1, <1>9
    <2>2. CASE e # s
      BY <2>2, <1>3 DEF DupInv
    <2> QED
      BY <2>1, <2>2
  <1> QED
    BY <1>2, <1>10 DEF DupInv

(* Passing the check is possible only while the event is not marked. *)
LEMMA DupChecked ==
  ASSUME TypeOK, DupInv, NEW c \in Consumers, CheckProcessed(c)
  PROVE  DupInv'
  <1> SUFFICES ASSUME ~disturbed PROVE DupInv'
    BY DEF DupInv, CheckProcessed, history
  <1>1. /\ redisUp /\ UNCHANGED <<redisUp, processed, mails, msg, disturbed>> /\ pc[c] = "check"
        /\ pc' = [pc EXCEPT ![c] = IF EventAt(c) \in processed THEN "ackDuplicate" ELSE "send"]
    BY DEF DupInv, CheckProcessed, Goto, redis, history
  <1>2. ASSUME NEW e \in Events PROVE AtMark(e)' = AtMark(e) /\ (e \in processed => AtSend(e)' = AtSend(e))
    BY <1>1 DEF AtMark, AtSend, EventAt, TypeOK
  <1> QED
    BY <1>1, <1>2 DEF DupInv

(* The first mark of an event: whoever mailed it so far was at its mark. *)
LEMMA DupMarked ==
  ASSUME TypeOK, DupInv, NEW c \in Consumers, MarkProcessed(c)
  PROVE  DupInv'
  <1> SUFFICES ASSUME ~disturbed PROVE DupInv'
    BY DEF DupInv, MarkProcessed, history
  <1>1. /\ redisUp /\ UNCHANGED <<redisUp, mails, msg, disturbed>> /\ pc[c] = "mark"
        /\ processed' = processed \cup {EventAt(c)}
        /\ pc' = [pc EXCEPT ![c] = "delAttempts"]
    BY DEF DupInv, MarkProcessed, Goto, history
  <1>2. ASSUME NEW e \in Events
        PROVE  /\ AtSend(e)' = AtSend(e)
               /\ e # EventAt(c) => AtMark(e)' = AtMark(e)
    BY <1>1 DEF AtMark, AtSend, EventAt, TypeOK
  <1>3. ASSUME NEW e \in Events
        PROVE  /\ e \notin processed' => mails[e] <= Cardinality(AtMark(e)')
               /\ e \in processed' => mails[e] + Cardinality(AtSend(e)') <= Cardinality(Consumers)
    <2>1. CASE e \notin processed'
      BY <2>1, <1>1, <1>2 DEF DupInv
    <2>2. CASE e \in processed
      BY <2>2, <1>1, <1>2 DEF DupInv
    <2>3. CASE e \in processed' /\ e \notin processed
      <3>1. mails[e] <= Cardinality(AtMark(e))
        BY <2>3 DEF DupInv
      <3>2. mails[e] \in Nat /\ Cardinality(Consumers) \in Nat
        BY Caps, MessagesAssumption, FS_CardinalityType DEF TypeOK
      <3>3. mails[e] + Cardinality(AtSend(e)) <= Cardinality(Consumers)
        BY <3>1, <3>2, Counts
      <3> QED
        BY <2>3, <3>3, <1>2
    <2> QED
      BY <2>1, <2>2, <2>3
  <1> QED
    BY <1>1, <1>3 DEF DupInv

(* The mark of an event expires, and its mails are counted anew: whoever is at its
   mark sets the next one. *)
LEMMA DupExpired ==
  ASSUME TypeOK, DupInv, NEW f \in Events, MarkExpires(f)
  PROVE  DupInv'
  <1> SUFFICES ASSUME ~disturbed PROVE DupInv'
    BY DEF DupInv, MarkExpires
  <1>1. /\ redisUp /\ UNCHANGED <<redisUp, pc, msg, disturbed>>
        /\ processed' = processed \ {f} /\ mails' = [mails EXCEPT ![f] = 0]
    BY DEF DupInv, MarkExpires, local
  <1>2. ASSUME NEW e \in Events PROVE AtMark(e)' = AtMark(e) /\ AtSend(e)' = AtSend(e)
    BY <1>1 DEF AtMark, AtSend, EventAt
  <1>3. f \notin processed' /\ mails'[f] = 0 /\ Cardinality(AtMark(f)) \in Nat
    BY <1>1, Counts DEF TypeOK
  <1>4. ASSUME NEW e \in Events, e # f
        PROVE  mails'[e] = mails[e] /\ (e \in processed' <=> e \in processed)
    BY <1>1, <1>4 DEF TypeOK
  <1>5. ASSUME NEW e \in Events
        PROVE  /\ e \notin processed' => mails'[e] <= Cardinality(AtMark(e)')
               /\ e \in processed' => mails'[e] + Cardinality(AtSend(e)') <= Cardinality(Consumers)
    <2>1. CASE e = f
      BY <2>1, <1>2, <1>3
    <2>2. CASE e # f
      BY <2>2, <1>2, <1>4 DEF DupInv
    <2> QED
      BY <2>1, <2>2
  <1> QED
    BY <1>1, <1>5 DEF DupInv

(* Every step keeps the number of mails of an event within the number of pods. *)
LEMMA DupStep == IInv /\ DupInv /\ [Next]_vars => DupInv'
  <1> SUFFICES ASSUME IInv, DupInv, [Next]_vars PROVE DupInv'
    OBVIOUS
  <1>0. TypeOK
    BY DEF IInv
  <1> USE <1>0 DEF redis, history, local, broker
  <1>1. CASE UNCHANGED vars
    BY <1>1, DupStill DEF vars
  <1>2. ASSUME NEW m \in Messages, Publish(m) PROVE DupInv'
    BY <1>2, DupStill DEF Publish
  <1>3. ASSUME NEW c \in Consumers, NextAttempt(c) PROVE DupInv'
    BY <1>3, DupStill DEF NextAttempt, Disturb, Goto, TypeOK
  <1>4. ASSUME NEW c \in Consumers, CheckProcessed(c) PROVE DupInv'
    BY <1>4, DupChecked DEF CheckProcessed, Goto
  <1>5. ASSUME NEW c \in Consumers, AckDuplicate(c) PROVE DupInv'
    BY <1>5, DupStill DEF AckDuplicate, Goto, TypeOK, Settle, Forget
  <1>6. ASSUME NEW c \in Consumers, SendAccepted(c) PROVE DupInv'
    <2>1. CASE disturbed
      BY <1>6, <2>1 DEF SendAccepted, DupInv
    <2>2. CASE ~disturbed
      BY <1>6, <2>2, DupSent DEF SendAccepted, Goto
    <2> QED
      BY <2>1, <2>2
  <1>7. ASSUME NEW c \in Consumers, SendFails(c) PROVE DupInv'
    BY <1>7, DupSent DEF SendFails, Goto
  <1>8. ASSUME NEW c \in Consumers, SendAnswerLost(c) PROVE DupInv'
    BY <1>8 DEF SendAnswerLost, Disturb, DupInv
  <1>9. ASSUME NEW c \in Consumers, MarkProcessed(c) PROVE DupInv'
    BY <1>9, DupMarked DEF MarkProcessed, Goto
  <1>10. ASSUME NEW c \in Consumers, DelAttempts(c) PROVE DupInv'
    BY <1>10, DupStill DEF DelAttempts, Goto, TypeOK
  <1>11. ASSUME NEW c \in Consumers, Ack(c) PROVE DupInv'
    BY <1>11, DupStill DEF Ack, Goto, TypeOK, Settle, Forget
  <1>12. ASSUME NEW c \in Consumers, HandleFailure(c) PROVE DupInv'
    BY <1>12, DupStill DEF HandleFailure, Goto, TypeOK
  <1>13. ASSUME NEW c \in Consumers, Requeue(c) PROVE DupInv'
    BY <1>13, DupStill DEF Requeue, Goto, TypeOK, Settle, Forget
  <1>14. ASSUME NEW c \in Consumers, Reject(c) PROVE DupInv'
    BY <1>14, DupStill DEF Reject, Goto, TypeOK, Settle, Forget
  <1>15. ASSUME NEW c \in Consumers, Raise(c) PROVE DupInv'
    BY <1>15, DupStill DEF Raise, Goto, TypeOK, Redeliver, Forget
  <1>16. ASSUME NEW c \in Consumers, Connect(c) PROVE DupInv'
    BY <1>16, DupStill DEF Connect, Goto, TypeOK
  <1>17. ASSUME NEW c \in Consumers, ConnectFails(c) PROVE DupInv'
    BY <1>17, DupStill DEF ConnectFails, Goto, TypeOK
  <1>18. ASSUME NEW c \in Consumers, Stop(c) PROVE DupInv'
    BY <1>18, DupStill DEF Stop, Goto, TypeOK
  <1>19. ASSUME NEW c \in Consumers, Poll(c) PROVE DupInv'
    BY <1>19, DupStill DEF Poll, Goto, TypeOK, vars
  <1>20. ASSUME NEW c \in Consumers, NEW m \in Messages, Deliver(c, m) PROVE DupInv'
    BY <1>20, DupStill DEF Deliver, Goto, TypeOK
  <1>21. ASSUME NEW c \in Consumers, ConnectionLost(c) PROVE DupInv'
    BY <1>21, DupStill DEF ConnectionLost, Goto, TypeOK
  <1>22. ASSUME NEW c \in Consumers, Crash(c) PROVE DupInv'
    BY <1>22 DEF Crash, Disturb, DupInv
  <1>23. CASE RedisFails
    BY <1>23 DEF RedisFails, Disturb, DupInv
  <1>24. CASE RedisRecovers
    BY <1>24 DEF RedisRecovers, DupInv
  <1>25. ASSUME NEW e \in Events, MarkExpires(e) PROVE DupInv'
    BY <1>25, DupExpired
  <1>26. ASSUME NEW e \in Events, AttemptsExpire(e) PROVE DupInv'
    BY <1>26, DupStill DEF AttemptsExpire
  <1> QED
    BY <1>1, <1>2, <1>3, <1>4, <1>5, <1>6, <1>7, <1>8, <1>9, <1>10, <1>11, <1>12, <1>13, <1>14, <1>15, <1>16, <1>17, <1>18, <1>19, <1>20, <1>21, <1>22, <1>23, <1>24, <1>25, <1>26
    DEF Next, ConsumerStep, Handle, Supervise

(* No fault but failing sends, and every event is published once. *)
Calm ==
  /\ Faults \subseteq {"smtp"}
  /\ \A m, n \in Messages : EventOf[m] \in Events /\ EventOf[m] = EventOf[n] => m = n

(* The attempt counter of a message's event is the number of its failed sends. *)
Counted(m) == attempts[EventOf[m]] = failed[m] /\ failed[m] < MaxRetries

(* In the hands of a consumer the counter is ahead of the failures by the attempt that
   is under way. *)
HandCounted(c) ==
  /\ pc[c] \in {"attempt", "requeue"} => Counted(msg[c])
  /\ pc[c] \in {"check", "send"} =>
       /\ attempt[c] = attempts[EventAt(c)] /\ attempts[EventAt(c)] = failed[msg[c]] + 1
       /\ failed[msg[c]] < MaxRetries
  /\ pc[c] = "failed" =>
       /\ attempt[c] = failed[msg[c]] /\ attempts[EventAt(c)] = failed[msg[c]]
       /\ failed[msg[c]] <= MaxRetries
  /\ pc[c] = "reject" /\ EventAt(c) \in Events => failed[msg[c]] = MaxRetries
  /\ pc[c] = "raised" => EventAt(c) \notin Events
  /\ pc[c] \notin {"waiting", "down"} => Owns(c)

CalmInv ==
  /\ redisUp
  /\ \A c \in Consumers : HandCounted(c)
  /\ \A m \in Messages : EventOf[m] \in Events /\ (m \notin published \/ m \in ready) => Counted(m)
  /\ DeadAfterMaxRetries

LEMMA CalmInit == Init => CalmInv
  BY RetriesAssumption DEF Init, CalmInv, HandCounted, Counted, DeadAfterMaxRetries

(* A step of the consumer that holds m changes the counts of m only. *)
LEMMA CalmHandles ==
  ASSUME TypeOK, OwnInv, PlaceInv, CalmInv,
         NEW c \in Consumers, NEW m \in Messages, Owns(c), unacked[c] = m,
         \A d \in Consumers : d # c =>
           pc'[d] = pc[d] /\ msg'[d] = msg[d] /\ attempt'[d] = attempt[d] /\ unacked'[d] = unacked[d],
         \A n \in Messages : n # m /\ EventOf[n] \in Events =>
           attempts'[EventOf[n]] = attempts[EventOf[n]] /\ failed'[n] = failed[n],
         redisUp', published' = published, HandCounted(c)',
         failed'[m] = failed[m] \/ failed'[m] <= MaxRetries,
         \/ ready' = ready
         \/ ready' = ready \cup {m} /\ (EventOf[m] \in Events => Counted(m)'),
         \/ dead' = dead
         \/ dead' = dead \cup {m} /\ (EventOf[m] \in Events => failed'[m] = MaxRetries)
  PROVE  CalmInv'
  <1>1. ASSUME NEW d \in Consumers PROVE HandCounted(d)'
    <2>1. CASE d = c
      BY <2>1
    <2>2. CASE d # c /\ ~Owns(d)
      BY <2>2 DEF CalmInv, HandCounted, Owns
    <2>3. CASE d # c /\ Owns(d)
      <3>1. msg[d] = unacked[d] /\ msg[d] # m
        BY <2>3 DEF OwnInv, PlaceInv
      <3>2. pc'[d] = pc[d] /\ msg'[d] = msg[d] /\ attempt'[d] = attempt[d] /\ unacked'[d] = unacked[d]
        BY <2>3
      <3>3. HandCounted(d)
        BY DEF CalmInv
      <3>4. msg[d] \in Messages
        BY <2>3, <3>1 DEF TypeOK, Owns
      <3>5. CASE EventOf[msg[d]] \in Events
        <4>1. attempts'[EventOf[msg[d]]] = attempts[EventOf[msg[d]]] /\ failed'[msg[d]] = failed[msg[d]]
          BY <3>1, <3>4, <3>5
        <4> QED
          BY <3>2, <3>3, <4>1 DEF HandCounted, Counted, EventAt, Owns
      <3>6. CASE EventOf[msg[d]] \notin Events
        <4>1. pc[d] \in {"waiting", "raised", "down", "reject"}
          BY <3>6 DEF TypeOK, EventAt
        <4> QED
          BY <3>2, <3>3, <3>6, <4>1 DEF HandCounted, EventAt, Owns
      <3> QED
        BY <3>5, <3>6
    <2> QED
      BY <2>1, <2>2, <2>3
  <1>2. m \in published /\ m \notin ready /\ m \notin dead
    BY DEF PlaceInv
  <1>3. ASSUME NEW n \in Messages, EventOf[n] \in Events, n \notin published' \/ n \in ready'
        PROVE  Counted(n)'
    <2>1. CASE n = m
      BY <2>1, <1>2, <1>3
    <2>2. CASE n # m
      <3>1. attempts'[EventOf[n]] = attempts[EventOf[n]] /\ failed'[n] = failed[n]
        BY <2>2, <1>3
      <3>2. Counted(n)
        BY <2>2, <1>3 DEF CalmInv
      <3> QED
        BY <3>1, <3>2 DEF Counted
    <2> QED
      BY <2>1, <2>2
  <1>4. ASSUME NEW n \in Messages, EventOf[n] \in Events
        PROVE  failed'[n] <= MaxRetries /\ (n \in dead' => failed'[n] = MaxRetries)
    <2>1. failed[n] <= MaxRetries /\ (n \in dead => failed[n] = MaxRetries)
      BY <1>4 DEF CalmInv, DeadAfterMaxRetries
    <2>2. CASE n = m
      BY <2>1, <2>2, <1>2, <1>4
    <2>3. CASE n # m
      <3>1. failed'[n] = failed[n] /\ (n \in dead' => n \in dead)
        BY <2>3, <1>4
      <3> QED
        BY <2>1, <3>1
    <2> QED
      BY <2>2, <2>3
  <1> QED
    BY <1>1, <1>3, <1>4 DEF CalmInv, DeadAfterMaxRetries

(* Every step keeps the counts, when nothing but sends can fail. *)
LEMMA CalmStep == Calm /\ IInv /\ OwnInv /\ PlaceInv /\ CalmInv /\ [Next]_vars => CalmInv'
  <1> SUFFICES ASSUME Calm, IInv, OwnInv, PlaceInv, CalmInv, [Next]_vars PROVE CalmInv'
    OBVIOUS
  <1>0. TypeOK
    BY DEF IInv
  <1> USE <1>0 DEF redis, history, local, broker
  <1>a. ASSUME NEW c \in Consumers, pc[c] \notin {"waiting", "down"}
        PROVE  Owns(c) /\ unacked[c] = msg[c] /\ msg[c] \in Messages
    <2>1. Owns(c)
      BY <1>a DEF CalmInv, HandCounted
    <2> QED
      BY <2>1 DEF OwnInv, Owns, TypeOK
  <1>b. ASSUME NEW m \in Messages, EventOf[m] \in Events,
               NEW n \in Messages, n # m, EventOf[n] \in Events
        PROVE  EventOf[n] # EventOf[m]
    BY <1>b DEF Calm
  <1>c. redisUp /\ MaxRetries \in Nat
    BY RetriesAssumption DEF CalmInv
  <1>1. CASE UNCHANGED vars
    BY <1>1 DEF vars, CalmInv, HandCounted, Counted, DeadAfterMaxRetries, EventAt, Owns
  <1>2. ASSUME NEW m \in Messages, Publish(m) PROVE CalmInv'
    BY <1>2 DEF Publish, CalmInv, HandCounted, Counted, DeadAfterMaxRetries, EventAt, Owns
  <1>3. ASSUME NEW c \in Consumers, NextAttempt(c) PROVE CalmInv'
    <2> PICK m \in Messages : m = msg[c]
      BY <1>3, <1>a DEF NextAttempt
    <2>1. Owns(c) /\ unacked[c] = m
      BY <1>3, <1>a DEF NextAttempt
    <2>2. \A d \in Consumers : d # c =>
            pc'[d] = pc[d] /\ msg'[d] = msg[d] /\ attempt'[d] = attempt[d] /\ unacked'[d] = unacked[d]
      BY <1>3 DEF NextAttempt, Goto, TypeOK
    <2>3. \A n \in Messages : n # m /\ EventOf[n] \in Events =>
            attempts'[EventOf[n]] = attempts[EventOf[n]] /\ failed'[n] = failed[n]
      BY <1>3, <1>b, <1>c DEF NextAttempt, ForgetAttempts, EventAt, TypeOK
    <2>4. redisUp' /\ UNCHANGED <<published, ready, dead>>
      BY <1>3, <1>c DEF NextAttempt, Calm
    <2>5. HandCounted(c)'
      <3>1. Counted(m) /\ attempts[EventOf[m]] \in Nat /\ EventOf[m] \in Events
        BY <1>3 DEF NextAttempt, CalmInv, HandCounted, TypeOK, EventAt
      <3>2. Bump(attempts[EventOf[m]], MaxRetries) = attempts[EventOf[m]] + 1
        BY <3>1, <1>c DEF Bump, Counted
      <3>3. /\ attempts'[EventOf[m]] = attempts[EventOf[m]] + 1
            /\ attempt'[c] = attempts[EventOf[m]] + 1
            /\ pc'[c] = "check" /\ msg'[c] = m /\ failed' = failed /\ unacked' = unacked
        BY <1>3, <1>c, <3>1, <3>2 DEF NextAttempt, Goto, Calm, EventAt, TypeOK
      <3> QED
        BY <3>1, <3>3, <2>1 DEF HandCounted, Counted, EventAt, Owns
    <2>6. failed'[m] = failed[m]
      BY <1>3 DEF NextAttempt
    <2> QED
      BY <2>1, <2>2, <2>3, <2>4, <2>5, <2>6, CalmHandles
  <1>4. ASSUME NEW c \in Consumers, CheckProcessed(c) PROVE CalmInv'
    <2> PICK m \in Messages : m = msg[c]
      BY <1>4, <1>a DEF CheckProcessed
    <2>1. Owns(c) /\ unacked[c] = m
      BY <1>4, <1>a DEF CheckProcessed
    <2>2. \A d \in Consumers : d # c =>
            pc'[d] = pc[d] /\ msg'[d] = msg[d] /\ attempt'[d] = attempt[d] /\ unacked'[d] = unacked[d]
      BY <1>4 DEF CheckProcessed, Goto, TypeOK
    <2>3. \A n \in Messages : n # m /\ EventOf[n] \in Events =>
            attempts'[EventOf[n]] = attempts[EventOf[n]] /\ failed'[n] = failed[n]
      BY <1>4, <1>b, <1>c DEF CheckProcessed, ForgetAttempts, EventAt, TypeOK
    <2>4. redisUp' /\ UNCHANGED <<published, ready, dead>>
      BY <1>4, <1>c DEF CheckProcessed, Calm
    <2>5. HandCounted(c)'
      <3>1. HandCounted(c)
        BY DEF CalmInv
      <3>2. /\ pc[c] = "check" /\ pc'[c] \in {"ackDuplicate", "send"}
            /\ UNCHANGED <<attempts, attempt, msg, failed, unacked>>
        BY <1>4 DEF CheckProcessed, Goto, TypeOK
      <3> QED
        BY <3>1, <3>2, <2>1 DEF HandCounted, EventAt, Owns
    <2>6. failed'[m] = failed[m]
      BY <1>4 DEF CheckProcessed
    <2> QED
      BY <2>1, <2>2, <2>3, <2>4, <2>5, <2>6, CalmHandles
  <1>5. ASSUME NEW c \in Consumers, AckDuplicate(c) PROVE CalmInv'
    <2> PICK m \in Messages : m = msg[c]
      BY <1>5, <1>a DEF AckDuplicate
    <2>1. Owns(c) /\ unacked[c] = m
      BY <1>5, <1>a DEF AckDuplicate
    <2>2. \A d \in Consumers : d # c =>
            pc'[d] = pc[d] /\ msg'[d] = msg[d] /\ attempt'[d] = attempt[d] /\ unacked'[d] = unacked[d]
      BY <1>5 DEF AckDuplicate, Goto, TypeOK, Settle, Forget
    <2>3. \A n \in Messages : n # m /\ EventOf[n] \in Events =>
            attempts'[EventOf[n]] = attempts[EventOf[n]] /\ failed'[n] = failed[n]
      BY <1>5, <1>b, <1>c DEF AckDuplicate, ForgetAttempts, EventAt, TypeOK, Settle, Forget
    <2>4. redisUp' /\ UNCHANGED <<published, ready, dead>>
      BY <1>5, <1>c, <2>1 DEF AckDuplicate, Settle
    <2>5. HandCounted(c)'
      <3>1. pc'[c] = "waiting"
        BY <1>5, <2>1 DEF AckDuplicate, Settle, Goto, TypeOK
      <3> QED
        BY <3>1 DEF HandCounted
    <2>6. failed'[m] = failed[m]
      BY <1>5 DEF AckDuplicate, Settle, Forget
    <2> QED
      BY <2>1, <2>2, <2>3, <2>4, <2>5, <2>6, CalmHandles
  <1>6. ASSUME NEW c \in Consumers, SendAccepted(c) PROVE CalmInv'
    <2> PICK m \in Messages : m = msg[c]
      BY <1>6, <1>a DEF SendAccepted
    <2>1. Owns(c) /\ unacked[c] = m
      BY <1>6, <1>a DEF SendAccepted
    <2>2. \A d \in Consumers : d # c =>
            pc'[d] = pc[d] /\ msg'[d] = msg[d] /\ attempt'[d] = attempt[d] /\ unacked'[d] = unacked[d]
      BY <1>6 DEF SendAccepted, Goto, TypeOK
    <2>3. \A n \in Messages : n # m /\ EventOf[n] \in Events =>
            attempts'[EventOf[n]] = attempts[EventOf[n]] /\ failed'[n] = failed[n]
      BY <1>6, <1>b, <1>c DEF SendAccepted, ForgetAttempts, EventAt, TypeOK
    <2>4. redisUp' /\ UNCHANGED <<published, ready, dead>>
      BY <1>6, <1>c DEF SendAccepted, Calm
    <2>5. HandCounted(c)'
      <3>1. pc'[c] = "mark" /\ unacked' = unacked
        BY <1>6 DEF SendAccepted, Goto, TypeOK
      <3> QED
        BY <3>1, <2>1 DEF HandCounted, Owns
    <2>6. failed'[m] = failed[m]
      BY <1>6 DEF SendAccepted
    <2> QED
      BY <2>1, <2>2, <2>3, <2>4, <2>5, <2>6, CalmHandles
  <1>7. ASSUME NEW c \in Consumers, SendFails(c) PROVE CalmInv'
    <2> PICK m \in Messages : m = msg[c]
      BY <1>7, <1>a DEF SendFails
    <2>1. Owns(c) /\ unacked[c] = m
      BY <1>7, <1>a DEF SendFails
    <2>2. \A d \in Consumers : d # c =>
            pc'[d] = pc[d] /\ msg'[d] = msg[d] /\ attempt'[d] = attempt[d] /\ unacked'[d] = unacked[d]
      BY <1>7 DEF SendFails, Goto, TypeOK
    <2>3. \A n \in Messages : n # m /\ EventOf[n] \in Events =>
            attempts'[EventOf[n]] = attempts[EventOf[n]] /\ failed'[n] = failed[n]
      BY <1>7, <1>b, <1>c DEF SendFails, ForgetAttempts, EventAt, TypeOK
    <2>4. redisUp' /\ UNCHANGED <<published, ready, dead>>
      BY <1>7, <1>c DEF SendFails, Calm
    <2>5. HandCounted(c)'
      <3>1. HandCounted(c)
        BY DEF CalmInv
      <3>2. failed[m] \in Nat /\ failed[m] < MaxRetries
        BY <1>7, <3>1, Caps DEF SendFails, HandCounted, TypeOK
      <3>3. Bump(failed[m], FailCap) = failed[m] + 1
        BY <3>2, <1>c DEF Bump, FailCap
      <3>4. /\ pc[c] = "send" /\ pc'[c] = "failed" /\ failed'[m] = failed[m] + 1
            /\ UNCHANGED <<attempts, attempt, msg, unacked>>
        BY <1>7, <3>3 DEF SendFails, Goto, TypeOK
      <3> QED
        BY <3>1, <3>2, <3>4, <1>c, <2>1 DEF HandCounted, EventAt, Owns
    <2>6. failed'[m] <= MaxRetries
      <3>1. pc'[c] = "failed" /\ msg'[c] = m
        BY <1>7 DEF SendFails, Goto, TypeOK
      <3> QED
        BY <2>5, <3>1 DEF HandCounted
    <2> QED
      BY <2>1, <2>2, <2>3, <2>4, <2>5, <2>6, CalmHandles
  <1>8. ASSUME NEW c \in Consumers, SendAnswerLost(c) PROVE CalmInv'
    BY <1>8 DEF SendAnswerLost, Calm
  <1>9. ASSUME NEW c \in Consumers, MarkProcessed(c) PROVE CalmInv'
    <2> PICK m \in Messages : m = msg[c]
      BY <1>9, <1>a DEF MarkProcessed
    <2>1. Owns(c) /\ unacked[c] = m
      BY <1>9, <1>a DEF MarkProcessed
    <2>2. \A d \in Consumers : d # c =>
            pc'[d] = pc[d] /\ msg'[d] = msg[d] /\ attempt'[d] = attempt[d] /\ unacked'[d] = unacked[d]
      BY <1>9 DEF MarkProcessed, Goto, TypeOK
    <2>3. \A n \in Messages : n # m /\ EventOf[n] \in Events =>
            attempts'[EventOf[n]] = attempts[EventOf[n]] /\ failed'[n] = failed[n]
      BY <1>9, <1>b, <1>c DEF MarkProcessed, ForgetAttempts, EventAt, TypeOK
    <2>4. redisUp' /\ UNCHANGED <<published, ready, dead>>
      BY <1>9, <1>c DEF MarkProcessed, Calm
    <2>5. HandCounted(c)'
      <3>1. pc'[c] = "delAttempts" /\ unacked' = unacked
        BY <1>9 DEF MarkProcessed, Goto, TypeOK
      <3> QED
        BY <3>1, <2>1 DEF HandCounted, Owns
    <2>6. failed'[m] = failed[m]
      BY <1>9 DEF MarkProcessed
    <2> QED
      BY <2>1, <2>2, <2>3, <2>4, <2>5, <2>6, CalmHandles
  <1>10. ASSUME NEW c \in Consumers, DelAttempts(c) PROVE CalmInv'
    <2> PICK m \in Messages : m = msg[c]
      BY <1>10, <1>a DEF DelAttempts
    <2>1. Owns(c) /\ unacked[c] = m
      BY <1>10, <1>a DEF DelAttempts
    <2>2. \A d \in Consumers : d # c =>
            pc'[d] = pc[d] /\ msg'[d] = msg[d] /\ attempt'[d] = attempt[d] /\ unacked'[d] = unacked[d]
      BY <1>10 DEF DelAttempts, Goto, TypeOK
    <2>3. \A n \in Messages : n # m /\ EventOf[n] \in Events =>
            attempts'[EventOf[n]] = attempts[EventOf[n]] /\ failed'[n] = failed[n]
      BY <1>10, <1>b, <1>c DEF DelAttempts, ForgetAttempts, EventAt, TypeOK
    <2>4. redisUp' /\ UNCHANGED <<published, ready, dead>>
      BY <1>10, <1>c DEF DelAttempts, Calm
    <2>5. HandCounted(c)'
      <3>1. pc'[c] = "ack" /\ unacked' = unacked
        BY <1>10 DEF DelAttempts, Goto, TypeOK
      <3> QED
        BY <3>1, <2>1 DEF HandCounted, Owns
    <2>6. failed'[m] = failed[m]
      BY <1>10 DEF DelAttempts
    <2> QED
      BY <2>1, <2>2, <2>3, <2>4, <2>5, <2>6, CalmHandles
  <1>11. ASSUME NEW c \in Consumers, Ack(c) PROVE CalmInv'
    <2> PICK m \in Messages : m = msg[c]
      BY <1>11, <1>a DEF Ack
    <2>1. Owns(c) /\ unacked[c] = m
      BY <1>11, <1>a DEF Ack
    <2>2. \A d \in Consumers : d # c =>
            pc'[d] = pc[d] /\ msg'[d] = msg[d] /\ attempt'[d] = attempt[d] /\ unacked'[d] = unacked[d]
      BY <1>11 DEF Ack, Goto, TypeOK, Settle, Forget
    <2>3. \A n \in Messages : n # m /\ EventOf[n] \in Events =>
            attempts'[EventOf[n]] = attempts[EventOf[n]] /\ failed'[n] = failed[n]
      BY <1>11, <1>b, <1>c DEF Ack, ForgetAttempts, EventAt, TypeOK, Settle, Forget
    <2>4. redisUp' /\ UNCHANGED <<published, ready, dead>>
      BY <1>11, <1>c, <2>1 DEF Ack, Settle
    <2>5. HandCounted(c)'
      <3>1. pc'[c] = "waiting"
        BY <1>11, <2>1 DEF Ack, Settle, Goto, TypeOK
      <3> QED
        BY <3>1 DEF HandCounted
    <2>6. failed'[m] = failed[m]
      BY <1>11 DEF Ack, Settle, Forget
    <2> QED
      BY <2>1, <2>2, <2>3, <2>4, <2>5, <2>6, CalmHandles
  <1>12. ASSUME NEW c \in Consumers, HandleFailure(c) PROVE CalmInv'
    <2> PICK m \in Messages : m = msg[c]
      BY <1>12, <1>a DEF HandleFailure
    <2>1. Owns(c) /\ unacked[c] = m
      BY <1>12, <1>a DEF HandleFailure
    <2>2. \A d \in Consumers : d # c =>
            pc'[d] = pc[d] /\ msg'[d] = msg[d] /\ attempt'[d] = attempt[d] /\ unacked'[d] = unacked[d]
      BY <1>12 DEF HandleFailure, Goto, TypeOK
    <2>3. \A n \in Messages : n # m /\ EventOf[n] \in Events =>
            attempts'[EventOf[n]] = attempts[EventOf[n]] /\ failed'[n] = failed[n]
      BY <1>12, <1>b, <1>c DEF HandleFailure, ForgetAttempts, EventAt, TypeOK
    <2>4. redisUp' /\ UNCHANGED <<published, ready, dead>>
      BY <1>12, <1>c DEF HandleFailure, Calm
    <2>5. HandCounted(c)'
      <3>1. HandCounted(c) /\ failed[m] \in Nat
        BY Caps DEF CalmInv, TypeOK
      <3>2. /\ attempt[c] = failed[m] /\ attempts[EventOf[m]] = failed[m] /\ failed[m] <= MaxRetries
        BY <1>12, <3>1 DEF HandleFailure, HandCounted, EventAt
      <3>3. UNCHANGED <<attempt, msg, failed, unacked>>
        BY <1>12 DEF HandleFailure
      <3>4. CASE attempt[c] >= MaxRetries
        <4>1. pc'[c] = "reject" /\ failed[m] = MaxRetries
          BY <1>12, <3>1, <3>2, <3>4, <1>c DEF HandleFailure, Goto, TypeOK
        <4> QED
          BY <3>3, <4>1, <2>1 DEF HandCounted, Owns
      <3>5. CASE ~(attempt[c] >= MaxRetries)
        <4>1. pc'[c] = "requeue" /\ failed[m] < MaxRetries /\ attempts' = attempts
          BY <1>12, <3>1, <3>2, <3>5, <1>c DEF HandleFailure, Goto, TypeOK
        <4> QED
          BY <3>2, <3>3, <4>1, <2>1 DEF HandCounted, Counted, Owns
      <3> QED
        BY <3>4, <3>5
    <2>6. failed'[m] = failed[m]
      BY <1>12 DEF HandleFailure
    <2> QED
      BY <2>1, <2>2, <2>3, <2>4, <2>5, <2>6, CalmHandles
  <1>13. ASSUME NEW c \in Consumers, Requeue(c) PROVE CalmInv'
    <2> PICK m \in Messages : m = msg[c]
      BY <1>13, <1>a DEF Requeue
    <2>1. Owns(c) /\ unacked[c] = m
      BY <1>13, <1>a DEF Requeue
    <2>2. \A d \in Consumers : d # c =>
            pc'[d] = pc[d] /\ msg'[d] = msg[d] /\ attempt'[d] = attempt[d] /\ unacked'[d] = unacked[d]
      BY <1>13 DEF Requeue, Goto, TypeOK, Settle, Forget
    <2>3. \A n \in Messages : n # m /\ EventOf[n] \in Events =>
            attempts'[EventOf[n]] = attempts[EventOf[n]] /\ failed'[n] = failed[n]
      BY <1>13, <1>b, <1>c DEF Requeue, ForgetAttempts, EventAt, TypeOK, Settle, Forget
    <2>4. /\ redisUp' /\ UNCHANGED <<published, dead>>
          /\ ready' = ready \cup {m} /\ (EventOf[m] \in Events => Counted(m)')
      BY <1>13, <1>c, <2>1 DEF Requeue, Settle, CalmInv, HandCounted, Counted
    <2>5. HandCounted(c)'
      <3>1. pc'[c] = "waiting"
        BY <1>13, <2>1 DEF Requeue, Settle, Goto, TypeOK
      <3> QED
        BY <3>1 DEF HandCounted
    <2>6. failed'[m] = failed[m]
      BY <1>13 DEF Requeue, Settle, Forget
    <2> QED
      BY <2>1, <2>2, <2>3, <2>4, <2>5, <2>6, CalmHandles
  <1>14. ASSUME NEW c \in Consumers, Reject(c) PROVE CalmInv'
    <2> PICK m \in Messages : m = msg[c]
      BY <1>14, <1>a DEF Reject
    <2>1. Owns(c) /\ unacked[c] = m
      BY <1>14, <1>a DEF Reject
    <2>2. \A d \in Consumers : d # c =>
            pc'[d] = pc[d] /\ msg'[d] = msg[d] /\ attempt'[d] = attempt[d] /\ unacked'[d] = unacked[d]
      BY <1>14 DEF Reject, Goto, TypeOK, Settle, Forget
    <2>3. \A n \in Messages : n # m /\ EventOf[n] \in Events =>
            attempts'[EventOf[n]] = attempts[EventOf[n]] /\ failed'[n] = failed[n]
      BY <1>14, <1>b, <1>c DEF Reject, ForgetAttempts, EventAt, TypeOK, Settle, Forget
    <2>4. /\ redisUp' /\ UNCHANGED <<published, ready>>
          /\ dead' = dead \cup {m} /\ (EventOf[m] \in Events => failed'[m] = MaxRetries)
      BY <1>14, <1>c, <2>1 DEF Reject, Settle, CalmInv, HandCounted, EventAt
    <2>5. HandCounted(c)'
      <3>1. pc'[c] = "waiting"
        BY <1>14, <2>1 DEF Reject, Settle, Goto, TypeOK
      <3> QED
        BY <3>1 DEF HandCounted
    <2>6. failed'[m] = failed[m]
      BY <1>14 DEF Reject, Settle, Forget
    <2> QED
      BY <2>1, <2>2, <2>3, <2>4, <2>5, <2>6, CalmHandles
  <1>15. ASSUME NEW c \in Consumers, Raise(c) PROVE CalmInv'
    <2> PICK m \in Messages : m = msg[c]
      BY <1>15, <1>a DEF Raise
    <2>1. Owns(c) /\ unacked[c] = m
      BY <1>15, <1>a DEF Raise
    <2>2. \A d \in Consumers : d # c =>
            pc'[d] = pc[d] /\ msg'[d] = msg[d] /\ attempt'[d] = attempt[d] /\ unacked'[d] = unacked[d]
      BY <1>15 DEF Raise, Goto, TypeOK, Redeliver, Forget
    <2>3. \A n \in Messages : n # m /\ EventOf[n] \in Events =>
            attempts'[EventOf[n]] = attempts[EventOf[n]] /\ failed'[n] = failed[n]
      BY <1>15, <1>b, <1>c DEF Raise, ForgetAttempts, EventAt, TypeOK, Redeliver, Forget
    <2>4. /\ redisUp' /\ UNCHANGED <<published, dead>>
          /\ ready' = ready \cup {m} /\ EventOf[m] \notin Events
      BY <1>15, <1>c, <2>1 DEF Raise, Redeliver, CalmInv, HandCounted, EventAt, Owns
    <2>5. HandCounted(c)'
      <3>1. pc'[c] = "down"
        BY <1>15 DEF Raise, Goto, TypeOK
      <3> QED
        BY <3>1 DEF HandCounted
    <2>6. failed'[m] = failed[m]
      BY <1>15 DEF Raise, Redeliver, Forget
    <2> QED
      BY <2>1, <2>2, <2>3, <2>4, <2>5, <2>6, CalmHandles
  <1>16. ASSUME NEW c \in Consumers, Connect(c) PROVE CalmInv'
    <2>1. /\ UNCHANGED <<redisUp, attempts, failed, published, ready, unacked, dead, msg, attempt>>
          /\ pc'[c] = "waiting" /\ \A d \in Consumers : d # c => pc'[d] = pc[d]
      BY <1>16 DEF Connect, Goto, TypeOK
    <2>2. ASSUME NEW d \in Consumers PROVE HandCounted(d)'
      BY <2>1 DEF CalmInv, HandCounted, Counted, EventAt, Owns
    <2> QED
      BY <2>1, <2>2 DEF CalmInv, Counted, DeadAfterMaxRetries
  <1>17. ASSUME NEW c \in Consumers, ConnectFails(c) PROVE CalmInv'
    BY <1>17 DEF ConnectFails, Calm
  <1>18. ASSUME NEW c \in Consumers, Stop(c) PROVE CalmInv'
    BY <1>18 DEF Stop, Calm
  <1>19. ASSUME NEW c \in Consumers, ConnectionLost(c) PROVE CalmInv'
    BY <1>19 DEF ConnectionLost, Calm
  <1>20. ASSUME NEW c \in Consumers, Crash(c) PROVE CalmInv'
    BY <1>20 DEF Crash, Calm
  <1>21. ASSUME NEW c \in Consumers, Poll(c) PROVE CalmInv'
    BY <1>21, <1>1 DEF Poll
  <1>22. ASSUME NEW c \in Consumers, NEW m \in Messages, Deliver(c, m) PROVE CalmInv'
    <2>1. /\ UNCHANGED <<redisUp, attempts, failed, published, dead>>
          /\ m \in ready /\ ready' \subseteq ready
          /\ unacked'[c] = m /\ msg'[c] = m
          /\ \A d \in Consumers : d # c =>
               pc'[d] = pc[d] /\ msg'[d] = msg[d] /\ attempt'[d] = attempt[d] /\ unacked'[d] = unacked[d]
      BY <1>22 DEF Deliver, Goto, TypeOK
    <2>2. \/ pc'[c] = "attempt" /\ EventOf[m] \in Events
          \/ pc'[c] \in {"reject", "raised"} /\ EventOf[m] \notin Events
      BY <1>22, NothingAssumption DEF Deliver, Goto, TypeOK
    <2>3. EventOf[m] \in Events => Counted(m)
      BY <2>1 DEF CalmInv
    <2>4. m # None
      BY NothingAssumption
    <2>5. HandCounted(c)'
      BY <2>1, <2>2, <2>3, <2>4 DEF HandCounted, Counted, EventAt, Owns
    <2>6. ASSUME NEW d \in Consumers, d # c PROVE HandCounted(d)'
      BY <2>1, <2>6 DEF CalmInv, HandCounted, Counted, EventAt, Owns
    <2> QED
      BY <2>1, <2>5, <2>6 DEF CalmInv, Counted, DeadAfterMaxRetries
  <1>23. CASE RedisFails
    BY <1>23 DEF RedisFails, Calm
  <1>24. CASE RedisRecovers
    BY <1>24 DEF RedisRecovers, CalmInv
  <1>25. ASSUME NEW e \in Events, MarkExpires(e) PROVE CalmInv'
    BY <1>25 DEF MarkExpires, Calm
  <1>26. ASSUME NEW e \in Events, AttemptsExpire(e) PROVE CalmInv'
    BY <1>26 DEF AttemptsExpire, Calm
  <1> QED
    BY <1>1, <1>2, <1>3, <1>4, <1>5, <1>6, <1>7, <1>8, <1>9, <1>10, <1>11, <1>12, <1>13, <1>14, <1>15, <1>16, <1>17, <1>18, <1>19, <1>20, <1>21, <1>22, <1>23, <1>24, <1>25, <1>26
    DEF Next, ConsumerStep, Handle, Supervise

LEMMA Invariance == Spec => []IInv
  <1>1. IInv /\ [Next]_vars => IInv'
    BY TypeStep, MailedStep DEF IInv
  <1> QED
    BY <1>1, InitInv, PTL DEF Spec

(* An acknowledged message has been mailed, under every combination of crashes,
   lost connections, Redis outages and SMTP failures, for any number of pods
   and messages (consumer.py:60-98). *)
THEOREM NoWelcomeMailIsLost == Spec => []AckedMeansMailed
  <1>1. IInv => AckedMeansMailed
    BY DEF IInv, MailedInv
  <1> QED
    BY <1>1, Invariance, PTL

(* A published message is in exactly one place, for any number of pods and messages
   and under all faults: a handler whose message was taken away settles nothing
   (rabbitmq.py:149-164, consumer.py:37-58). *)
THEOREM NoMessageIsLostOrDoubled == Spec => []MessagesConserved
  <1>1. Init => OwnInv /\ PlaceInv
    BY PlaceInit
  <1>2. IInv /\ OwnInv /\ PlaceInv /\ [Next]_vars => (OwnInv /\ PlaceInv)'
    BY PlaceStep
  <1>3. IInv /\ PlaceInv => MessagesConserved
    BY PlaceMeansConserved DEF IInv
  <1> QED
    BY <1>1, <1>2, <1>3, Invariance, PTL DEF Spec

(* Without crashes, Redis outages and lost SMTP answers an event is mailed at most
   once per pod between two expirations of its mark, for any number of pods, copies,
   lost connections and expirations (consumer.py:74-88, :109-113). *)
THEOREM AtMostOneMailPerPod == Spec => []DuplicatesBounded
  <1>1. IInv /\ DupInv /\ [Next]_vars => DupInv'
    BY DupStep
  <1>2. IInv /\ DupInv => DuplicatesBounded
    BY DupMeansBounded DEF IInv
  <1> QED
    BY <1>1, <1>2, DupInit, Invariance, PTL DEF Spec

(* When nothing but sends can fail and no event is published twice, exactly MaxRetries
   failures bring a message to the dead letter queue, and no message fails more often
   (consumer.py:90-98). *)
THEOREM RetriesAreExact == Calm => (Spec => []DeadAfterMaxRetries)
  <1> SUFFICES ASSUME Calm PROVE Spec => []DeadAfterMaxRetries
    OBVIOUS
  <1>1. IInv /\ OwnInv /\ PlaceInv /\ CalmInv /\ [Next]_vars => (OwnInv /\ PlaceInv /\ CalmInv)'
    BY PlaceStep, CalmStep
  <1>2. CalmInv => DeadAfterMaxRetries
    BY DEF CalmInv
  <1> QED
    BY <1>1, <1>2, PlaceInit, CalmInit, Invariance, PTL DEF Spec

(* A consumer handles only messages that carry an event. *)
THEOREM TypeCorrectness == Spec => []TypeOK
  <1>1. IInv => TypeOK
    BY DEF IInv
  <1> QED
    BY <1>1, Invariance, PTL
=============================================================================
