------------------------ MODULE WelcomeNotifications ------------------------
(***************************************************************************)
(* The user.registered pipeline: the durable RabbitMQ queue with its dead  *)
(* letter queue (App/common/queue/rabbitmq.py), the UserRegisteredConsumer *)
(* of every pod (App/modules/notifications/consumer.py) under its          *)
(* supervising loop, the idempotency and attempt keys it keeps in Redis,   *)
(* and the SMTP server.                                                    *)
(*                                                                         *)
(* A consumer holds one unacknowledged message at a time (prefetch 1) and  *)
(* makes one call to Redis, SMTP or the broker per step.                   *)
(***************************************************************************)
EXTENDS Naturals, FiniteSets

CONSTANTS
  Consumers,    \* one per pod
  Messages,     \* numbered in the order they are published
  Events,
  EventOf,      \* eventId of a message; None: no usable event in it
  MaxRetries,   \* RABBITMQ_MAX_RETRIES
  MaxFailures,  \* RABBITMQ_CONSUMER_MAX_FAILURES
  Faults,       \* what the environment may do
  None,
  Poison        \* in the place of an eventId: the handler cannot even look at it

ASSUME MessagesAssumption == Messages \subseteq Nat /\ IsFiniteSet(Consumers)
ASSUME EventOfAssumption  == EventOf \in [Messages -> Events \cup {None, Poison}]
ASSUME RetriesAssumption  == MaxRetries \in Nat \ {0} /\ MaxFailures \in Nat \ {0}
ASSUME NothingAssumption  == None \notin Messages \cup Events /\ Poison \notin Events \cup {None}

VARIABLES
  published,   \* messages the exchange has confirmed
  ready,       \* messages waiting in the queue
  unacked,     \* the broker's view: the message a consumer's channel holds
  acked, dead, \* messages acknowledged; messages in the dead letter queue
  redisUp,
  attempts,    \* events:attempts:<eventId>, 0 when there is no key
  processed,   \* events with a key events:processed:<eventId>
  pc, msg, attempt,   \* of a consumer: next call, message at hand, its attempt
  failures,    \* of a consumer: exceptions that ended its consume since it started
  mails,       \* history: welcome mails the SMTP server accepted for an event since
               \*          its processed key last expired, while nothing has disturbed
  mailed,      \* history: events a mail was ever accepted for
  failed,      \* history: failed sends of a message
  disturbed    \* history: a crash, a Redis outage or a lost SMTP answer occurred

broker == <<ready, unacked, acked, dead>>
redis  == <<redisUp, attempts, processed>>
local  == <<pc, msg, attempt, failures>>
history == <<mails, mailed, failed, disturbed>>
vars == <<published, broker, redis, local, history>>

(* Counters saturate: a larger value is never told apart from these. *)
MailCap == Cardinality(Consumers) + 1
FailCap == MaxRetries + 1
Bump(n, cap) == IF n < cap THEN n + 1 ELSE n

Labels == {"waiting", "attempt", "check", "ackDuplicate", "send", "mark", "delAttempts",
           "ack", "failed", "requeue", "reject", "raised", "down"}

Init ==
  /\ published = {} /\ ready = {} /\ acked = {} /\ dead = {}
  /\ unacked = [c \in Consumers |-> None]
  /\ redisUp = TRUE
  /\ attempts = [e \in Events |-> 0]
  /\ processed = {}
  /\ pc = [c \in Consumers |-> "waiting"]
  /\ msg = [c \in Consumers |-> None]
  /\ attempt = [c \in Consumers |-> 0]
  /\ failures = [c \in Consumers |-> 0]
  /\ mails = [e \in Events |-> 0]
  /\ mailed = {}
  /\ failed = [m \in Messages |-> 0]
  /\ disturbed = FALSE

Goto(c, label) == pc' = [pc EXCEPT ![c] = label]
EventAt(c) == EventOf[msg[c]]

(* The handler's local variables end with it. *)
Forget(c) == msg' = [msg EXCEPT ![c] = None] /\ attempt' = [attempt EXCEPT ![c] = 0]

(* The channel still owns the delivery it was given. *)
Owns(c) == unacked[c] # None

-----------------------------------------------------------------------------
(* The broker *)

Publish(m) ==
  /\ m \notin published
  /\ \A n \in Messages : n < m => n \in published
  /\ published' = published \cup {m}
  /\ ready' = ready \cup {m}
  /\ UNCHANGED <<unacked, acked, dead, redis, local, history>>

(* Faulty variant: the content is not looked at before it is processed. *)
DeliverUnchecked(c, m) ==
  /\ pc[c] = "waiting"
  /\ m \in ready
  /\ \A n \in ready : m <= n
  /\ ready' = ready \ {m}
  /\ unacked' = [unacked EXCEPT ![c] = m]
  /\ msg' = [msg EXCEPT ![c] = m]
  /\ Goto(c, "attempt")
  /\ UNCHANGED <<published, acked, dead, redis, attempt, failures, history>>

(* The head of the queue; a requeued message returns to its place.  A poison (a body
   that is no UTF-8 or no object, an attempt that is no number) raises before the
   handler's try and before the attempt is counted. *)
Deliver(c, m) ==
  /\ pc[c] = "waiting"
  /\ m \in ready
  /\ \A n \in ready : m <= n
  /\ ready' = ready \ {m}
  /\ unacked' = [unacked EXCEPT ![c] = m]
  /\ msg' = [msg EXCEPT ![c] = m]
  /\ \/ EventOf[m] \in Events /\ Goto(c, "attempt")
     \/ EventOf[m] = None /\ Goto(c, "reject")
     \/ EventOf[m] = Poison /\ Goto(c, "raised")
  /\ UNCHANGED <<published, acked, dead, redis, attempt, failures, history>>

(* process_data_events returns with nothing to do. *)
Poll(c) == pc[c] = "waiting" /\ ready = {} /\ UNCHANGED vars

(* basic_ack and basic_nack: on a channel that was lost they raise. *)
Settle(c, settled, queue) ==
  /\ IF Owns(c)
     THEN /\ queue' = queue \cup {settled}
          /\ unacked' = [unacked EXCEPT ![c] = None]
          /\ Goto(c, "waiting")
     ELSE /\ UNCHANGED <<queue, unacked>>
          /\ Goto(c, "raised")
  /\ Forget(c)
  /\ UNCHANGED <<published, redis, failures, history>>

-----------------------------------------------------------------------------
(* handle_message *)

(* Faulty variant: the attempt is always the one in the message. *)
AttemptOfMetadata(c) ==
  /\ pc[c] = "attempt"
  /\ attempt' = [attempt EXCEPT ![c] = 1]
  /\ Goto(c, "check")
  /\ UNCHANGED <<published, broker, redis, msg, failures, history>>

(* A disturbance ends the count of an event's mails. *)
Disturb == disturbed' = TRUE /\ mails' = [e \in Events |-> 0]

(* _next_attempt: INCR, then EXPIRE; without Redis the attempt is the 1 that
   the publisher put into the metadata. *)
NextAttempt(c) ==
  LET next == Bump(attempts[EventAt(c)], MaxRetries)
  IN /\ pc[c] = "attempt"
     /\ IF redisUp
        THEN /\ attempts' = [attempts EXCEPT ![EventAt(c)] = next]
             /\ \/ attempt' = [attempt EXCEPT ![c] = next] /\ UNCHANGED <<redisUp, disturbed, mails>>
                \/ /\ "redis" \in Faults      \* EXPIRE fails
                   /\ attempt' = [attempt EXCEPT ![c] = 1]
                   /\ redisUp' = FALSE
                   /\ Disturb
        ELSE /\ attempt' = [attempt EXCEPT ![c] = 1]
             /\ UNCHANGED <<attempts, redisUp, disturbed, mails>>
     /\ Goto(c, "check")
     /\ UNCHANGED <<published, broker, processed, msg, failures, mailed, failed>>

(* Faulty variant: the event is claimed before its mail is sent. *)
CheckAndClaim(c) ==
  /\ pc[c] = "check"
  /\ IF redisUp /\ EventAt(c) \in processed
     THEN Goto(c, "ackDuplicate") /\ UNCHANGED processed
     ELSE Goto(c, "send") /\ processed' = processed \cup {EventAt(c)}
  /\ UNCHANGED <<published, broker, redisUp, attempts, msg, attempt, failures, history>>

(* Faulty variant: a message whose attempts are used up is rejected unsent. *)
RejectUnsent(c) ==
  /\ pc[c] = "check"
  /\ \/ redisUp /\ EventAt(c) \in processed /\ Goto(c, "ackDuplicate")
     \/ EventAt(c) \notin processed /\ attempt[c] < MaxRetries /\ Goto(c, "send")
     \/ EventAt(c) \notin processed /\ attempt[c] >= MaxRetries /\ Goto(c, "reject")
     \/ ~redisUp /\ Goto(c, "send")
  /\ UNCHANGED <<published, broker, redis, msg, attempt, failures, history>>

(* _is_processed: an outage reads as "not processed". *)
CheckProcessed(c) ==
  /\ pc[c] = "check"
  /\ Goto(c, IF redisUp /\ EventAt(c) \in processed THEN "ackDuplicate" ELSE "send")
  /\ UNCHANGED <<published, broker, redis, msg, attempt, failures, history>>

AckDuplicate(c) ==
  /\ pc[c] = "ackDuplicate"
  /\ Settle(c, msg[c], acked)
  /\ UNCHANGED <<ready, dead>>

(* The SMTP server accepts the mail of the event at hand. *)
Mailing(c) == mailed' = mailed \cup {EventAt(c)}

SendAccepted(c) ==
  /\ pc[c] = "send"
  /\ Mailing(c)
  /\ mails' = IF disturbed THEN mails ELSE [mails EXCEPT ![EventAt(c)] = Bump(@, MailCap)]
  /\ Goto(c, "mark")
  /\ UNCHANGED <<published, broker, redis, msg, attempt, failures, failed, disturbed>>

SendFails(c) ==
  /\ pc[c] = "send"
  /\ "smtp" \in Faults
  /\ failed' = [failed EXCEPT ![msg[c]] = Bump(@, FailCap)]
  /\ Goto(c, "failed")
  /\ UNCHANGED <<published, broker, redis, msg, attempt, failures, mails, mailed, disturbed>>

(* The server took the mail, the client saw an error. *)
SendAnswerLost(c) ==
  /\ pc[c] = "send"
  /\ "answer" \in Faults
  /\ Mailing(c)
  /\ failed' = [failed EXCEPT ![msg[c]] = Bump(@, FailCap)]
  /\ Disturb
  /\ Goto(c, "failed")
  /\ UNCHANGED <<published, broker, redis, msg, attempt, failures>>

(* Faulty variant: the event is not marked. *)
SkipMark(c) ==
  /\ pc[c] = "mark"
  /\ Goto(c, "delAttempts")
  /\ UNCHANGED <<published, broker, redis, msg, attempt, failures, history>>

MarkProcessed(c) ==
  /\ pc[c] = "mark"
  /\ processed' = IF redisUp THEN processed \cup {EventAt(c)} ELSE processed
  /\ Goto(c, "delAttempts")
  /\ UNCHANGED <<published, broker, redisUp, attempts, msg, attempt, failures, history>>

ForgetAttempts(c) ==
  attempts' = IF redisUp THEN [attempts EXCEPT ![EventAt(c)] = 0] ELSE attempts

DelAttempts(c) ==
  /\ pc[c] = "delAttempts"
  /\ ForgetAttempts(c)
  /\ Goto(c, "ack")
  /\ UNCHANGED <<published, broker, redisUp, processed, msg, attempt, failures, history>>

(* The ack is inside the try: if it raises, the message counts as failed; a
   connection whose loss pika has not noticed takes it silently. *)
Ack(c) ==
  /\ pc[c] = "ack"
  /\ \/ Settle(c, msg[c], acked)
     \/ /\ ~Owns(c)
        /\ Goto(c, "failed")
        /\ UNCHANGED <<published, unacked, acked, redis, msg, attempt, failures, history>>
  /\ UNCHANGED <<ready, dead>>

(* Faulty variant: one attempt too few. *)
GiveUpEarly(c) ==
  /\ pc[c] = "failed"
  /\ IF attempt[c] >= MaxRetries - 1
     THEN ForgetAttempts(c) /\ Goto(c, "reject")
     ELSE Goto(c, "requeue") /\ UNCHANGED attempts
  /\ UNCHANGED <<published, broker, redisUp, processed, msg, attempt, failures, history>>

(* except Exception: after the last attempt the counter is deleted and the
   message rejected, otherwise it is requeued. *)
HandleFailure(c) ==
  /\ pc[c] = "failed"
  /\ IF attempt[c] >= MaxRetries
     THEN ForgetAttempts(c) /\ Goto(c, "reject")
     ELSE Goto(c, "requeue") /\ UNCHANGED attempts
  /\ UNCHANGED <<published, broker, redisUp, processed, msg, attempt, failures, history>>

(* Faulty variant: a copy is published for the retry before the message is settled. *)
RequeueCopy(c) ==
  /\ pc[c] = "requeue"
  /\ ready' = ready \cup {msg[c]}
  /\ unacked' = [unacked EXCEPT ![c] = None]
  /\ Goto(c, IF Owns(c) THEN "waiting" ELSE "raised")
  /\ Forget(c)
  /\ UNCHANGED <<published, acked, dead, redis, failures, history>>

Requeue(c) ==
  /\ pc[c] = "requeue"
  /\ Settle(c, msg[c], ready)
  /\ UNCHANGED <<acked, dead>>

Reject(c) ==
  /\ pc[c] = "reject"
  /\ Settle(c, msg[c], dead)
  /\ UNCHANGED <<ready, acked>>

-----------------------------------------------------------------------------
(* _run and consume: the supervising loop *)

Redeliver(c) ==
  /\ ready' = ready \cup ({unacked[c]} \ {None})
  /\ unacked' = [unacked EXCEPT ![c] = None]

(* The last failure ends the process, and its container is started anew. *)
CountFailure(c) ==
  failures' = [failures EXCEPT ![c] = IF @ + 1 >= MaxFailures THEN 0 ELSE @ + 1]

(* An exception leaves consume: the connection is closed, the broker takes the
   message back, and the failure is counted. *)
Raise(c) ==
  /\ pc[c] = "raised"
  /\ Redeliver(c)
  /\ Forget(c)
  /\ CountFailure(c)
  /\ Goto(c, "down")
  /\ UNCHANGED <<published, acked, dead, redis, history>>

Connect(c) ==
  /\ pc[c] = "down"
  /\ Goto(c, "waiting")
  /\ UNCHANGED <<published, broker, redis, msg, attempt, failures, history>>

-----------------------------------------------------------------------------
(* The environment *)

(* Missed heartbeats (the handler blocks the connection's thread): the broker
   takes the message back while the handler goes on.  Without a message,
   process_data_events raises. *)
ConnectionLost(c) ==
  /\ "connection" \in Faults
  /\ \/ Owns(c) /\ Redeliver(c) /\ UNCHANGED pc
     \/ pc[c] = "waiting" /\ Goto(c, "raised") /\ UNCHANGED <<ready, unacked>>
  /\ UNCHANGED <<published, acked, dead, redis, msg, attempt, failures, history>>

(* The broker cannot be reached. *)
ConnectFails(c) ==
  /\ "connection" \in Faults
  /\ pc[c] = "down"
  /\ CountFailure(c)
  /\ UNCHANGED <<published, broker, redis, pc, msg, attempt, history>>

(* stop: consume returns between two messages, a new pod takes the place. *)
Stop(c) ==
  /\ "stop" \in Faults
  /\ pc[c] = "waiting"
  /\ Goto(c, "down")
  /\ failures' = [failures EXCEPT ![c] = 0]
  /\ UNCHANGED <<published, broker, redis, msg, attempt, history>>

Crash(c) ==
  /\ "crash" \in Faults
  /\ pc[c] # "down"
  /\ Redeliver(c)
  /\ Forget(c)
  /\ Goto(c, "down")
  /\ failures' = [failures EXCEPT ![c] = 0]
  /\ Disturb
  /\ UNCHANGED <<published, acked, dead, redis, mailed, failed>>

RedisFails ==
  /\ "redis" \in Faults
  /\ redisUp
  /\ redisUp' = FALSE
  /\ Disturb
  /\ UNCHANGED <<published, broker, attempts, processed, local, mailed, failed>>

RedisRecovers ==
  /\ ~redisUp
  /\ redisUp' = TRUE
  /\ \/ UNCHANGED <<attempts, processed>>
     \/ attempts' = [e \in Events |-> 0] /\ processed' = {}
  /\ UNCHANGED <<published, broker, local, history>>

(* Both keys live 24 hours: the processed key from the first mark of the event
   (set nx), the attempts key from its last attempt. *)
MarkExpires(e) ==
  /\ "expiry" \in Faults
  /\ e \in processed
  /\ processed' = processed \ {e}
  /\ mails' = [mails EXCEPT ![e] = 0]
  /\ UNCHANGED <<published, broker, redisUp, attempts, local, mailed, failed, disturbed>>

AttemptsExpire(e) ==
  /\ "expiry" \in Faults
  /\ attempts[e] # 0
  /\ attempts' = [attempts EXCEPT ![e] = 0]
  /\ UNCHANGED <<published, broker, redisUp, processed, local, history>>

-----------------------------------------------------------------------------
Handle(c) ==
  \/ NextAttempt(c)
  \/ CheckProcessed(c)
  \/ AckDuplicate(c)
  \/ SendAccepted(c)
  \/ SendFails(c)
  \/ SendAnswerLost(c)
  \/ MarkProcessed(c)
  \/ DelAttempts(c)
  \/ Ack(c)
  \/ HandleFailure(c)
  \/ Requeue(c)
  \/ Reject(c)

Supervise(c) == Raise(c) \/ Connect(c)

ConsumerStep(c) == Handle(c) \/ Supervise(c) \/ Poll(c) \/ \E m \in Messages : Deliver(c, m)

Next ==
  \/ \E m \in Messages : Publish(m)
  \/ \E c \in Consumers :
       \/ ConsumerStep(c)
       \/ ConnectionLost(c) \/ ConnectFails(c) \/ Stop(c) \/ Crash(c)
  \/ RedisFails
  \/ RedisRecovers
  \/ \E e \in Events : MarkExpires(e) \/ AttemptsExpire(e)

Spec == Init /\ [][Next]_vars

(* Every consumer thread keeps running, and the broker keeps delivering to a
   waiting consumer: SMTP and broker calls have timeouts.  Nothing is assumed
   of the SMTP server, nor that Redis comes back. *)
FairSpec == Spec /\ \A c \in Consumers : WF_vars(ConsumerStep(c))

-----------------------------------------------------------------------------
(* Properties *)

(* Type invariant; a consumer inside handle_message has a message with an event. *)
TypeOK ==
  /\ published \subseteq Messages /\ ready \subseteq Messages
  /\ acked \subseteq Messages /\ dead \subseteq Messages
  /\ unacked \in [Consumers -> Messages \cup {None}]
  /\ redisUp \in BOOLEAN
  /\ attempts \in [Events -> 0..MaxRetries]
  /\ processed \subseteq Events
  /\ pc \in [Consumers -> Labels]
  /\ msg \in [Consumers -> Messages \cup {None}]
  /\ attempt \in [Consumers -> 0..MaxRetries]
  /\ failures \in [Consumers -> 0..(MaxFailures - 1)]
  /\ mails \in [Events -> 0..MailCap]
  /\ mailed \subseteq Events
  /\ failed \in [Messages -> 0..FailCap]
  /\ disturbed \in BOOLEAN
  /\ \A c \in Consumers :
       pc[c] \notin {"waiting", "raised", "down", "reject"} => msg[c] \in Messages /\ EventAt(c) \in Events

(* An acknowledged message is gone from the broker: whatever fails, and however
   the copies of an event and their consumers interleave, its welcome mail has
   been accepted by the SMTP server (consumer.py:74-88). *)
AckedMeansMailed == \A m \in acked : EventOf[m] \in Events \cap mailed

(* As long as Redis answers, no consumer dies and no SMTP answer is lost, an event is
   mailed at most once per pod until its mark expires, and again at most once per pod
   until the next mark does, however often it is published, redelivered or taken away
   from a running handler: whoever sends marks the event before taking the next
   message (consumer.py:81-88, :109-113). *)
DuplicatesBounded == ~disturbed => \A e \in Events : mails[e] <= Cardinality(Consumers)

(* No message fails more than MaxRetries times, and only one that has failed so often
   is dead-lettered, apart from those without an event (consumer.py:90-98).  Holds
   while deliveries are not lost and every event is published once. *)
DeadAfterMaxRetries ==
  \A m \in Messages : EventOf[m] \in Events =>
    failed[m] <= MaxRetries /\ (m \in dead => failed[m] = MaxRetries)

(* The broker has every published message in exactly one place: the queue, one
   consumer's channel, the acknowledged or the dead ones.  Whatever handlers do with
   a message that was taken from them, it is neither lost nor settled twice
   (rabbitmq.py:149-164, consumer.py:37-58). *)
MessagesConserved ==
  /\ published = ready \cup acked \cup dead \cup ({unacked[c] : c \in Consumers} \ {None})
  /\ ready \cap acked = {} /\ ready \cap dead = {} /\ acked \cap dead = {}
  /\ \A c \in Consumers : Owns(c) =>
       /\ unacked[c] \notin ready \cup acked \cup dead
       /\ \A d \in Consumers \ {c} : unacked[d] # unacked[c]

(* Every published message is eventually acknowledged or dead-lettered, unless it is
   a poison or behind one: retries end, and neither a failing message nor a poison
   further back, which makes the pods exit again and again, holds the others up. *)
EventuallySettled ==
  \A m \in Messages :
    (\A n \in Messages : n <= m => EventOf[n] # Poison) =>
      (m \in published ~> m \in acked \cup dead)

(* The pipeline as its publisher sees it. *)
Place == [m \in Messages |-> IF m \in acked THEN "delivered"
                             ELSE IF m \in dead THEN "dead"
                             ELSE IF m \in published THEN "pending" ELSE "unpublished"]
Troubled == {m \in Messages : failed[m] >= 1}

Outbox == INSTANCE MailOutbox WITH place <- Place, mailed <- mailed, troubled <- Troubled

(* The pods, with their queue, their Redis keys and all that fails, implement an
   outbox.  A message is settled once and for good, delivered only after its event
   was mailed, and, although the counter of attempts counts deliveries of the event
   and starts over when a rejection is lost, dead-lettered only after a send of this
   very message has failed (consumer.py:60-98, :116-127). *)
ImplementsOutbox == Outbox!Spec

-----------------------------------------------------------------------------
(* Claims of the documentation that the code does not meet *)

(* README_LAB8.md:457: a repeated event with the same eventId does not send a
   second mail.  Two consumers both check before either marks. *)
OneMailPerEvent == \A e \in Events : mails[e] <= 1

(* README_LAB8.md:456: after 3 failed attempts the message gets into the dead
   letter queue (here: or is delivered after all).  With Redis down every
   delivery is attempt 1, so an SMTP server that keeps failing is retried for
   ever. *)
RetriesEnd == \A m \in Messages : failed[m] >= MaxRetries ~> m \in acked \cup dead
=============================================================================
