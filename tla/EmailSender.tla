----------------------------- MODULE EmailSender -----------------------------
(***************************************************************************)
(* The email worker (service_notice/email_sender/src): it consumes the     *)
(* queue "email", hands each message to SendGrid and acknowledges it. A    *)
(* message that SendGrid refuses goes to the queue "email-dlq", whose      *)
(* messages return to "email" after RETRY_INTERVAL_MS; the copy that is    *)
(* published there counts its retries, and carries no expiration.          *)
(*                                                                         *)
(* Copies of a message with the same number of retries are alike, so that  *)
(* a queue is the number of its copies <<message, retries>>. Only a copy   *)
(* with no retries can expire: it is the one that the ETL published.       *)
(***************************************************************************)
EXTENDS Integers, FiniteSets

CONSTANTS
    Messages,       \* message ids, published once each
    NoCopy,         \* "no delivery is being processed"
    PriorityOf,     \* PriorityOf[m]: the priority that the ETL set
    ExpireAt,       \* ExpireAt[m]: when the first copy expires
    Malformed,      \* messages that models.EmailNotification refuses
    MaxRetries,     \* settings.MAX_RETRIES
    MaxTime,        \* bound of the clock
    MaxCrashes      \* bound of the kills

ASSUME EmailAssumption ==
    /\ PriorityOf \in [Messages -> Nat]
    /\ ExpireAt \in [Messages -> Nat]
    /\ Malformed \subseteq Messages
    /\ MaxRetries \in Nat
    /\ MaxTime \in Nat
    /\ MaxCrashes \in Nat

Copies == Messages \X (0 .. MaxRetries)

ASSUME NoCopyAssumption == NoCopy \notin Copies

VARIABLES
    \* RabbitMQ
    email,          \* email[c]: the ready copies c in the queue "email"
    dlq,            \* dlq[c]: the copies c in the queue "email-dlq"
    \* the worker
    pc,             \* what it does next
    held,           \* the unacknowledged copy
    \* SendGrid and the environment
    mails,          \* mails[m]: how often SendGrid accepted the message
    now,            \* the clock
    crashes,        \* how often the worker was killed
    \* the history
    published,      \* messages that the ETL published
    attempts,       \* attempts[m]: calls of sender.send for the message
    exhausted,      \* messages given up after their last retry
    expired,        \* messages whose first copy expired in the queue
    raised          \* messages whose sending raised another exception

broker == <<email, dlq>>
worker == <<pc, held>>
environment == <<mails, now, crashes>>
history == <<published, attempts, exhausted, expired, raised>>
vars == <<broker, worker, environment, history>>

PC == {"down", "idle", "got", "resend", "ack", "raise"}

TypeOK ==
    /\ email \in [Copies -> Nat]
    /\ dlq \in [Copies -> Nat]
    /\ pc \in PC
    /\ held \in Copies \cup {NoCopy}
    /\ held = NoCopy <=> pc \in {"down", "idle"}
    /\ mails \in [Messages -> Nat]
    /\ now \in Nat
    /\ crashes \in Nat
    /\ published \subseteq Messages
    /\ attempts \in [Messages -> Nat]
    /\ exhausted \subseteq Messages
    /\ expired \subseteq Messages
    /\ raised \subseteq Messages

Init ==
    /\ email = [c \in Copies |-> 0]
    /\ dlq = [c \in Copies |-> 0]
    /\ pc = "down"
    /\ held = NoCopy
    /\ mails = [m \in Messages |-> 0]
    /\ now = 0
    /\ crashes = 0
    /\ published = {}
    /\ attempts = [m \in Messages |-> 0]
    /\ exhausted = {}
    /\ expired = {}
    /\ raised = {}

Put(q, c) == [q EXCEPT ![c] = @ + 1]
Take(q, c) == [q EXCEPT ![c] = @ - 1]

-----------------------------------------------------------------------------
(***************************************************************************)
(* RabbitMQ.                                                               *)
(***************************************************************************)

\* The ETL publishes the message with what is left of its time.
Publish(m) ==
    /\ m \notin published
    /\ now <= ExpireAt[m]
    /\ published' = published \cup {m}
    /\ email' = Put(email, <<m, 0>>)
    /\ UNCHANGED <<dlq, worker, environment, attempts, exhausted, expired, raised>>

IsExpired(c) == c[2] = 0 /\ ExpireAt[c[1]] <= now

\* A copy that has expired is dropped: "email" has no dead-letter exchange.
Expire(c) ==
    /\ email[c] > 0
    /\ IsExpired(c)
    /\ email' = Take(email, c)
    /\ expired' = expired \cup {c[1]}
    /\ UNCHANGED <<dlq, worker, environment, published, attempts, exhausted, raised>>

\* Slip: "email-dlq" is its own dead-letter queue.
DeadLetterToItself(c) ==
    /\ dlq[c] > 0
    /\ UNCHANGED vars

\* x-message-ttl of "email-dlq" is over: the copy returns to "email".
DeadLetter(c) ==
    /\ dlq[c] > 0
    /\ dlq' = Take(dlq, c)
    /\ email' = Put(email, c)
    /\ UNCHANGED <<worker, environment, history>>

\* x-max-priority: no ready copy with a higher priority.
IsFirst(c) == \A d \in Copies : email[d] > 0 => PriorityOf[d[1]] <= PriorityOf[c[1]]

\* prefetch_count = 1: the next copy, when the worker holds none.
Deliver(c) ==
    /\ pc = "idle"
    /\ email[c] > 0
    /\ ~IsExpired(c)
    /\ IsFirst(c)
    /\ email' = Take(email, c)
    /\ held' = c
    /\ pc' = "got"
    /\ UNCHANGED <<dlq, environment, history>>

-----------------------------------------------------------------------------
(***************************************************************************)
(* The callback send_email.                                                *)
(***************************************************************************)

\* The worker connects and starts to consume.
Start ==
    /\ pc = "down"
    /\ pc' = "idle"
    /\ UNCHANGED <<broker, held, environment, history>>

\* parse_raw raises a ValidationError, which is logged.
ParseFails ==
    /\ pc = "got"
    /\ held[1] \in Malformed
    /\ pc' = "ack"
    /\ UNCHANGED <<broker, held, environment, history>>

\* A call of sender.send.
Attempt ==
    /\ pc = "got"
    /\ held[1] \notin Malformed
    /\ attempts' = [attempts EXCEPT ![held[1]] = @ + 1]

\* SendGrid answers 202.
SendAccepted ==
    /\ Attempt
    /\ mails' = [mails EXCEPT ![held[1]] = @ + 1]
    /\ pc' = "ack"
    /\ UNCHANGED <<broker, held, now, crashes, published, exhausted, expired, raised>>

\* Slip: the last retry is not made.
LastRetryEarly(c) == c[2] + 1 >= MaxRetries
\* check_to_resend: the retries are used up.
LastRetry(c) == c[2] = MaxRetries

\* SendGrid answers with an error: check_to_resend gives the notice back.
SendRefused ==
    /\ Attempt
    /\ ~LastRetry(held)
    /\ pc' = "resend"
    /\ UNCHANGED <<broker, held, environment, published, exhausted, expired, raised>>

\* The same when it was the last retry: check_to_resend gives None.
SendGivenUp ==
    /\ Attempt
    /\ LastRetry(held)
    /\ exhausted' = exhausted \cup {held[1]}
    /\ pc' = "ack"
    /\ UNCHANGED <<broker, held, environment, published, expired, raised>>

\* sendgrid_client.send raises what is no HTTPError: the network failed, and
\* SendGrid may have accepted the mail or not.
SendRaises ==
    /\ Attempt
    /\ mails' \in {mails, [mails EXCEPT ![held[1]] = @ + 1]}
    /\ raised' = raised \cup {held[1]}
    /\ pc' = "raise"
    /\ UNCHANGED <<broker, held, now, crashes, published, exhausted, expired>>

\* notice.retries += 1
OneMore(c) == <<c[1], c[2] + 1>>

\* The notice with one more retry is published to "email-dlq".
Resend ==
    /\ pc = "resend"
    /\ dlq' = Put(dlq, OneMore(held))
    /\ pc' = "ack"
    /\ UNCHANGED <<email, held, environment, history>>

\* Slip: the callback returns without basic_ack.
AckForgotten ==
    /\ pc = "ack"
    /\ pc' = "idle"
    /\ UNCHANGED <<broker, held, environment, history>>

\* finally: basic_ack.
Ack ==
    /\ pc = "ack"
    /\ pc' = "idle"
    /\ held' = NoCopy
    /\ UNCHANGED <<broker, environment, history>>

\* Slip: basic_ack is not in a finally block.
AfterRaiseRequeue == Put(email, held)
\* finally: the message is acknowledged although sending it raised.
AfterRaise == email

\* The exception leaves start_consuming and ends the process.
AckAndDie ==
    /\ pc = "raise"
    /\ email' = AfterRaise
    /\ pc' = "down"
    /\ held' = NoCopy
    /\ UNCHANGED <<dlq, environment, history>>

\* Slip: auto_ack, the broker keeps no copy of what it delivered.
RedeliveredNothing == email
\* The broker puts the unacknowledged copy back as it was delivered.
Redelivered == IF held = NoCopy THEN email ELSE Put(email, held)

\* The worker is killed or loses its connection, at any point.
Crash ==
    /\ pc # "down"
    /\ crashes < MaxCrashes
    /\ crashes' = crashes + 1
    /\ email' = Redelivered
    /\ pc' = "down"
    /\ held' = NoCopy
    /\ UNCHANGED <<dlq, mails, now, history>>

Tick ==
    /\ now < MaxTime
    /\ now' = now + 1
    /\ UNCHANGED <<broker, worker, mails, crashes, history>>

-----------------------------------------------------------------------------
\* The steps of the worker while it is up.
WorkerStep ==
    \/ \E c \in Copies : Deliver(c)
    \/ ParseFails
    \/ SendAccepted
    \/ SendRefused
    \/ SendGivenUp
    \/ SendRaises
    \/ Resend
    \/ Ack
    \/ AckAndDie

Next ==
    \/ WorkerStep
    \/ Start
    \/ \E m \in Messages : Publish(m)
    \/ \E c \in Copies : Expire(c) \/ DeadLetter(c)
    \/ Crash
    \/ Tick

Spec == Init /\ [][Next]_vars

\* The worker never waits for ever in its callback, and RabbitMQ drops what has
\* expired and moves a copy whose time in "email-dlq" is over. Nothing restarts the worker
\* (docker-compose.yaml gives email_sender no restart policy).
FairSpec ==
    /\ Spec
    /\ WF_vars(WorkerStep)
    /\ \A c \in Copies : WF_vars(DeadLetter(c)) /\ WF_vars(Expire(c))

-----------------------------------------------------------------------------
(***************************************************************************)
(* What the worker promises.                                               *)
(***************************************************************************)

CopiesOf(m) == {c \in Copies : c[1] = m}

\* The copies of a message in a queue, one by one: <<c, i>> is the i-th copy c.
InQueue(q, m) == UNION {{c} \X (1 .. q[c]) : c \in CopiesOf(m)}

\* How many copies of a message are still in a queue or in the worker.
Live(m) ==
    Cardinality(InQueue(email, m)) + Cardinality(InQueue(dlq, m))
        + (IF held \in CopiesOf(m) /\ pc \in {"got", "resend"} THEN 1 ELSE 0)

\* There is one.
Alive(m) ==
    \E c \in CopiesOf(m) :
        email[c] > 0 \/ dlq[c] > 0 \/ (held = c /\ pc \in {"got", "resend"})

\* A message is mailed twice only if the worker was killed between a step and
\* its acknowledgement: neither a retry nor an exception makes a second copy
\* of a message that was accepted.
MailsNeedCrash == \A m \in Messages : mails[m] + Live(m) <= 1 + crashes

\* A published message is still on its way, or it was mailed, given up after
\* its retries, expired, refused by the parser, or lost with an exception.
Accounted ==
    \A m \in published \ Malformed :
        \/ Alive(m)
        \/ mails[m] > 0
        \/ m \in exhausted \cup expired \cup raised

\* A message is given up only after MaxRetries retries, and no message is tried
\* more often than that, once more for every kill, which can redeliver it.
RetryBudget ==
    \A m \in Messages :
        /\ m \in exhausted => attempts[m] > MaxRetries
        /\ attempts[m] <= (MaxRetries + 1) * (1 + crashes)

\* Every message leaves the queues in the end if the worker is eventually up
\* for good: the way through "email-dlq" is no endless loop.
Leaves ==
    <>[](pc # "down") => \A m \in Messages : (m \in published) ~> ~Alive(m)

-----------------------------------------------------------------------------
\* senders.py, BaseSender.send: "on errors returns the notice for sending it
\* again". An exception that is no HTTPError leaves send instead, and the
\* message is acknowledged: it is lost.
ErrorsAreRetried ==
    \A m \in raised : Alive(m) \/ mails[m] > 0 \/ m \in exhausted \/ pc = "raise"

=============================================================================
