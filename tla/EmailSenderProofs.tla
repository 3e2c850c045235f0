------------------------- MODULE EmailSenderProofs -------------------------
(***************************************************************************)
(* Proofs about EmailSender for any messages, priorities, expiries and     *)
(* number of retries: its type, that no message vanishes, and that mails   *)
(* and calls of SendGrid are paid for, by the message and by the kills.    *)
(***************************************************************************)
EXTENDS EmailSender, FiniteSetTheorems, TLAPS

\* A copy that goes to "email-dlq" has a retry left, so that the copy with one
\* more is one that check_to_resend still knows how to stop.
ResendFits == pc = "resend" => held[2] < MaxRetries

EmailInv == TypeOK /\ ResendFits /\ Accounted

-----------------------------------------------------------------------------
LEMMA PutTake ==
    ASSUME NEW q \in [Copies -> Nat], NEW c \in Copies
    PROVE  /\ Put(q, c) \in [Copies -> Nat] /\ Put(q, c)[c] > 0
           /\ \A d \in Copies : Put(q, c)[d] >= q[d]
           /\ q[c] > 0 => Take(q, c) \in [Copies -> Nat]
           /\ \A d \in Copies \ {c} : Take(q, c)[d] = q[d]
BY DEF Put, Take

LEMMA CopyParts ==
    ASSUME NEW c \in Copies
    PROVE  c[1] \in Messages /\ c[2] \in 0 .. MaxRetries /\ c \in CopiesOf(c[1])
BY DEF Copies, CopiesOf

\* The three ways a copy can be alive.
LEMMA AliveBy ==
    ASSUME NEW c \in Copies
    PROVE  /\ email[c] > 0 => Alive(c[1])
           /\ dlq[c] > 0 => Alive(c[1])
           /\ held = c /\ pc \in {"got", "resend"} => Alive(c[1])
BY CopyParts DEF Alive

\* Everybody stays accounted for when who was alive is alive or has a reason.
LEMMA AccountedKept ==
    ASSUME TypeOK, TypeOK', Accounted, published' = published,
           \A m \in Messages : mails'[m] >= mails[m],
           exhausted \subseteq exhausted', expired \subseteq expired', raised \subseteq raised',
           \A m \in Messages \ Malformed : Alive(m) =>
               Alive(m)' \/ mails'[m] > 0 \/ m \in exhausted' \cup expired' \cup raised'
    PROVE  Accounted'
<1> SUFFICES ASSUME NEW m \in published \ Malformed
             PROVE  Alive(m)' \/ mails'[m] > 0 \/ m \in exhausted' \cup expired' \cup raised'
  BY DEF Accounted
<1>1. m \in Messages /\ mails[m] \in Nat /\ mails'[m] \in Nat
  BY DEF TypeOK
<1> QED
  BY <1>1 DEF Accounted

LEMMA InitInv == Init => EmailInv
<1> SUFFICES ASSUME Init PROVE EmailInv
  OBVIOUS
<1>1. TypeOK
  BY DEF Init, TypeOK, PC
<1> QED
  BY <1>1 DEF Init, EmailInv, ResendFits, Accounted

\* A step that only moves copies keeps those alive that it does not take.
LEMMA AliveKept ==
    ASSUME NEW c \in Copies,
           \A d \in Copies \ {c} :
               /\ email[d] > 0 => email'[d] > 0
               /\ dlq[d] > 0 => dlq'[d] > 0
               /\ held = d /\ pc \in {"got", "resend"} => held' = d /\ pc' \in {"got", "resend"},
           Alive(c[1])' \/ mails'[c[1]] > 0 \/ c[1] \in exhausted' \cup expired' \cup raised' \cup Malformed
    PROVE  \A m \in Messages \ Malformed : Alive(m) =>
               Alive(m)' \/ mails'[m] > 0 \/ m \in exhausted' \cup expired' \cup raised'
<1> SUFFICES ASSUME NEW m \in Messages \ Malformed, Alive(m)
             PROVE  Alive(m)' \/ mails'[m] > 0 \/ m \in exhausted' \cup expired' \cup raised'
  OBVIOUS
<1>1. PICK d \in CopiesOf(m) :
        email[d] > 0 \/ dlq[d] > 0 \/ (held = d /\ pc \in {"got", "resend"})
  BY DEF Alive
<1>2. d \in Copies /\ d[1] = m
  BY <1>1 DEF CopiesOf
<1>3. CASE d = c
  BY <1>2, <1>3
<1>4. CASE d # c
  <2>1. email'[d] > 0 \/ dlq'[d] > 0 \/ (held' = d /\ pc' \in {"got", "resend"})
    BY <1>1, <1>2, <1>4
  <2> QED
    BY <1>1, <2>1 DEF Alive
<1> QED
  BY <1>3, <1>4

\* What the primed queues and the primed worker make alive.
LEMMA AliveNext ==
    ASSUME NEW c \in Copies,
           email'[c] > 0 \/ dlq'[c] > 0 \/ (held' = c /\ pc' \in {"got", "resend"})
    PROVE  Alive(c[1])'
BY CopyParts DEF Alive

-----------------------------------------------------------------------------
\* The broker's steps.
LEMMA StepBroker ==
    ASSUME EmailInv,
           \/ \E m \in Messages : Publish(m)
           \/ \E c \in Copies : Expire(c) \/ DeadLetter(c) \/ Deliver(c)
    PROVE  EmailInv'
<1> USE DEF EmailInv
<1>1. ASSUME NEW m \in Messages, Publish(m) PROVE EmailInv'
  <2> DEFINE c == <<m, 0>>
  <2>1. c \in Copies /\ c[1] = m
    BY EmailAssumption DEF Copies
  <2>2. /\ email' = Put(email, c) /\ published' = published \cup {m}
        /\ UNCHANGED <<dlq, pc, held, mails, now, crashes, attempts, exhausted, expired, raised>>
    BY <1>1 DEF Publish, worker, environment
  <2> HIDE DEF c
  <2>3. email' \in [Copies -> Nat] /\ email'[c] > 0 /\ \A d \in Copies : email'[d] >= email[d]
    BY <2>1, <2>2, PutTake DEF TypeOK
  <2>4. TypeOK'
    BY <2>2, <2>3 DEF TypeOK
  <2>5. Accounted'
    <3>1. Alive(m)'
      BY <2>1, <2>3, AliveNext
    <3>2. ASSUME NEW l \in Messages, Alive(l) PROVE Alive(l)'
      BY <2>2, <2>3, <3>2 DEF Alive, CopiesOf, TypeOK
    <3> QED
      BY <2>2, <3>1, <3>2 DEF Accounted, TypeOK
  <2> QED
    BY <2>2, <2>4, <2>5 DEF ResendFits
<1>2. ASSUME NEW c \in Copies, Expire(c) PROVE EmailInv'
  <2>1. /\ email' = Take(email, c) /\ email[c] > 0 /\ expired' = expired \cup {c[1]}
        /\ UNCHANGED <<dlq, pc, held, mails, now, crashes, published, attempts, exhausted, raised>>
    BY <1>2 DEF Expire, worker, environment
  <2>2. TypeOK'
    BY <2>1, PutTake, CopyParts DEF TypeOK
  <2>3. \A d \in Copies \ {c} : email'[d] = email[d]
    BY <2>1, PutTake DEF TypeOK
  <2>4. Accounted'
    BY <2>1, <2>2, <2>3, AliveKept, AccountedKept DEF TypeOK
  <2> QED
    BY <2>1, <2>2, <2>4 DEF ResendFits
<1>3. ASSUME NEW c \in Copies, DeadLetter(c) PROVE EmailInv'
  <2>1. /\ dlq' = Take(dlq, c) /\ dlq[c] > 0 /\ email' = Put(email, c)
        /\ UNCHANGED <<pc, held, mails, now, crashes, published, attempts, exhausted, expired, raised>>
    BY <1>3 DEF DeadLetter, worker, environment, history
  <2>2. TypeOK'
    BY <2>1, PutTake DEF TypeOK
  <2>3. /\ \A d \in Copies \ {c} : dlq'[d] = dlq[d]
        /\ \A d \in Copies : email'[d] >= email[d] /\ email[d] \in Nat /\ email'[d] \in Nat
        /\ email'[c] > 0
    BY <2>1, <2>2, PutTake DEF TypeOK
  <2>4. Alive(c[1])'
    BY <2>3, AliveNext
  <2>5. \A d \in Copies \ {c} : email[d] > 0 => email'[d] > 0
    BY <2>3
  <2>6. Accounted'
    BY <2>1, <2>2, <2>3, <2>4, <2>5, AliveKept, AccountedKept DEF TypeOK
  <2> QED
    BY <2>1, <2>2, <2>6 DEF ResendFits
<1>4. ASSUME NEW c \in Copies, Deliver(c) PROVE EmailInv'
  <2>1. /\ email' = Take(email, c) /\ email[c] > 0 /\ held' = c /\ pc = "idle" /\ pc' = "got"
        /\ UNCHANGED <<dlq, mails, now, crashes, published, attempts, exhausted, expired, raised>>
    BY <1>4 DEF Deliver, environment, history
  <2>2. TypeOK'
    BY <2>1, PutTake, NoCopyAssumption DEF TypeOK, PC
  <2>3. \A d \in Copies \ {c} : email'[d] = email[d]
    BY <2>1, PutTake DEF TypeOK
  <2>4. Alive(c[1])'
    BY <2>1, AliveNext
  <2>5. Accounted'
    BY <2>1, <2>2, <2>3, <2>4, AliveKept, AccountedKept DEF TypeOK
  <2> QED
    BY <2>1, <2>2, <2>5 DEF ResendFits
<1> QED
  BY <1>1, <1>2, <1>3, <1>4

\* The steps of the callback, and the end of the process.
LEMMA StepCallback ==
    ASSUME EmailInv,
           \/ ParseFails \/ SendAccepted \/ SendRefused \/ SendGivenUp \/ SendRaises
           \/ Resend \/ Ack \/ AckAndDie \/ Crash
    PROVE  EmailInv'
<1> USE DEF EmailInv
<1>1. pc \notin {"down", "idle"} => held \in Copies
  BY DEF TypeOK
<1>2. CASE ParseFails
  <2>1. /\ held[1] \in Malformed /\ pc' = "ack" /\ held \in Copies /\ pc = "got"
        /\ UNCHANGED <<email, dlq, held, mails, now, crashes, published, attempts, exhausted,
                       expired, raised>>
    BY <1>1, <1>2 DEF ParseFails, broker, environment, history
  <2>2. TypeOK'
    BY <2>1 DEF TypeOK, PC
  <2>3. Accounted'
    BY <2>1, <2>2, AliveKept, AccountedKept DEF TypeOK
  <2> QED
    BY <2>1, <2>2, <2>3 DEF ResendFits
<1>3. CASE SendAccepted
  <2>1. /\ pc' = "ack" /\ held \in Copies /\ pc = "got"
        /\ mails' = [mails EXCEPT ![held[1]] = @ + 1]
        /\ attempts' = [attempts EXCEPT ![held[1]] = @ + 1]
        /\ UNCHANGED <<email, dlq, held, now, crashes, published, exhausted, expired, raised>>
    BY <1>1, <1>3 DEF SendAccepted, Attempt, broker
  <2>2. held[1] \in Messages
    BY <2>1, CopyParts
  <2>3. TypeOK'
    BY <2>1, <2>2 DEF TypeOK, PC
  <2>4. mails'[held[1]] > 0 /\ \A m \in Messages : mails'[m] >= mails[m]
    BY <2>1, <2>2 DEF TypeOK
  <2>5. Accounted'
    BY <2>1, <2>3, <2>4, AliveKept, AccountedKept
  <2> QED
    BY <2>1, <2>3, <2>5 DEF ResendFits
<1>4. CASE SendRefused
  <2>1. /\ pc' = "resend" /\ held \in Copies /\ pc = "got" /\ held[2] # MaxRetries
        /\ attempts' = [attempts EXCEPT ![held[1]] = @ + 1]
        /\ UNCHANGED <<email, dlq, held, mails, now, crashes, published, exhausted, expired, raised>>
    BY <1>1, <1>4 DEF SendRefused, Attempt, LastRetry, broker, environment
  <2>2. TypeOK'
    BY <2>1, CopyParts DEF TypeOK, PC
  <2>3. Alive(held[1])'
    BY <2>1 DEF Alive, CopiesOf
  <2>4. Accounted'
    BY <2>1, <2>2, <2>3, AliveKept, AccountedKept DEF TypeOK
  <2>5. ResendFits'
    BY <2>1, CopyParts, EmailAssumption DEF ResendFits
  <2> QED
    BY <2>2, <2>4, <2>5
<1>5. CASE SendGivenUp
  <2>1. /\ pc' = "ack" /\ held \in Copies /\ pc = "got" /\ exhausted' = exhausted \cup {held[1]}
        /\ attempts' = [attempts EXCEPT ![held[1]] = @ + 1]
        /\ UNCHANGED <<email, dlq, held, mails, now, crashes, published, expired, raised>>
    BY <1>1, <1>5 DEF SendGivenUp, Attempt, broker, environment
  <2>2. TypeOK'
    BY <2>1, CopyParts DEF TypeOK, PC
  <2>3. Accounted'
    BY <2>1, <2>2, AliveKept, AccountedKept DEF TypeOK
  <2> QED
    BY <2>1, <2>2, <2>3 DEF ResendFits
<1>6. CASE SendRaises
  <2>1. /\ pc' = "raise" /\ held \in Copies /\ pc = "got" /\ raised' = raised \cup {held[1]}
        /\ attempts' = [attempts EXCEPT ![held[1]] = @ + 1]
        /\ mails' \in {mails, [mails EXCEPT ![held[1]] = @ + 1]}
        /\ UNCHANGED <<email, dlq, held, now, crashes, published, exhausted, expired>>
    BY <1>1, <1>6 DEF SendRaises, Attempt, broker
  <2>2. TypeOK' /\ \A m \in Messages : mails'[m] >= mails[m]
    BY <2>1, CopyParts DEF TypeOK, PC
  <2>3. Accounted'
    BY <2>1, <2>2, AliveKept, AccountedKept
  <2> QED
    BY <2>1, <2>2, <2>3 DEF ResendFits
<1>7. CASE Resend
  <2>1. /\ pc' = "ack" /\ held \in Copies /\ pc = "resend" /\ dlq' = Put(dlq, OneMore(held))
        /\ UNCHANGED <<email, held, mails, now, crashes, published, attempts, exhausted,
                       expired, raised>>
    BY <1>1, <1>7 DEF Resend, environment, history
  <2>2. OneMore(held) \in Copies /\ OneMore(held)[1] = held[1]
    BY <2>1, EmailAssumption DEF OneMore, ResendFits, Copies
  <2>3. PICK c \in Copies, d \in Copies : c = held /\ d = OneMore(held) /\ d[1] = c[1]
    BY <2>1, <2>2
  <2>4. dlq' \in [Copies -> Nat] /\ dlq'[d] > 0 /\ \A e \in Copies : dlq'[e] >= dlq[e]
    BY <2>1, <2>3, PutTake DEF TypeOK
  <2>5. TypeOK'
    BY <2>1, <2>4 DEF TypeOK, PC
  <2>6. Alive(c[1])'
    BY <2>3, <2>4, AliveNext
  <2>7. \A e \in Copies : dlq[e] > 0 => dlq'[e] > 0
    BY <2>4 DEF TypeOK
  <2>8. Accounted'
    BY <2>1, <2>3, <2>5, <2>6, <2>7, AliveKept, AccountedKept DEF TypeOK
  <2> QED
    BY <2>1, <2>5, <2>8 DEF ResendFits
<1>8. CASE Ack \/ AckAndDie
  <2>1. /\ pc' \in {"idle", "down"} /\ pc \in {"ack", "raise"} /\ held' = NoCopy
        /\ UNCHANGED <<email, dlq, mails, now, crashes, published, attempts, exhausted,
                       expired, raised>>
    BY <1>8 DEF Ack, AckAndDie, AfterRaise, broker, environment, history
  <2>2. TypeOK'
    BY <2>1 DEF TypeOK, PC
  <2>3. \A m \in Messages : Alive(m) => Alive(m)'
    BY <2>1 DEF Alive
  <2>4. Accounted'
    BY <2>1, <2>2, <2>3, AccountedKept DEF TypeOK
  <2> QED
    BY <2>1, <2>2, <2>4 DEF ResendFits
<1>9. CASE Crash
  <2>1. /\ pc' = "down" /\ held' = NoCopy /\ email' = Redelivered /\ crashes' = crashes + 1
        /\ UNCHANGED <<dlq, mails, now, published, attempts, exhausted, expired, raised>>
    BY <1>9 DEF Crash, history
  <2>2. CASE held = NoCopy
    <3>1. email' = email
      BY <2>1, <2>2 DEF Redelivered
    <3>2. TypeOK'
      BY <2>1, <3>1 DEF TypeOK, PC
    <3>3. \A m \in Messages : Alive(m) => Alive(m)'
      BY <2>1, <2>2, <3>1, NoCopyAssumption DEF Alive, CopiesOf
    <3>4. Accounted'
      BY <2>1, <3>2, <3>3, AccountedKept DEF TypeOK
    <3> QED
      BY <2>1, <3>2, <3>4 DEF ResendFits
  <2>3. CASE held # NoCopy
    <3>1. PICK c \in Copies : c = held /\ email' = Put(email, c)
      BY <2>1, <2>3 DEF Redelivered, TypeOK
    <3>2. /\ email' \in [Copies -> Nat] /\ email'[c] > 0
          /\ \A e \in Copies : email'[e] >= email[e]
      BY <3>1, PutTake DEF TypeOK
    <3>3. TypeOK'
      BY <2>1, <3>2 DEF TypeOK, PC
    <3>4. Alive(c[1])'
      BY <3>2, AliveNext
    <3>5. \A e \in Copies : email[e] > 0 => email'[e] > 0
      BY <3>2 DEF TypeOK
    <3>6. Accounted'
      BY <2>1, <3>1, <3>3, <3>4, <3>5, AliveKept, AccountedKept DEF TypeOK
    <3> QED
      BY <2>1, <3>3, <3>6 DEF ResendFits
  <2> QED
    BY <2>2, <2>3
<1> QED
  BY <1>2, <1>3, <1>4, <1>5, <1>6, <1>7, <1>8, <1>9

LEMMA StepInv == EmailInv /\ [Next]_vars => EmailInv'
<1> SUFFICES ASSUME EmailInv, [Next]_vars PROVE EmailInv'
  OBVIOUS
<1>1. ASSUME UNCHANGED <<email, dlq, held, mails, crashes, published, attempts, exhausted,
                         expired, raised>>,
             now' \in Nat, pc' = pc \/ (pc = "down" /\ pc' = "idle")
      PROVE  EmailInv'
  <2>1. TypeOK'
    BY <1>1 DEF EmailInv, TypeOK, PC
  <2>2. \A m \in Messages : Alive(m) => Alive(m)'
    BY <1>1 DEF Alive
  <2>3. Accounted'
    BY <1>1, <2>1, <2>2, AccountedKept DEF EmailInv, TypeOK
  <2> QED
    BY <1>1, <2>1, <2>3 DEF EmailInv, ResendFits
<1>2. CASE Start
  BY <1>1, <1>2 DEF Start, broker, environment, history, EmailInv, TypeOK
<1>3. CASE Tick
  BY <1>1, <1>3 DEF Tick, broker, worker, history, EmailInv, TypeOK
<1>4. CASE UNCHANGED vars
  BY <1>1, <1>4 DEF vars, broker, worker, environment, history, EmailInv, TypeOK
<1> QED
  BY <1>2, <1>3, <1>4, StepBroker, StepCallback DEF Next, WorkerStep

-----------------------------------------------------------------------------
(***************************************************************************)
(* Counting. Size(q, m) is how many copies of m a queue holds, Chances(q,  *)
(* m) how many calls of sender.send these copies may still cost.           *)
(***************************************************************************)

\* The calls that a copy can still cost: the one of now and its retries.
Left(c) == MaxRetries + 1 - c[2]

Tries(q, m) == UNION {{c} \X (1 .. q[c]) \X (1 .. Left(c)) : c \in CopiesOf(m)}

Size(q, m) == Cardinality(InQueue(q, m))
Chances(q, m) == Cardinality(Tries(q, m))

\* Both are numbers.
Countable(q) == \A m \in Messages : IsFiniteSet(InQueue(q, m)) /\ IsFiniteSet(Tries(q, m))

Is(m, c) == IF m = c[1] THEN 1 ELSE 0
LeftOf(m, c) == IF m = c[1] THEN Left(c) ELSE 0

LEMMA CountType ==
    ASSUME NEW q, Countable(q), NEW m \in Messages
    PROVE  Size(q, m) \in Nat /\ Chances(q, m) \in Nat
BY FS_CardinalityType DEF Countable, Size, Chances

LEMMA LeftType ==
    ASSUME NEW c \in Copies
    PROVE  Left(c) \in Nat \ {0} /\ Left(c) <= MaxRetries + 1
BY EmailAssumption, CopyParts DEF Left

LEMMA InQueueBy ==
    ASSUME NEW q, NEW m, NEW x
    PROVE  x \in InQueue(q, m) <=> \E d \in CopiesOf(m) : \E i \in 1 .. q[d] : x = <<d, i>>
BY DEF InQueue

LEMMA TriesBy ==
    ASSUME NEW q, NEW m, NEW x
    PROVE  x \in Tries(q, m) <=>
               \E d \in CopiesOf(m) : \E i \in 1 .. q[d] : \E j \in 1 .. Left(d) : x = <<d, i, j>>
BY DEF Tries

\* A copy that enters a queue is one more, with all that it may still cost.
LEMMA PutCounts ==
    ASSUME NEW q \in [Copies -> Nat], Countable(q), NEW c \in Copies
    PROVE  /\ Countable(Put(q, c))
           /\ \A m \in Messages : Size(Put(q, c), m) = Size(q, m) + Is(m, c)
           /\ \A m \in Messages : Chances(Put(q, c), m) = Chances(q, m) + LeftOf(m, c)
<1> DEFINE p == Put(q, c)
<1>1. p \in [Copies -> Nat] /\ p[c] = q[c] + 1 /\ \A d \in Copies \ {c} : p[d] = q[d]
  BY DEF Put
<1> HIDE DEF p
<1>2. ASSUME NEW m \in Messages, m # c[1]
      PROVE  InQueue(p, m) = InQueue(q, m) /\ Tries(p, m) = Tries(q, m)
  <2>1. \A d \in CopiesOf(m) : p[d] = q[d]
    BY <1>1, <1>2 DEF CopiesOf
  <2> QED
    BY <2>1 DEF InQueue, Tries
<1>3. ASSUME NEW m \in Messages, m = c[1]
      PROVE  /\ IsFiniteSet(InQueue(p, m)) /\ Size(p, m) = Size(q, m) + 1
             /\ IsFiniteSet(Tries(p, m)) /\ Chances(p, m) = Chances(q, m) + Left(c)
  <2>1. c \in CopiesOf(m) /\ CopiesOf(m) \subseteq Copies /\ q[c] \in Nat
    BY <1>3 DEF CopiesOf
  <2> DEFINE k == q[c] + 1
             new == {<<c, k, j>> : j \in 1 .. Left(c)}
  <2>2. k \in 1 .. p[c] /\ k \notin 1 .. q[c] /\ 1 .. p[c] = (1 .. q[c]) \cup {k}
    BY <1>1, <2>1
  <2> HIDE DEF k
  <2>3. InQueue(p, m) = InQueue(q, m) \cup {<<c, k>>}
    <3>1. ASSUME NEW x \in InQueue(p, m) PROVE x \in InQueue(q, m) \cup {<<c, k>>}
      <4>1. PICK d \in CopiesOf(m) : \E i \in 1 .. p[d] : x = <<d, i>>
        BY <3>1, InQueueBy
      <4>2. CASE d = c
        BY <2>2, <4>1, <4>2, InQueueBy
      <4>3. CASE d # c
        BY <1>1, <2>1, <4>1, <4>3, InQueueBy
      <4> QED
        BY <4>2, <4>3
    <3>2. ASSUME NEW x \in InQueue(q, m) PROVE x \in InQueue(p, m)
      <4>1. PICK d \in CopiesOf(m) : \E i \in 1 .. q[d] : x = <<d, i>>
        BY <3>2, InQueueBy
      <4>2. 1 .. q[d] \subseteq 1 .. p[d]
        BY <1>1, <2>1, <2>2, <4>1
      <4> QED
        BY <4>1, <4>2, InQueueBy
    <3>3. <<c, k>> \in InQueue(p, m)
      BY <2>1, <2>2, InQueueBy
    <3> QED
      BY <3>1, <3>2, <3>3
  <2>4. <<c, k>> \notin InQueue(q, m)
    BY <2>2, InQueueBy
  <2>5. Tries(p, m) = Tries(q, m) \cup new
    <3>1. ASSUME NEW x \in Tries(p, m) PROVE x \in Tries(q, m) \cup new
      <4>1. PICK d \in CopiesOf(m) : \E i \in 1 .. p[d] : \E j \in 1 .. Left(d) : x = <<d, i, j>>
        BY <3>1, TriesBy
      <4>2. CASE d = c
        BY <2>2, <4>1, <4>2, TriesBy
      <4>3. CASE d # c
        BY <1>1, <2>1, <4>1, <4>3, TriesBy
      <4> QED
        BY <4>2, <4>3
    <3>2. ASSUME NEW x \in Tries(q, m) PROVE x \in Tries(p, m)
      <4>1. PICK d \in CopiesOf(m) : \E i \in 1 .. q[d] : \E j \in 1 .. Left(d) : x = <<d, i, j>>
        BY <3>2, TriesBy
      <4>2. 1 .. q[d] \subseteq 1 .. p[d]
        BY <1>1, <2>1, <2>2, <4>1
      <4> QED
        BY <4>1, <4>2, TriesBy
    <3>3. new \subseteq Tries(p, m)
      BY <2>1, <2>2, TriesBy
    <3> QED
      BY <3>1, <3>2, <3>3
  <2>6. new \cap Tries(q, m) = {}
    BY <2>2, TriesBy
  <2>7. IsFiniteSet(new) /\ Cardinality(new) = Left(c)
    <3>1. IsFiniteSet(1 .. Left(c)) /\ Cardinality(1 .. Left(c)) = Left(c)
      BY LeftType, FS_Interval
    <3> DEFINE f == [j \in 1 .. Left(c) |-> <<c, k, j>>]
    <3>2. f \in [1 .. Left(c) -> new] /\ \A i, j \in 1 .. Left(c) : f[i] = f[j] => i = j
      OBVIOUS
    <3>3. \A x \in new : \E j \in 1 .. Left(c) : f[j] = x
      OBVIOUS
    <3> HIDE DEF f
    <3>4. f \in Bijection(1 .. Left(c), new)
      BY <3>2, <3>3 DEF Bijection, Injection, Surjection, IsInjective
    <3>5. ExistsBijection(1 .. Left(c), new)
      BY <3>4 DEF ExistsBijection
    <3> HIDE DEF new
    <3> QED
      BY <3>1, <3>5, FS_Bijection
  <2> HIDE DEF new
  <2>8. IsFiniteSet(InQueue(q, m)) /\ IsFiniteSet(Tries(q, m))
    BY DEF Countable
  <2>9. IsFiniteSet(InQueue(p, m)) /\ Size(p, m) = Size(q, m) + 1
    BY <2>3, <2>4, <2>8, FS_AddElement DEF Size
  <2>10. Cardinality(Tries(q, m) \cap new) = 0
    BY <2>6, FS_EmptySet
  <2>11. IsFiniteSet(Tries(q, m) \cup new)
         /\ Cardinality(Tries(q, m) \cup new) = Chances(q, m) + Left(c) - 0
    BY <2>7, <2>8, <2>10, FS_Union DEF Chances
  <2>12. Chances(q, m) \in Nat /\ Left(c) \in Nat
    BY CountType, LeftType
  <2> QED
    BY <2>5, <2>9, <2>11, <2>12 DEF Chances
<1>4. Countable(p)
  BY <1>2, <1>3 DEF Countable
<1>5. ASSUME NEW m \in Messages
      PROVE  Size(p, m) = Size(q, m) + Is(m, c) /\ Chances(p, m) = Chances(q, m) + LeftOf(m, c)
  <2>1. Size(q, m) \in Nat /\ Chances(q, m) \in Nat
    BY CountType
  <2> QED
    BY <1>2, <1>3, <2>1 DEF Size, Chances, Is, LeftOf
<1> QED
  BY <1>4, <1>5 DEF p

\* A copy that leaves a queue is one less.
LEMMA TakeCounts ==
    ASSUME NEW q \in [Copies -> Nat], Countable(q), NEW c \in Copies, q[c] > 0
    PROVE  /\ Countable(Take(q, c))
           /\ \A m \in Messages : Size(q, m) = Size(Take(q, c), m) + Is(m, c)
           /\ \A m \in Messages : Chances(q, m) = Chances(Take(q, c), m) + LeftOf(m, c)
<1> DEFINE p == Take(q, c)
<1>1. p \in [Copies -> Nat] /\ Put(p, c) = q /\ \A d \in Copies : 1 .. p[d] \subseteq 1 .. q[d]
  <2>1. p \in [Copies -> Nat] /\ p[c] = q[c] - 1 /\ \A d \in Copies \ {c} : p[d] = q[d]
    BY DEF Take
  <2> HIDE DEF p
  <2>2. Put(p, c) = q
    BY <2>1 DEF Put
  <2>3. ASSUME NEW d \in Copies PROVE p[d] \in Nat /\ q[d] \in Nat /\ p[d] <= q[d]
    BY <2>1
  <2> QED
    BY <2>1, <2>2, <2>3
<1> HIDE DEF p
<1>2. ASSUME NEW m \in Messages PROVE IsFiniteSet(InQueue(p, m)) /\ IsFiniteSet(Tries(p, m))
  <2>1. \A d \in CopiesOf(m) : 1 .. p[d] \subseteq 1 .. q[d]
    BY <1>1 DEF CopiesOf
  <2>2. InQueue(p, m) \subseteq InQueue(q, m)
    BY <2>1, InQueueBy
  <2>3. ASSUME NEW x \in Tries(p, m) PROVE x \in Tries(q, m)
    <3>1. PICK d \in CopiesOf(m) : \E i \in 1 .. p[d] : \E j \in 1 .. Left(d) : x = <<d, i, j>>
      BY <2>3, TriesBy
    <3>2. 1 .. p[d] \subseteq 1 .. q[d]
      BY <2>1
    <3> QED
      BY <3>1, <3>2, TriesBy
  <2>4. Tries(p, m) \subseteq Tries(q, m)
    BY <2>3
  <2> QED
    BY <2>2, <2>4, FS_Subset DEF Countable
<1>3. Countable(p)
  BY <1>2 DEF Countable
<1> QED
  BY <1>1, <1>3, PutCounts DEF p

-----------------------------------------------------------------------------
(***************************************************************************)
(* The inductive invariant of the counts.                                  *)
(***************************************************************************)

\* What is not published has left no trace.
Untouched(m) ==
    /\ mails[m] = 0 /\ attempts[m] = 0 /\ held \notin CopiesOf(m)
    /\ Size(email, m) = 0 /\ Size(dlq, m) = 0
    /\ Chances(email, m) = 0 /\ Chances(dlq, m) = 0

\* What the copy in the worker's hands counts, and what it may still cost.
HeldSize(m) == IF held \in CopiesOf(m) /\ pc \in {"got", "resend"} THEN 1 ELSE 0
HeldChances(m) ==
    IF held \in CopiesOf(m)
    THEN CASE pc = "got" -> Left(held) [] pc = "resend" -> Left(held) - 1 [] OTHER -> 0
    ELSE 0

\* One mail for the message itself and one for every kill; and so for the
\* calls of sender.send, which the message and every kill give MaxRetries + 1.
Paid(m) ==
    /\ mails[m] + Size(email, m) + Size(dlq, m) + HeldSize(m) <= 1 + crashes
    /\ attempts[m] + Chances(email, m) + Chances(dlq, m) + HeldChances(m)
           <= (MaxRetries + 1) * (1 + crashes)

\* A copy with k retries was tried k times, and once more when it was refused.
RetriesTried ==
    /\ \A c \in Copies : email[c] > 0 \/ dlq[c] > 0 \/ held = c => attempts[c[1]] >= c[2]
    /\ pc = "resend" => attempts[held[1]] > held[2]
    /\ \A m \in exhausted : attempts[m] > MaxRetries

CountInv ==
    /\ Countable(email) /\ Countable(dlq)
    /\ \A m \in Messages \ published : Untouched(m)
    /\ \A m \in Messages : Paid(m)
    /\ RetriesTried

LEMMA HeldType ==
    ASSUME EmailInv, NEW m \in Messages
    PROVE  HeldSize(m) \in Nat /\ HeldChances(m) \in Nat
<1>1. held \in CopiesOf(m) => Left(held) \in Nat \ {0}
  BY LeftType DEF CopiesOf
<1> QED
  BY <1>1 DEF HeldSize, HeldChances

\* The worker holds copies of what was published.
LEMMA HeldPublished ==
    ASSUME EmailInv, CountInv, held # NoCopy
    PROVE  held \in Copies /\ held[1] \in published /\ held[1] \in Messages
<1>1. held \in Copies
  BY DEF EmailInv, TypeOK
<1> QED
  BY <1>1, CopyParts DEF CountInv, Untouched

LEMMA InitCounts == Init => CountInv
<1> SUFFICES ASSUME Init PROVE CountInv
  OBVIOUS
<1> DEFINE q == [c \in Copies |-> 0]
<1>1. email = q /\ dlq = q
  BY DEF Init
<1>2. ASSUME NEW m \in Messages PROVE InQueue(q, m) = {} /\ Tries(q, m) = {}
  <2>1. \A d \in CopiesOf(m) : 1 .. q[d] = {}
    BY DEF CopiesOf
  <2> HIDE DEF q
  <2> QED
    BY <2>1, InQueueBy, TriesBy
<1> HIDE DEF q
<1>3. Countable(q) /\ \A m \in Messages : Size(q, m) = 0 /\ Chances(q, m) = 0
  BY <1>2, FS_EmptySet DEF Countable, Size, Chances
<1>4. RetriesTried
  <2>1. \A c \in Copies : email[c] = 0 /\ dlq[c] = 0 /\ held # c
    BY NoCopyAssumption DEF Init
  <2> QED
    BY <2>1 DEF Init, RetriesTried
<1>5. held = NoCopy /\ pc = "down" /\ crashes = 0
      /\ \A m \in Messages : mails[m] = 0 /\ attempts[m] = 0
  BY DEF Init
<1>6. ASSUME NEW m \in Messages PROVE Untouched(m) /\ Paid(m)
  <2>1. held \notin CopiesOf(m)
    BY <1>5, NoCopyAssumption DEF CopiesOf
  <2>2. (MaxRetries + 1) * (1 + crashes) = MaxRetries + 1 /\ MaxRetries \in Nat
    BY <1>5, EmailAssumption
  <2> QED
    BY <1>1, <1>3, <1>5, <2>1, <2>2 DEF Untouched, Paid, HeldSize, HeldChances
<1> QED
  BY <1>1, <1>3, <1>4, <1>6 DEF CountInv

\* The steps of RabbitMQ move copies, or drop them; a message is published once.
LEMMA CountBroker ==
    ASSUME EmailInv, CountInv,
           \/ \E m \in Messages : Publish(m)
           \/ \E c \in Copies : Expire(c) \/ DeadLetter(c) \/ Deliver(c)
    PROVE  CountInv'
<1> USE DEF CountInv
<1>0. /\ email \in [Copies -> Nat] /\ dlq \in [Copies -> Nat] /\ crashes \in Nat
      /\ MaxRetries \in Nat /\ held \in Copies \cup {NoCopy}
      /\ \A m \in Messages : mails[m] \in Nat /\ attempts[m] \in Nat
      /\ \A m \in Messages : Size(email, m) \in Nat /\ Size(dlq, m) \in Nat
                             /\ Chances(email, m) \in Nat /\ Chances(dlq, m) \in Nat
  BY EmailAssumption, CountType DEF EmailInv, TypeOK
<1>1. ASSUME NEW m \in Messages, Publish(m) PROVE CountInv'
  <2> DEFINE c == <<m, 0>>
  <2>1. c \in Copies /\ c[1] = m /\ c[2] = 0 /\ Left(c) = MaxRetries + 1
    BY <1>0 DEF Copies, Left
  <2>2. /\ email' = Put(email, c) /\ published' = published \cup {m} /\ m \notin published
        /\ UNCHANGED <<dlq, pc, held, mails, now, crashes, attempts, exhausted, expired, raised>>
    BY <1>1 DEF Publish, worker, environment
  <2> HIDE DEF c
  <2>3. /\ Countable(email') /\ Countable(dlq')
        /\ \A l \in Messages : Size(email', l) = Size(email, l) + Is(l, c)
                               /\ Chances(email', l) = Chances(email, l) + LeftOf(l, c)
    BY <1>0, <2>1, <2>2, PutCounts
  <2>4. \A l \in Messages \ published' : Untouched(l)'
    BY <1>0, <2>1, <2>2, <2>3 DEF Untouched, Is, LeftOf
  <2>5. ASSUME NEW l \in Messages PROVE Paid(l)'
    <3> DEFINE B == (MaxRetries + 1) * (1 + crashes)
    <3>1. MaxRetries + 1 <= B /\ B \in Nat
      BY <1>0
    <3>2. HeldSize(l)' = HeldSize(l) /\ HeldChances(l)' = HeldChances(l)
      BY <2>2 DEF HeldSize, HeldChances
    <3>3. l = m => HeldSize(l) = 0 /\ HeldChances(l) = 0 /\ Untouched(l)
      BY <2>2 DEF HeldSize, HeldChances, Untouched
    <3>4. CASE l = m
      BY <1>0, <2>1, <2>2, <2>3, <3>1, <3>2, <3>3, <3>4 DEF Paid, Untouched, Is, LeftOf
    <3>5. CASE l # m
      BY <1>0, <2>1, <2>2, <2>3, <3>2, <3>5 DEF Paid, Is, LeftOf
    <3> QED
      BY <3>4, <3>5
  <2>6. RetriesTried'
    BY <1>0, <2>1, <2>2, PutTake DEF RetriesTried, Put
  <2> QED
    BY <2>3, <2>4, <2>5, <2>6
<1>2. ASSUME NEW c \in Copies, Expire(c) PROVE CountInv'
  <2>1. /\ email' = Take(email, c) /\ email[c] > 0
        /\ UNCHANGED <<dlq, pc, held, mails, now, crashes, published, attempts, exhausted, raised>>
    BY <1>2 DEF Expire, worker, environment
  <2>2. /\ Countable(email') /\ Countable(dlq')
        /\ \A l \in Messages : Size(email, l) = Size(email', l) + Is(l, c)
                               /\ Chances(email, l) = Chances(email', l) + LeftOf(l, c)
    BY <1>0, <2>1, TakeCounts
  <2>3. ASSUME NEW l \in Messages
        PROVE  /\ Size(email', l) \in Nat /\ Size(email', l) <= Size(email, l)
               /\ Chances(email', l) \in Nat /\ Chances(email', l) <= Chances(email, l)
               /\ HeldSize(l)' = HeldSize(l) /\ HeldChances(l)' = HeldChances(l)
    <3>1. Size(email', l) \in Nat /\ Chances(email', l) \in Nat /\ Left(c) \in Nat
      BY <2>2, CountType, LeftType
    <3> QED
      BY <2>1, <2>2, <3>1 DEF Is, LeftOf, HeldSize, HeldChances
  <2>4. ASSUME NEW l \in Messages PROVE Paid(l)'
    <3>1. HeldSize(l) \in Nat /\ HeldChances(l) \in Nat
      BY HeldType
    <3> DEFINE B == (MaxRetries + 1) * (1 + crashes)
    <3>2. B \in Int /\ B' = B
      BY <1>0, <2>1
    <3> QED
      BY <1>0, <2>1, <2>3, <3>1, <3>2 DEF Paid
  <2>5. \A l \in Messages \ published' : Untouched(l)'
    BY <1>0, <2>1, <2>3 DEF Untouched
  <2>6. RetriesTried'
    BY <1>0, <2>1, PutTake DEF RetriesTried, Take
  <2> QED
    BY <2>2, <2>4, <2>5, <2>6
<1>3. ASSUME NEW c \in Copies, DeadLetter(c) PROVE CountInv'
  <2>1. /\ dlq' = Take(dlq, c) /\ dlq[c] > 0 /\ email' = Put(email, c)
        /\ UNCHANGED <<pc, held, mails, now, crashes, published, attempts, exhausted, expired, raised>>
    BY <1>3 DEF DeadLetter, worker, environment, history
  <2>2. /\ Countable(email') /\ Countable(dlq')
        /\ \A l \in Messages : Size(dlq, l) = Size(dlq', l) + Is(l, c)
                               /\ Chances(dlq, l) = Chances(dlq', l) + LeftOf(l, c)
        /\ \A l \in Messages : Size(email', l) = Size(email, l) + Is(l, c)
                               /\ Chances(email', l) = Chances(email, l) + LeftOf(l, c)
    BY <1>0, <2>1, TakeCounts, PutCounts
  <2>3. ASSUME NEW l \in Messages
        PROVE  /\ Size(email', l) + Size(dlq', l) = Size(email, l) + Size(dlq, l)
               /\ Chances(email', l) + Chances(dlq', l) = Chances(email, l) + Chances(dlq, l)
               /\ \A n \in {Size(email', l), Size(dlq', l), Chances(email', l), Chances(dlq', l)} :
                      n \in Nat
               /\ HeldSize(l)' = HeldSize(l) /\ HeldChances(l)' = HeldChances(l)
    <3>1. /\ Size(dlq', l) \in Nat /\ Chances(dlq', l) \in Nat /\ Left(c) \in Nat
          /\ Size(email', l) \in Nat /\ Chances(email', l) \in Nat
      BY <2>2, CountType, LeftType
    <3> QED
      BY <1>0, <2>1, <2>2, <3>1 DEF Is, LeftOf, HeldSize, HeldChances
  <2>4. ASSUME NEW l \in Messages PROVE Paid(l)'
    <3>1. HeldSize(l) \in Nat /\ HeldChances(l) \in Nat
      BY HeldType
    <3> DEFINE B == (MaxRetries + 1) * (1 + crashes)
    <3>2. B \in Int /\ B' = B
      BY <1>0, <2>1
    <3> QED
      BY <1>0, <2>1, <2>3, <3>1, <3>2 DEF Paid
  <2>5. \A l \in Messages \ published' : Untouched(l)'
    BY <1>0, <2>1, <2>3 DEF Untouched
  <2>6. RetriesTried'
    BY <1>0, <2>1, PutTake DEF RetriesTried, Take, Put
  <2> QED
    BY <2>2, <2>4, <2>5, <2>6
<1>4. ASSUME NEW c \in Copies, Deliver(c) PROVE CountInv'
  <2>1. /\ email' = Take(email, c) /\ email[c] > 0 /\ held' = c /\ pc = "idle" /\ pc' = "got"
        /\ UNCHANGED <<dlq, mails, now, crashes, published, attempts, exhausted, expired, raised>>
    BY <1>4 DEF Deliver, environment, history
  <2>2. /\ Countable(email') /\ Countable(dlq')
        /\ \A l \in Messages : Size(email, l) = Size(email', l) + Is(l, c)
                               /\ Chances(email, l) = Chances(email', l) + LeftOf(l, c)
    BY <1>0, <2>1, TakeCounts
  <2>3. ASSUME NEW l \in Messages
        PROVE  /\ HeldSize(l) = 0 /\ HeldSize(l)' = Is(l, c)
               /\ HeldChances(l) = 0 /\ HeldChances(l)' = LeftOf(l, c)
               /\ Size(email', l) \in Nat /\ Chances(email', l) \in Nat
    BY <2>1, <2>2, CountType DEF HeldSize, HeldChances, Is, LeftOf, CopiesOf
  <2>4. ASSUME NEW l \in Messages PROVE Paid(l)'
    <3>1. Is(l, c) \in Nat /\ LeftOf(l, c) \in Nat
      BY LeftType DEF Is, LeftOf
    <3> DEFINE B == (MaxRetries + 1) * (1 + crashes)
    <3>2. B \in Int /\ B' = B
      BY <1>0, <2>1
    <3> QED
      BY <1>0, <2>1, <2>2, <2>3, <3>1, <3>2 DEF Paid
  <2>5. ASSUME NEW l \in Messages \ published' PROVE Untouched(l)'
    <3>1. Untouched(l)
      BY <2>1
    <3>2. l # c[1]
      BY <1>0, <2>1, <2>2, <2>3, <3>1 DEF Untouched, Is
    <3> QED
      BY <1>0, <2>1, <2>2, <2>3, <3>1, <3>2 DEF Untouched, Is, LeftOf, CopiesOf
  <2>6. RetriesTried'
    BY <1>0, <2>1, PutTake DEF RetriesTried, Take
  <2> QED
    BY <2>2, <2>4, <2>5, <2>6
<1> QED
  BY <1>1, <1>2, <1>3, <1>4

\* A step of the worker that leaves the queues alone keeps the counts when what
\* it does to a message is paid by the copy in its hands.
LEMMA HandsKept ==
    ASSUME EmailInv, CountInv, EmailInv',
           UNCHANGED <<email, dlq, crashes, published>>,
           held' \in {held, NoCopy},
           \A m \in Messages : m # held[1] \/ held = NoCopy =>
               mails'[m] = mails[m] /\ attempts'[m] = attempts[m],
           \A m \in Messages : m = held[1] /\ held # NoCopy =>
               /\ mails'[m] + HeldSize(m)' <= mails[m] + HeldSize(m)
               /\ attempts'[m] + HeldChances(m)' <= attempts[m] + HeldChances(m),
           RetriesTried'
    PROVE  CountInv'
<1> USE DEF CountInv
<1>1. ASSUME NEW m \in Messages
      PROVE  /\ mails[m] \in Nat /\ attempts[m] \in Nat /\ mails'[m] \in Nat /\ attempts'[m] \in Nat
             /\ HeldSize(m) \in Nat /\ HeldChances(m) \in Nat
             /\ HeldSize(m)' \in Nat /\ HeldChances(m)' \in Nat
             /\ Size(email, m) \in Nat /\ Size(dlq, m) \in Nat
             /\ Chances(email, m) \in Nat /\ Chances(dlq, m) \in Nat
  <2>1. held' \in CopiesOf(m) => Left(held') \in Nat \ {0}
    BY LeftType DEF CopiesOf
  <2>2. HeldSize(m)' \in Nat /\ HeldChances(m)' \in Nat
    BY <2>1 DEF HeldSize, HeldChances
  <2> QED
    BY <2>2, HeldType, CountType DEF EmailInv, TypeOK
<1>2. ASSUME NEW m \in Messages PROVE Paid(m)'
  <2> DEFINE B == (MaxRetries + 1) * (1 + crashes)
  <2>1. B \in Int /\ B' = B
    BY EmailAssumption DEF EmailInv, TypeOK
  <2>2. CASE held # NoCopy /\ m = held[1]
    <3>1. /\ mails'[m] + HeldSize(m)' <= mails[m] + HeldSize(m)
          /\ attempts'[m] + HeldChances(m)' <= attempts[m] + HeldChances(m)
      BY <2>2
    <3>2. /\ mails[m] + Size(email, m) + Size(dlq, m) + HeldSize(m) <= 1 + crashes
          /\ attempts[m] + Chances(email, m) + Chances(dlq, m) + HeldChances(m) <= B
      BY DEF Paid
    <3> HIDE DEF B
    <3>3. /\ mails'[m] + Size(email, m) + Size(dlq, m) + HeldSize(m)' <= 1 + crashes
          /\ attempts'[m] + Chances(email, m) + Chances(dlq, m) + HeldChances(m)' <= B
      BY <1>1, <2>1, <3>1, <3>2 DEF EmailInv, TypeOK
    <3> QED
      BY <2>1, <3>3 DEF Paid, B
  <2>3. CASE held = NoCopy \/ m # held[1]
    <3>1. /\ held \notin CopiesOf(m) /\ held' \notin CopiesOf(m)
      BY <2>3, NoCopyAssumption DEF CopiesOf
    <3>2. HeldSize(m)' = 0 /\ HeldChances(m)' = 0 /\ HeldSize(m) = 0 /\ HeldChances(m) = 0
      BY <3>1 DEF HeldSize, HeldChances
    <3> QED
      BY <1>1, <2>1, <2>3, <3>2 DEF Paid
  <2> QED
    BY <2>2, <2>3
<1>3. ASSUME NEW m \in Messages \ published PROVE Untouched(m)'
  <2>1. held = NoCopy \/ m # held[1]
    BY HeldPublished
  <2> QED
    BY <2>1, NoCopyAssumption DEF Untouched, CopiesOf
<1> QED
  BY <1>2, <1>3

\* What the held copy counts before and after a step of the callback.
LEMMA HeldCounts ==
    ASSUME EmailInv, CountInv, held # NoCopy
    PROVE  /\ pc = "got" => HeldSize(held[1]) = 1 /\ HeldChances(held[1]) = Left(held)
           /\ pc = "resend" => HeldSize(held[1]) = 1 /\ HeldChances(held[1]) = Left(held) - 1
           /\ pc \notin {"got", "resend"} => HeldSize(held[1]) = 0 /\ HeldChances(held[1]) = 0
           /\ Left(held) \in Nat \ {0}
           /\ attempts[held[1]] \in Nat /\ attempts[held[1]] >= held[2] /\ held[2] \in 0 .. MaxRetries
<1>1. held \in Copies /\ held[1] \in Messages /\ held \in CopiesOf(held[1])
  BY HeldPublished DEF CopiesOf
<1> QED
  BY <1>1, LeftType, CopyParts DEF HeldSize, HeldChances, CountInv, RetriesTried, EmailInv, TypeOK

LEMMA CountCallback ==
    ASSUME EmailInv, CountInv, EmailInv',
           ParseFails \/ SendAccepted \/ SendRefused \/ SendGivenUp \/ SendRaises
           \/ Ack \/ AckAndDie
    PROVE  CountInv'
<1>1. held # NoCopy /\ held \in Copies /\ held[1] \in published /\ held[1] \in Messages
  <2>1. held # NoCopy
    BY DEF EmailInv, TypeOK, ParseFails, SendAccepted, SendRefused, SendGivenUp, SendRaises, Attempt,
           Ack, AckAndDie
  <2> QED
    BY <2>1, HeldPublished
<1> DEFINE h == held[1]
<1>2. /\ mails \in [Messages -> Nat] /\ attempts \in [Messages -> Nat] /\ exhausted \subseteq Messages
      /\ MaxRetries \in Nat
  BY EmailAssumption DEF EmailInv, TypeOK
<1>3. CASE ParseFails \/ Ack \/ AckAndDie
  <2>1. /\ held' = NoCopy \/ (held' = held /\ pc' = "ack")
        /\ UNCHANGED <<email, dlq, mails, now, crashes, published, attempts, exhausted>>
        /\ pc' \notin {"got", "resend"}
    <3>1. CASE ParseFails
      BY <3>1 DEF ParseFails, broker, environment, history
    <3>2. CASE Ack
      BY <3>2 DEF Ack, broker, environment, history
    <3>3. CASE AckAndDie
      BY <3>3 DEF AckAndDie, AfterRaise, environment, history
    <3> QED
      BY <1>3, <3>1, <3>2, <3>3
  <2>2. \A m \in Messages : HeldSize(m)' = 0 /\ HeldChances(m)' = 0
    BY <2>1 DEF HeldSize, HeldChances
  <2>4. \A m \in Messages : HeldSize(m) \in Nat /\ HeldChances(m) \in Nat
    BY HeldType
  <2>3. RetriesTried'
    BY <1>1, <2>1, NoCopyAssumption DEF CountInv, RetriesTried
  <2> QED
    BY <1>1, <1>2, <2>1, <2>2, <2>3, <2>4, HandsKept
<1>4. CASE SendAccepted \/ SendRefused \/ SendGivenUp \/ SendRaises
  <2>1. /\ pc = "got" /\ pc' \in {"resend", "ack", "raise"}
        /\ attempts' = [attempts EXCEPT ![h] = @ + 1]
        /\ mails' = mails \/ mails' = [mails EXCEPT ![h] = @ + 1]
        /\ pc' = "resend" => mails' = mails
        /\ exhausted' = exhausted
           \/ (exhausted' = exhausted \cup {h} /\ held[2] = MaxRetries)
        /\ UNCHANGED <<email, dlq, held, crashes, published>>
    BY <1>4 DEF SendAccepted, SendRefused, SendGivenUp, SendRaises, Attempt, LastRetry, broker,
                environment
  <2>2. /\ attempts'[h] = attempts[h] + 1 /\ mails'[h] \in {mails[h], mails[h] + 1}
        /\ pc' = "resend" => mails'[h] = mails[h]
        /\ \A m \in Messages : m # h => mails'[m] = mails[m] /\ attempts'[m] = attempts[m]
        /\ \A m \in Messages : attempts'[m] >= attempts[m] /\ attempts'[m] \in Nat
    BY <1>1, <1>2, <2>1
  <2>3. \A m \in Messages : m = h =>
            /\ pc' = "resend" => HeldSize(m)' = 1 /\ HeldChances(m)' = Left(held) - 1
            /\ pc' # "resend" => HeldSize(m)' = 0 /\ HeldChances(m)' = 0
    BY <1>1, <2>1 DEF HeldSize, HeldChances, CopiesOf
  <2>4. /\ HeldSize(h) = 1 /\ HeldChances(h) = Left(held) /\ Left(held) \in Nat \ {0}
        /\ attempts[h] >= held[2] /\ held[2] \in 0 .. MaxRetries
    BY <1>1, <2>1, HeldCounts
  <2>5. RetriesTried'
    <3>1. ASSUME NEW c \in Copies, email[c] > 0 \/ dlq[c] > 0 \/ held = c
          PROVE  attempts'[c[1]] >= c[2]
      <4>1. attempts[c[1]] >= c[2] /\ c[1] \in Messages /\ c[2] \in 0 .. MaxRetries
        BY <3>1, CopyParts DEF CountInv, RetriesTried
      <4> QED
        BY <1>2, <2>2, <4>1
    <3>2. attempts'[h] > held[2]
      BY <1>1, <1>2, <2>2, <2>4
    <3>3. ASSUME NEW m \in exhausted' PROVE attempts'[m] > MaxRetries
      <4>1. CASE m \in exhausted
        BY <1>2, <2>2, <4>1 DEF CountInv, RetriesTried
      <4>2. CASE m \notin exhausted
        BY <1>2, <2>1, <3>2, <4>2
      <4> QED
        BY <4>1, <4>2
    <3> QED
      BY <2>1, <3>1, <3>2, <3>3 DEF RetriesTried
  <2>6. \A m \in Messages : m = h =>
            /\ mails'[m] + HeldSize(m)' <= mails[m] + HeldSize(m)
            /\ attempts'[m] + HeldChances(m)' <= attempts[m] + HeldChances(m)
    BY <1>1, <1>2, <2>1, <2>2, <2>3, <2>4
  <2> QED
    BY <1>1, <2>1, <2>2, <2>5, <2>6, HandsKept
<1> QED
  BY <1>3, <1>4

\* The copy with one more retry costs one call less than the one it replaces.
LEMMA CountResend ==
    ASSUME EmailInv, CountInv, EmailInv', Resend
    PROVE  CountInv'
<1>1. held # NoCopy /\ held \in Copies /\ held[1] \in published /\ held[1] \in Messages
  BY HeldPublished DEF EmailInv, TypeOK, Resend
<1>2. /\ pc' = "ack" /\ pc = "resend" /\ dlq' = Put(dlq, OneMore(held))
      /\ UNCHANGED <<email, held, mails, now, crashes, published, attempts, exhausted>>
  BY DEF Resend, environment, history
<1>3. OneMore(held) \in Copies /\ OneMore(held)[1] = held[1] /\ OneMore(held)[2] = held[2] + 1
  BY <1>1, <1>2, EmailAssumption DEF OneMore, ResendFits, Copies, EmailInv
<1>4. PICK d \in Copies : d = OneMore(held)
  BY <1>3
<1>5. Left(d) = Left(held) - 1 /\ Left(held) \in Nat /\ Left(d) \in Nat
  BY <1>1, <1>3, <1>4, LeftType, CopyParts, EmailAssumption DEF Left
<1>6. /\ Countable(email') /\ Countable(dlq')
      /\ \A l \in Messages : Size(dlq', l) = Size(dlq, l) + Is(l, d)
                             /\ Chances(dlq', l) = Chances(dlq, l) + LeftOf(l, d)
  BY <1>2, <1>4, PutCounts DEF EmailInv, TypeOK, CountInv
<1>7. ASSUME NEW l \in Messages
      PROVE  /\ HeldSize(l)' = 0 /\ HeldSize(l) = Is(l, d)
             /\ HeldChances(l)' = 0 /\ HeldChances(l) = LeftOf(l, d)
  BY <1>1, <1>2, <1>3, <1>4, <1>5 DEF HeldSize, HeldChances, Is, LeftOf, CopiesOf
<1>8. ASSUME NEW l \in Messages PROVE Paid(l)'
  <2> DEFINE B == (MaxRetries + 1) * (1 + crashes)
  <2>1. B \in Int /\ B' = B
    BY <1>2, EmailAssumption DEF EmailInv, TypeOK
  <2>2. /\ mails[l] \in Nat /\ attempts[l] \in Nat
        /\ Size(email, l) \in Nat /\ Size(dlq, l) \in Nat
        /\ Chances(email, l) \in Nat /\ Chances(dlq, l) \in Nat
        /\ Is(l, d) \in Nat /\ LeftOf(l, d) \in Nat
    BY <1>5, CountType DEF EmailInv, TypeOK, Is, LeftOf, CountInv
  <2> QED
    BY <1>2, <1>6, <1>7, <2>1, <2>2 DEF Paid, CountInv
<1>9. ASSUME NEW l \in Messages \ published PROVE Untouched(l)'
  <2>1. l # d[1] /\ Size(dlq, l) = 0 /\ Chances(dlq, l) = 0
    BY <1>1, <1>3, <1>4 DEF CountInv, Untouched
  <2>2. Size(dlq', l) = 0 /\ Chances(dlq', l) = 0
    BY <1>6, <2>1 DEF Is, LeftOf
  <2> QED
    BY <1>2, <2>2 DEF Untouched, CountInv
<1>10. RetriesTried'
  <2>1. \A c \in Copies \ {d} : dlq'[c] = dlq[c]
    BY <1>2, <1>4 DEF Put, EmailInv, TypeOK
  <2>2. attempts[d[1]] >= d[2]
    BY <1>1, <1>2, <1>3, <1>4, HeldCounts DEF CountInv, RetriesTried
  <2> QED
    BY <1>2, <2>1, <2>2 DEF RetriesTried, CountInv
<1> QED
  BY <1>2, <1>6, <1>8, <1>9, <1>10 DEF CountInv

\* A kill pays for what the copy that comes back may still cost.
LEMMA CountCrash ==
    ASSUME EmailInv, CountInv, EmailInv', Crash
    PROVE  CountInv'
<1>1. /\ pc' = "down" /\ held' = NoCopy /\ email' = Redelivered /\ crashes' = crashes + 1
      /\ UNCHANGED <<dlq, mails, now, published, attempts, exhausted>>
  BY DEF Crash, history
<1>2. /\ email \in [Copies -> Nat] /\ crashes \in Nat /\ MaxRetries \in Nat
      /\ Countable(email) /\ Countable(dlq)
      /\ \A l \in Messages : mails[l] \in Nat /\ attempts[l] \in Nat
  BY EmailAssumption DEF EmailInv, TypeOK, CountInv
<1>3. ASSUME NEW l \in Messages
      PROVE  /\ HeldSize(l)' = 0 /\ HeldChances(l)' = 0 /\ held' \notin CopiesOf(l)
             /\ HeldSize(l) \in Nat /\ HeldChances(l) \in Nat
  BY <1>1, HeldType, NoCopyAssumption DEF HeldSize, HeldChances, CopiesOf
<1>4. /\ Countable(email') /\ Countable(dlq')
      /\ \A l \in Messages : /\ Size(email', l) \in {Size(email, l), Size(email, l) + 1}
                             /\ Chances(email', l) <= Chances(email, l) + MaxRetries + 1
      /\ \A l \in Messages \ published : Size(email', l) = Size(email, l)
                                         /\ Chances(email', l) = Chances(email, l)
  <2>1. CASE held = NoCopy
    <3>1. email' = email
      BY <1>1, <2>1 DEF Redelivered
    <3> QED
      BY <1>1, <1>2, <3>1, CountType
  <2>2. CASE held # NoCopy
    <3>1. PICK c \in Copies : c = held /\ email' = Put(email, c) /\ c[1] \in published
      BY <1>1, <2>2, HeldPublished DEF Redelivered
    <3>2. /\ Countable(email')
          /\ \A l \in Messages : Size(email', l) = Size(email, l) + Is(l, c)
                                 /\ Chances(email', l) = Chances(email, l) + LeftOf(l, c)
      BY <1>2, <3>1, PutCounts
    <3>3. ASSUME NEW l \in Messages
          PROVE  /\ Size(email, l) \in Nat /\ Chances(email, l) \in Nat
                 /\ Is(l, c) \in {0, 1} /\ LeftOf(l, c) \in 0 .. MaxRetries + 1
                 /\ l \notin published => Is(l, c) = 0 /\ LeftOf(l, c) = 0
      BY <1>2, <3>1, LeftType, CountType DEF Is, LeftOf
    <3> QED
      BY <1>1, <1>2, <3>2, <3>3
  <2> QED
    BY <2>1, <2>2
<1>5. ASSUME NEW l \in Messages PROVE Paid(l)'
  <2> DEFINE B == (MaxRetries + 1) * (1 + crashes)
             C == (MaxRetries + 1) * (1 + (crashes + 1))
  <2>1. B \in Int /\ C = B + MaxRetries + 1
    BY <1>2
  <2>2. /\ Size(email, l) \in Nat /\ Size(dlq, l) \in Nat /\ Size(email', l) \in Nat
        /\ Chances(email, l) \in Nat /\ Chances(dlq, l) \in Nat /\ Chances(email', l) \in Nat
    BY <1>2, <1>4, CountType
  <2>3. /\ mails[l] + Size(email, l) + Size(dlq, l) + HeldSize(l) <= 1 + crashes
        /\ attempts[l] + Chances(email, l) + Chances(dlq, l) + HeldChances(l) <= B
    BY DEF CountInv, Paid
  <2> HIDE DEF B, C
  <2>4. /\ mails[l] + Size(email', l) + Size(dlq, l) + 0 <= 1 + (crashes + 1)
        /\ attempts[l] + Chances(email', l) + Chances(dlq, l) + 0 <= C
    BY <1>2, <1>3, <1>4, <2>1, <2>2, <2>3
  <2> QED
    BY <1>1, <1>3, <2>4 DEF Paid, C
<1>6. \A l \in Messages \ published : Untouched(l)'
  BY <1>1, <1>3, <1>4 DEF Untouched, CountInv
<1>7. RetriesTried'
  <2>1. \A c \in Copies : email'[c] = email[c] \/ (held = c)
    BY <1>1, <1>2 DEF Redelivered, Put
  <2> QED
    BY <1>1, <2>1, NoCopyAssumption DEF RetriesTried, CountInv
<1> QED
  BY <1>1, <1>4, <1>5, <1>6, <1>7 DEF CountInv

LEMMA StepCounts == EmailInv /\ EmailInv' /\ CountInv /\ [Next]_vars => CountInv'
<1> SUFFICES ASSUME EmailInv, EmailInv', CountInv, [Next]_vars PROVE CountInv'
  OBVIOUS
<1>1. ASSUME UNCHANGED <<email, dlq, held, mails, crashes, published, attempts, exhausted>>,
             pc' = pc \/ (pc = "down" /\ pc' = "idle")
      PROVE  CountInv'
  <2>1. \A m \in Messages : HeldSize(m)' = HeldSize(m) /\ HeldChances(m)' = HeldChances(m)
    BY <1>1 DEF HeldSize, HeldChances
  <2> QED
    BY <1>1, <2>1 DEF CountInv, Paid, Untouched, RetriesTried
<1>2. CASE Start
  BY <1>1, <1>2 DEF Start, broker, environment, history
<1>3. CASE Tick
  BY <1>1, <1>3 DEF Tick, broker, worker, history
<1>4. CASE UNCHANGED vars
  BY <1>1, <1>4 DEF vars, broker, worker, environment, history
<1> QED
  BY <1>2, <1>3, <1>4, CountBroker, CountCallback, CountResend, CountCrash DEF Next, WorkerStep

-----------------------------------------------------------------------------
\* The inductive invariant. (main.py:37-49, senders.py:29-34)
THEOREM EmailInvariant == Spec => []EmailInv
BY InitInv, StepInv, PTL DEF Spec

\* Queues hold copies that check_to_resend knows how to stop, and the worker
\* holds one exactly when it is busy. (main.py:37-49, senders.py:29-34)
THEOREM EmailTyped == Spec => []TypeOK
<1>1. EmailInv => TypeOK
  BY DEF EmailInv
<1> QED
  BY EmailInvariant, <1>1, PTL

\* No message vanishes: whatever kills, refusals and exceptions come together,
\* a published message is on its way or has one of the known ends.
\* (main.py:37-49, senders.py:29-56)
THEOREM NoMessageVanishes == Spec => []Accounted
<1>1. EmailInv => Accounted
  BY DEF EmailInv
<1> QED
  BY EmailInvariant, <1>1, PTL

\* The inductive invariant of the counts. (main.py:37-49, senders.py:29-34)
THEOREM CountInvariant == Spec => []CountInv
BY EmailInvariant, InitCounts, StepCounts, PTL DEF Spec

\* A message is mailed at most once, and once more for every kill: no retry and
\* no exception leaves a second copy beside the mail. (main.py:37-49)
THEOREM SecondMailsNeedCrashes == Spec => []MailsNeedCrash
<1>1. EmailInv /\ CountInv => MailsNeedCrash
  <2> SUFFICES ASSUME EmailInv, CountInv, NEW m \in Messages
               PROVE  mails[m] + Live(m) <= 1 + crashes
    BY DEF MailsNeedCrash
  <2>1. /\ mails[m] \in Nat /\ Size(email, m) \in Nat /\ Size(dlq, m) \in Nat
        /\ HeldSize(m) \in Nat /\ crashes \in Nat
    BY HeldType, CountType DEF EmailInv, TypeOK, CountInv
  <2>2. mails[m] + Size(email, m) + Size(dlq, m) + HeldSize(m) <= 1 + crashes
    BY DEF CountInv, Paid
  <2>3. Live(m) = Size(email, m) + Size(dlq, m) + HeldSize(m)
    BY DEF Live, Size, HeldSize
  <2> QED
    BY <2>1, <2>2, <2>3
<1> QED
  BY EmailInvariant, CountInvariant, <1>1, PTL

\* The retries are neither cut short nor exceeded: a message is given up after
\* MaxRetries + 1 calls, and a kill grants it that many again at most.
\* (main.py:37-49, senders.py:29-34)
THEOREM RetriesWithinBudget == Spec => []RetryBudget
<1>1. EmailInv /\ CountInv => RetryBudget
  <2> SUFFICES ASSUME EmailInv, CountInv, NEW m \in Messages
               PROVE  /\ m \in exhausted => attempts[m] > MaxRetries
                      /\ attempts[m] <= (MaxRetries + 1) * (1 + crashes)
    BY DEF RetryBudget
  <2> DEFINE B == (MaxRetries + 1) * (1 + crashes)
  <2>1. /\ attempts[m] \in Nat /\ Chances(email, m) \in Nat /\ Chances(dlq, m) \in Nat
        /\ HeldChances(m) \in Nat /\ B \in Int
    BY HeldType, CountType, EmailAssumption DEF EmailInv, TypeOK, CountInv
  <2>2. attempts[m] + Chances(email, m) + Chances(dlq, m) + HeldChances(m) <= B
    BY DEF CountInv, Paid
  <2> HIDE DEF B
  <2>3. attempts[m] <= B
    BY <2>1, <2>2
  <2> QED
    BY <2>3 DEF CountInv, RetriesTried, B
<1> QED
  BY EmailInvariant, CountInvariant, <1>1, PTL

=============================================================================
