------------------------ MODULE NoticeScheduleProofs ------------------------
(***************************************************************************)
(* Proofs about NoticeSchedule for any notifications, celery processes and *)
(* bounds: its type, what the statuses done and failed say of the queue    *)
(* and of the broker, that tasks leave alone what people write, and that a *)
(* notice is published again only for a reason.                            *)
(***************************************************************************)
EXTENDS NoticeSchedule, FiniteSetTheorems, TLAPS

Stages == {"publish", "connect", "again", "ok", "error", "cut"}
Running(q) == q.at \in {"publish", "connect", "again"}

\* The notice is in the queue, or was.
Reached(n) == queue[n] > 0 \/ n \in left

\* An answer 200 follows a notice that reached the queue, an answer 500 a
\* failure of the broker; a call that cannot succeed any more met one already.
CallsTrue ==
    \A c \in Callers : call[c] # NoCall =>
        /\ call[c].at = "ok" => Reached(call[c].notice)
        /\ call[c].at = "error" => call[c].notice \in outage
        /\ Running(call[c]) /\ (~brokerUp \/ (call[c].at = "again" /\ ~open))
             => call[c].notice \in outage

\* A task holds a row as the last write of the admin left it.
BatchesTrue ==
    \A w \in Callers, n \in Notices :
        Holds(w, n) => \A c \in wish[n] : Content(batch[w][n]) = c

ScheduleInv ==
    ScheduleTypeOK /\ CallsTrue /\ DoneIsQueued /\ FailedNeedsOutage /\ EditsStay /\ BatchesTrue

-----------------------------------------------------------------------------
LEMMA NoCallIsNoCall == NoCall \notin Call
BY ApiAssumption DEF NoCall, Call

\* How a step of the handler changes its call.
LEMMA CallMoves ==
    ASSUME call \in [Callers -> Call \cup {NoCall}], NEW c \in Callers, call[c] # NoCall,
           NEW at \in Stages,
           \/ call' = [call EXCEPT ![c].at = at]
           \/ call' = [call EXCEPT ![c].at = at, ![c].sent = TRUE]
    PROVE  /\ call' \in [Callers -> Call \cup {NoCall}]
           /\ call[c].notice \in Notices
           /\ call'[c] # NoCall /\ call'[c].notice = call[c].notice /\ call'[c].at = at
           /\ \A x \in Callers \ {c} : call'[x] = call[x]
<1>1. call[c] \in Call
  OBVIOUS
<1>2. ASSUME NEW q \in Call, q.notice = call[c].notice, q.at = at, call' = [call EXCEPT ![c] = q]
      PROVE  /\ call' \in [Callers -> Call \cup {NoCall}]
             /\ call'[c] # NoCall /\ call'[c].notice = call[c].notice /\ call'[c].at = at
             /\ \A x \in Callers \ {c} : call'[x] = call[x]
  BY <1>2, NoCallIsNoCall
<1>3. CASE call' = [call EXCEPT ![c].at = at]
  <2> DEFINE q == [call[c] EXCEPT !.at = at]
  <2>1. q \in Call /\ q.notice = call[c].notice /\ q.at = at
    BY <1>1 DEF Call, Stages
  <2>2. call' = [call EXCEPT ![c] = q]
    BY <1>3
  <2> HIDE DEF q
  <2> QED
    BY <1>1, <1>2, <2>1, <2>2 DEF Call
<1>4. CASE call' = [call EXCEPT ![c].at = at, ![c].sent = TRUE]
  <2> DEFINE q == [call[c] EXCEPT !.at = at, !.sent = TRUE]
  <2>1. q \in Call /\ q.notice = call[c].notice /\ q.at = at
    BY <1>1 DEF Call, Stages
  <2>2. call' = [call EXCEPT ![c] = q]
    BY <1>4
  <2> HIDE DEF q
  <2> QED
    BY <1>1, <1>2, <2>1, <2>2 DEF Call
<1> QED
  BY <1>3, <1>4

LEMMA FaultCounts == MaxFaults \in Nat /\ faults \in 0 .. MaxFaults /\ Fault => faults' \in 0 .. MaxFaults
BY DEF Fault

LEMMA DeliverTyped ==
    ASSUME ApiTypeOK, NEW n \in Notices, Deliver(n)
    PROVE  /\ queue' \in [Notices -> Nat] /\ posts' \in [Notices -> Nat]
           /\ queue'[n] > 0 /\ \A m \in Notices : queue'[m] >= queue[m]
BY DEF ApiTypeOK, Deliver

LEMMA InitInv == ScheduleInit => ScheduleInv
<1> SUFFICES ASSUME ScheduleInit PROVE ScheduleInv
  OBVIOUS
<1>1. ApiTypeOK
  BY ApiAssumption DEF ScheduleInit, ApiInit, ApiTypeOK
<1>2. ScheduleTypeOK
  BY <1>1, ScheduleAssumption DEF ScheduleInit, ScheduleTypeOK, Times
<1>3. CallsTrue
  BY DEF ScheduleInit, ApiInit, CallsTrue
<1>4. DoneIsQueued /\ FailedNeedsOutage /\ EditsStay /\ BatchesTrue
  BY DEF ScheduleInit, DoneIsQueued, FailedNeedsOutage, EditsStay, BatchesTrue, Content, Holds
<1> QED
  BY <1>2, <1>3, <1>4 DEF ScheduleInv

-----------------------------------------------------------------------------
\* What a step of the API leaves true: its variables keep their types, its
\* calls keep their promises, and nothing that was reached is forgotten.
ApiKept ==
    /\ ApiTypeOK' /\ CallsTrue'
    /\ \A n \in Notices : Reached(n) => Reached(n)'
    /\ outage \subseteq outage'

\* What a call may rely on.
CallTrue(c) ==
    call[c] # NoCall =>
        /\ call[c].at = "ok" => Reached(call[c].notice)
        /\ call[c].at = "error" => call[c].notice \in outage
        /\ Running(call[c]) /\ (~brokerUp \/ (call[c].at = "again" /\ ~open))
             => call[c].notice \in outage

\* A call that a step does not change stays true when the step forgets nothing,
\* and when a connection or a broker that fails is recorded.
LEMMA OthersKept ==
    ASSUME ApiTypeOK, CallsTrue, NEW x \in Callers, call'[x] = call[x],
           \A n \in Notices : Reached(n) => Reached(n)',
           outage \subseteq outage',
           \/ UNCHANGED <<brokerUp, open>>
           \/ UNCHANGED brokerUp /\ open'
           \/ Calling \subseteq outage'
    PROVE  CallTrue(x)'
<1> SUFFICES ASSUME call[x] # NoCall PROVE CallTrue(x)'
  BY DEF CallTrue
<1>1. call[x].notice \in Notices /\ (Running(call[x]) => call[x].notice \in Calling)
  BY DEF ApiTypeOK, Call, Calling, Active, Running
<1> QED
  BY <1>1 DEF CallsTrue, CallTrue, Reached, Running

LEMMA StepHandler ==
    ASSUME ApiTypeOK, CallsTrue, NEW c \in Callers, ApiHandles(c)
    PROVE  ApiKept
<1> USE DEF Active, Publishing
<1>0. CallTrue(c)' /\ (\A x \in Callers \ {c} : CallTrue(x)') => CallsTrue'
  BY DEF CallsTrue, CallTrue
<1>1. ASSUME PublishOk(c) PROVE ApiKept
  <2>1. /\ call' \in [Callers -> Call \cup {NoCall}] /\ call[c].notice \in Notices
        /\ call'[c].notice = call[c].notice /\ call'[c].at = "ok"
        /\ \A x \in Callers \ {c} : call'[x] = call[x]
    BY <1>1, CallMoves DEF PublishOk, ApiTypeOK, Stages
  <2>2. /\ queue' \in [Notices -> Nat] /\ posts' \in [Notices -> Nat]
        /\ queue'[call[c].notice] > 0 /\ \A m \in Notices : queue'[m] >= queue[m]
    BY <1>1, <2>1, DeliverTyped DEF PublishOk
  <2>3. UNCHANGED <<brokerUp, apiUp, open, faults, left, repeats, outage>>
    BY <1>1 DEF PublishOk
  <2>4. ApiTypeOK'
    BY <2>1, <2>2, <2>3 DEF ApiTypeOK
  <2>5. \A n \in Notices : Reached(n) => Reached(n)'
    BY <2>2, <2>3 DEF Reached, ApiTypeOK
  <2>6. CallTrue(c)'
    BY <2>1, <2>2 DEF CallTrue, Reached, Running
  <2> QED
    BY <1>0, <2>1, <2>3, <2>4, <2>5, <2>6, OthersKept DEF ApiKept
<1>2. ASSUME PublishClosed(c) PROVE ApiKept
  <2>1. AfterRuntimeError(c) \in Stages
    BY DEF AfterRuntimeError, Stages
  <2>2. /\ call' \in [Callers -> Call \cup {NoCall}] /\ call[c].notice \in Notices
        /\ call'[c].notice = call[c].notice /\ call'[c].at = AfterRuntimeError(c)
        /\ \A x \in Callers \ {c} : call'[x] = call[x]
    BY <1>2, <2>1, CallMoves DEF PublishClosed, ApiTypeOK
  <2>3. UNCHANGED <<brokerUp, queue, apiUp, open, faults, left, posts, repeats, outage>>
    BY <1>2 DEF PublishClosed, apiHistory
  <2>4. ApiTypeOK'
    BY <2>2, <2>3 DEF ApiTypeOK
  <2>5. \A n \in Notices : Reached(n) => Reached(n)'
    BY <2>3 DEF Reached
  <2>6. CallTrue(c)'
    BY <1>2, <2>2, <2>3
    DEF CallTrue, CallsTrue, Running, PublishClosed, AfterRuntimeError
  <2> QED
    BY <1>0, <2>2, <2>3, <2>4, <2>5, <2>6, OthersKept DEF ApiKept
<1>3. ASSUME PublishBreaks(c) PROVE ApiKept
  <2>1. PICK at \in {AfterRuntimeError(c), OtherError} :
          \/ /\ call' = [call EXCEPT ![c].at = at]
             /\ UNCHANGED <<queue, posts, repeats>>
          \/ /\ call' = [call EXCEPT ![c].at = at, ![c].sent = TRUE]
             /\ Deliver(call[c].notice)
             /\ repeats' = IF at = "connect"
                           THEN [repeats EXCEPT ![call[c].notice] = @ + 1]
                           ELSE repeats
    BY <1>3 DEF PublishBreaks
  <2>2. at \in {"connect", "error"} /\ at \in Stages
    BY DEF AfterRuntimeError, OtherError, Stages
  <2>3. /\ call' \in [Callers -> Call \cup {NoCall}] /\ call[c].notice \in Notices
        /\ call'[c].notice = call[c].notice /\ call'[c].at = at
        /\ \A x \in Callers \ {c} : call'[x] = call[x]
    BY <1>3, <2>1, <2>2, CallMoves DEF PublishBreaks, ApiTypeOK
  <2>4. /\ queue' \in [Notices -> Nat] /\ posts' \in [Notices -> Nat]
        /\ repeats' \in [Notices -> Nat] /\ \A m \in Notices : queue'[m] >= queue[m]
    BY <2>1, <2>3, DeliverTyped DEF ApiTypeOK
  <2>5. /\ UNCHANGED <<brokerUp, apiUp, left>> /\ open' = FALSE
        /\ outage' = outage \cup Calling /\ faults' \in 0 .. MaxFaults
    BY <1>3, ApiAssumption, FaultCounts DEF PublishBreaks, ApiTypeOK
  <2>6. Calling \subseteq Notices /\ call[c].notice \in Calling
    BY <1>3 DEF PublishBreaks, Calling, ApiTypeOK, Call
  <2>7. ApiTypeOK'
    BY <2>3, <2>4, <2>5, <2>6 DEF ApiTypeOK
  <2>8. \A n \in Notices : Reached(n) => Reached(n)'
    BY <2>4, <2>5 DEF Reached, ApiTypeOK
  <2>9. CallTrue(c)'
    BY <2>2, <2>3, <2>5, <2>6 DEF CallTrue
  <2> QED
    BY <1>0, <2>3, <2>5, <2>7, <2>8, <2>9, OthersKept DEF ApiKept
<1>4. ASSUME Connect(c) PROVE ApiKept
  <2>1. /\ call' \in [Callers -> Call \cup {NoCall}] /\ call'[c].at = "again"
        /\ \A x \in Callers \ {c} : call'[x] = call[x]
    BY <1>4, CallMoves DEF Connect, ApiTypeOK, Stages
  <2>2. /\ UNCHANGED <<brokerUp, queue, apiUp, faults, left, posts, repeats, outage>>
        /\ open' = TRUE /\ brokerUp
    BY <1>4 DEF Connect, apiHistory
  <2>3. ApiTypeOK'
    BY <2>1, <2>2 DEF ApiTypeOK
  <2>4. \A n \in Notices : Reached(n) => Reached(n)'
    BY <2>2 DEF Reached
  <2>5. CallTrue(c)'
    BY <2>1, <2>2 DEF CallTrue
  <2> QED
    BY <1>0, <2>1, <2>2, <2>3, <2>4, <2>5, OthersKept DEF ApiKept
<1>5. ASSUME ConnectFails(c) PROVE ApiKept
  <2>1. /\ call' \in [Callers -> Call \cup {NoCall}] /\ call'[c].at = "error"
        /\ call'[c].notice = call[c].notice
        /\ \A x \in Callers \ {c} : call'[x] = call[x]
    BY <1>5, CallMoves DEF ConnectFails, ApiTypeOK, Stages
  <2>2. UNCHANGED <<brokerUp, queue, apiUp, open, faults, left, posts, repeats, outage>>
    BY <1>5 DEF ConnectFails, apiHistory
  <2>3. ApiTypeOK'
    BY <2>1, <2>2 DEF ApiTypeOK
  <2>4. \A n \in Notices : Reached(n) => Reached(n)'
    BY <2>2 DEF Reached
  <2>5. CallTrue(c)'
    BY <1>5, <2>1, <2>2 DEF CallTrue, CallsTrue, Running, ConnectFails
  <2> QED
    BY <1>0, <2>1, <2>2, <2>3, <2>4, <2>5, OthersKept DEF ApiKept
<1> QED
  BY <1>1, <1>2, <1>3, <1>4, <1>5 DEF ApiHandles

\* The rest of the API, the broker and the ETL.
LEMMA StepApi ==
    ASSUME ApiTypeOK, CallsTrue, ApiNext
    PROVE  ApiKept
<1>0. (\A x \in Callers : CallTrue(x)') => CallsTrue'
  BY DEF CallsTrue, CallTrue
<1>1. ASSUME ApiDies PROVE ApiKept
  <2>1. ASSUME NEW c \in Callers
        PROVE  /\ call'[c] \in Call \cup {NoCall}
               /\ call'[c] # NoCall => call'[c].at = "cut"
    <3>1. CASE call[c] = NoCall
      BY <1>1, <3>1 DEF ApiDies
    <3>2. CASE call[c] # NoCall
      <4>1. call[c] \in Call
        BY <3>2 DEF ApiTypeOK
      <4>2. call'[c] = [call[c] EXCEPT !.at = "cut"]
        BY <1>1, <3>2 DEF ApiDies
      <4> QED
        BY <4>1, <4>2 DEF Call
    <3> QED
      BY <3>1, <3>2
  <2>2. call' \in [Callers -> Call \cup {NoCall}]
    <3>1. call' = [c \in Callers |-> call'[c]]
      BY <1>1 DEF ApiDies
    <3> QED
      BY <2>1, <3>1
  <2>3. /\ UNCHANGED <<brokerUp, queue, left, posts, repeats, outage>>
        /\ apiUp' = FALSE /\ open' = FALSE /\ faults' \in 0 .. MaxFaults
    BY <1>1, ApiAssumption, FaultCounts DEF ApiDies, apiHistory, ApiTypeOK
  <2>4. ApiTypeOK'
    BY <2>2, <2>3 DEF ApiTypeOK
  <2>5. CallsTrue'
    BY <2>1 DEF CallsTrue, Running
  <2> QED
    BY <2>3, <2>4, <2>5 DEF ApiKept, Reached
<1>2. ASSUME ApiStarts \/ BrokerStarts PROVE ApiKept
  <2>1. /\ UNCHANGED <<queue, call, faults, left, posts, repeats, outage>>
        /\ brokerUp' \in BOOLEAN /\ apiUp' \in BOOLEAN /\ open' \in BOOLEAN
    BY <1>2 DEF ApiStarts, BrokerStarts, apiHistory, ApiTypeOK
  <2>2. ApiTypeOK'
    BY <2>1 DEF ApiTypeOK
  <2>3. \A n \in Notices : Reached(n) => Reached(n)'
    BY <2>1 DEF Reached
  <2>4. CallsTrue'
    BY <1>2, <2>1 DEF CallsTrue, Reached, Running, ApiStarts, BrokerStarts
  <2> QED
    BY <2>1, <2>2, <2>3, <2>4 DEF ApiKept
<1>3. ASSUME BrokerStops PROVE ApiKept
  <2>1. /\ UNCHANGED <<apiUp, call, posts, repeats>> /\ brokerUp' = FALSE /\ open' = FALSE
        /\ queue' = [n \in Notices |-> 0] /\ left' = left \cup {n \in Notices : queue[n] > 0}
        /\ outage' = outage \cup Calling /\ faults' \in 0 .. MaxFaults
    BY <1>3, ApiAssumption, FaultCounts DEF BrokerStops, ApiTypeOK
  <2>2. Calling \subseteq Notices
    BY DEF Calling, Active, ApiTypeOK, Call
  <2>3. ApiTypeOK'
    BY <2>1, <2>2 DEF ApiTypeOK
  <2>4. \A n \in Notices : Reached(n) => Reached(n)'
    BY <2>1 DEF Reached
  <2>5. \A x \in Callers : CallTrue(x)'
    BY <2>1, <2>4, OthersKept
  <2> QED
    BY <1>0, <2>1, <2>3, <2>4, <2>5 DEF ApiKept
<1>4. ASSUME NEW n \in Notices, Consume(n) PROVE ApiKept
  <2>1. /\ UNCHANGED <<brokerUp, apiUp, open, call, faults, posts, repeats, outage>>
        /\ queue' = [queue EXCEPT ![n] = @ - 1] /\ queue[n] > 0 /\ left' = left \cup {n}
    BY <1>4 DEF Consume
  <2>2. ApiTypeOK'
    BY <2>1 DEF ApiTypeOK
  <2>3. \A m \in Notices : Reached(m) => Reached(m)'
    BY <2>1 DEF Reached, ApiTypeOK
  <2>4. \A x \in Callers : CallTrue(x)'
    BY <2>1, <2>3, OthersKept
  <2> QED
    BY <1>0, <2>1, <2>2, <2>3, <2>4 DEF ApiKept
<1> QED
  BY <1>1, <1>2, <1>3, <1>4, StepHandler DEF ApiNext

-----------------------------------------------------------------------------
LEMMA ExplainTyped ==
    ASSUME ApiTypeOK, NEW n \in Notices, NEW yes, Explain(n, yes)
    PROVE  repeats' \in [Notices -> Nat]
BY DEF ApiTypeOK, Explain

\* Statuses stay explained when rows stay.
LEMMA StatusesKept ==
    ASSUME DoneIsQueued, FailedNeedsOutage, UNCHANGED <<row, byHand>>,
           \A n \in Notices : Reached(n) => Reached(n)', outage \subseteq outage'
    PROVE  DoneIsQueued' /\ FailedNeedsOutage'
BY DEF DoneIsQueued, FailedNeedsOutage, Reached

\* Edits stay when rows stay and tasks hold no more than before.
LEMMA EditsKept ==
    ASSUME EditsStay, BatchesTrue, UNCHANGED <<row, wish>>,
           \A w \in Callers, n \in Notices :
               batch'[w][n] \in {Absent, batch[w][n], row[n]}
    PROVE  EditsStay' /\ BatchesTrue'
<1>1. EditsStay'
  BY DEF EditsStay
<1>2. ASSUME NEW w \in Callers, NEW n \in Notices, Holds(w, n)', NEW c \in wish'[n]
      PROVE  Content(batch'[w][n]) = c
  <2>1. batch'[w][n] # Absent
    BY <1>2 DEF Holds
  <2>2. CASE batch'[w][n] = batch[w][n]
    BY <1>2, <2>1, <2>2 DEF BatchesTrue, Holds
  <2>3. CASE batch'[w][n] = row[n]
    BY <1>2, <2>3 DEF EditsStay
  <2> QED
    BY <2>1, <2>2, <2>3
<1> QED
  BY <1>1, <1>2 DEF BatchesTrue

\* The task of w puts a row away.
LEMMA PutAway ==
    ASSUME ScheduleTypeOK, NEW w \in Callers, NEW n \in Notices,
           batch' = [batch EXCEPT ![w][n] = Absent]
    PROVE  /\ batch' \in [Callers -> [Notices -> Row \cup {Absent}]]
           /\ \A v \in Callers, m \in Notices : batch'[v][m] \in {Absent, batch[v][m]}
BY DEF ScheduleTypeOK

\* A call begins or ends; nothing else of the API changes but its history.
LEMMA CallReplaced ==
    ASSUME ApiTypeOK, CallsTrue, NEW w \in Callers, NEW q \in Call \cup {NoCall},
           call' = [call EXCEPT ![w] = q],
           q # NoCall => q.at = "publish" /\ (~brokerUp => q.notice \in outage'),
           UNCHANGED <<brokerUp, queue, apiUp, open, faults, left, posts>>,
           repeats' \in [Notices -> Nat], outage \subseteq outage', outage' \subseteq Notices
    PROVE  ApiKept
<1>1. /\ call' \in [Callers -> Call \cup {NoCall}] /\ call'[w] = q
      /\ \A x \in Callers \ {w} : call'[x] = call[x]
  BY DEF ApiTypeOK
<1>2. ApiTypeOK'
  BY <1>1 DEF ApiTypeOK
<1>3. \A n \in Notices : Reached(n) => Reached(n)'
  BY DEF Reached
<1>4. CallTrue(w)'
  BY <1>1 DEF CallTrue
<1>5. \A x \in Callers \ {w} : CallTrue(x)'
  BY <1>1, <1>3, OthersKept
<1>6. CallsTrue'
  BY <1>4, <1>5 DEF CallsTrue, CallTrue
<1> QED
  BY <1>2, <1>3, <1>6 DEF ApiKept

\* What the steps of a task leave true.
LEMMA StepTask ==
    ASSUME ScheduleInv, NEW w \in Callers,
           SendNotifications(w) \/ TaskDies(w) \/ \E n \in Notices : MessageFails(w, n)
    PROVE  ScheduleInv'
<1> USE DEF ScheduleInv
<1>0. ApiTypeOK /\ (UNCHANGED <<apiVars, apiHistory>> => ApiKept)
  <2>1. ASSUME UNCHANGED <<apiVars, apiHistory>> PROVE ApiKept
    BY <2>1 DEF ScheduleTypeOK, apiVars, apiHistory, ApiKept, ApiTypeOK, CallsTrue, Reached, Running
  <2> QED
    BY <2>1 DEF ScheduleTypeOK
<1>1. ASSUME TakeTask(w) PROVE ScheduleInv'
  <2>1. /\ UNCHANGED <<row, fresh, edits, now, lastBeat, kills, byHand, wish>> /\ ApiKept
        /\ backlog' \in 0 .. MaxBacklog
    BY <1>0, <1>1, ScheduleAssumption DEF TakeTask, ScheduleTypeOK
  <2>2. /\ batch' \in [Callers -> [Notices -> Row \cup {Absent}]]
        /\ \A v \in Callers, n \in Notices : batch'[v][n] \in {Absent, batch[v][n], row[n]}
    BY <1>1 DEF TakeTask, ScheduleTypeOK
  <2>3. ScheduleTypeOK'
    BY <2>1, <2>2 DEF ApiKept, ScheduleTypeOK
  <2> QED
    BY <2>1, <2>2, <2>3, StatusesKept, EditsKept DEF ApiKept
<1>2. ASSUME NEW n \in Notices, Post(w, n) PROVE ScheduleInv'
  <2>1. /\ NewCall(n) \in Call /\ NewCall(n).at = "publish" /\ NewCall(n).notice = n
        /\ call' = [call EXCEPT ![w] = NewCall(n)]
    BY <1>2 DEF Post, NewCall, Call
  <2>2. repeats' \in [Notices -> Nat]
    BY <1>0, <1>2, ExplainTyped DEF Post
  <2>3. /\ UNCHANGED <<brokerUp, queue, apiUp, open, faults, left, posts>>
        /\ UNCHANGED <<row, fresh, edits, now, lastBeat, backlog, kills, batch, byHand, wish>>
        /\ outage \subseteq outage' /\ outage' \subseteq Notices /\ (~brokerUp => n \in outage')
    BY <1>0, <1>2 DEF Post, scheduleVars, ApiTypeOK
  <2>4. ApiKept
    BY <1>0, <2>1, <2>2, <2>3, CallReplaced
  <2>5. ScheduleTypeOK'
    BY <2>3, <2>4 DEF ApiKept, ScheduleTypeOK
  <2> QED
    BY <2>3, <2>4, <2>5, StatusesKept, EditsKept DEF ApiKept
<1>3. ASSUME NEW n \in Notices, PostFails(w, n) PROVE ScheduleInv'
  <2>1. /\ UNCHANGED <<row, fresh, edits, now, lastBeat, backlog, kills, byHand, wish>> /\ ApiKept
        /\ batch' = [batch EXCEPT ![w][n] = Absent]
    BY <1>0, <1>3 DEF PostFails
  <2>2. ScheduleTypeOK'
    BY <2>1, PutAway DEF ApiKept, ScheduleTypeOK
  <2> QED
    BY <2>1, <2>2, PutAway, StatusesKept, EditsKept DEF ApiKept
<1>4. ASSUME Receive(w) PROVE ScheduleInv'
  <2> DEFINE n == call[w].notice
             r == Saved(batch[w][n], call[w].at)
  <2>1. n \in Notices /\ call[w] # NoCall /\ call[w].at \in {"ok", "error"}
    BY <1>0, <1>4 DEF Receive, Posting, ApiTypeOK, Call
  <2>2. batch[w][n] \in Row
    BY <1>4, <2>1 DEF Receive, Posting, Holds, ScheduleTypeOK
  <2>3. /\ r \in Row /\ r.status = Status(call[w].at)
        /\ r.due = batch[w][n].due /\ r.edition = batch[w][n].edition
    BY <2>2 DEF Saved, Row, Status, Statuses
  <2>4. /\ row' = [row EXCEPT ![n] = r] /\ batch' = [batch EXCEPT ![w][n] = Absent]
        /\ byHand' = byHand \ {n} /\ call' = [call EXCEPT ![w] = NoCall]
        /\ UNCHANGED <<brokerUp, queue, apiUp, open, faults, left, posts, repeats, outage>>
        /\ UNCHANGED <<fresh, edits, now, lastBeat, backlog, kills, wish>>
    BY <1>4 DEF Receive, apiHistory
  <2> HIDE DEF r
  <2>5. ApiKept
    BY <1>0, <2>4, CallReplaced DEF ApiTypeOK
  <2>6. /\ row'[n] = r /\ row' \in [Notices -> Row \cup {Absent}]
        /\ \A m \in Notices \ {n} : row'[m] = row[m]
    BY <2>1, <2>3, <2>4 DEF ScheduleTypeOK
  <2>7. ScheduleTypeOK'
    BY <2>1, <2>4, <2>5, <2>6, PutAway DEF ApiKept, ScheduleTypeOK
  <2>8. DoneIsQueued'
    <3>1. r.status = "done" => Reached(n)
      BY <2>1, <2>3 DEF Status, CallsTrue
    <3> QED
      BY <2>1, <2>4, <2>6, <3>1 DEF DoneIsQueued, Reached
  <2>9. FailedNeedsOutage'
    <3>1. r.status = "failed" => n \in outage
      BY <2>1, <2>3 DEF Status, CallsTrue
    <3> QED
      BY <2>1, <2>4, <2>6, <3>1 DEF FailedNeedsOutage
  <2>10. EditsStay'
    <3>1. Content(r) = Content(batch[w][n])
      BY <2>2, <2>3, AbsentAssumption DEF Content
    <3>2. \A c \in wish[n] : Content(r) = c
      BY <1>4, <2>1, <3>1 DEF Receive, Posting, BatchesTrue
    <3>3. \A m \in Notices : \A c \in wish[m] : Content(row'[m]) = c
      BY <2>1, <2>6, <3>2 DEF EditsStay
    <3> QED
      BY <2>4, <3>3 DEF EditsStay
  <2>11. BatchesTrue'
    <3>1. \A v \in Callers, m \in Notices : batch'[v][m] \in {Absent, batch[v][m]}
      BY <2>1, <2>4, PutAway
    <3> QED
      BY <2>4, <3>1 DEF BatchesTrue, Holds
  <2> QED
    BY <2>5, <2>7, <2>8, <2>9, <2>10, <2>11 DEF ApiKept
<1>5. ASSUME ReceiveNothing(w) PROVE ScheduleInv'
  <2> DEFINE n == call[w].notice
  <2>1. n \in Notices
    BY <1>0, <1>5 DEF ReceiveNothing, Posting, ApiTypeOK, Call
  <2>2. /\ batch' = [batch EXCEPT ![w][n] = Absent] /\ call' = [call EXCEPT ![w] = NoCall]
        /\ UNCHANGED <<brokerUp, queue, apiUp, open, faults, left, posts, outage>>
        /\ UNCHANGED <<row, fresh, edits, now, lastBeat, backlog, kills, byHand, wish>>
        /\ repeats' \in [Notices -> Nat]
    BY <1>0, <1>5, <2>1, ExplainTyped DEF ReceiveNothing
  <2>3. ApiKept
    BY <1>0, <2>2, CallReplaced DEF ApiTypeOK
  <2> HIDE DEF n
  <2>4. ScheduleTypeOK'
    BY <2>1, <2>2, <2>3, PutAway DEF ApiKept, ScheduleTypeOK
  <2> QED
    BY <2>1, <2>2, <2>3, <2>4, PutAway, StatusesKept, EditsKept DEF ApiKept
<1>6. ASSUME Replaced(w) PROVE ScheduleInv'
  <2>1. call[w].notice \in Notices
    BY <1>0, <1>6 DEF Replaced, Finished, ApiTypeOK, Call
  <2>2. /\ call' = [call EXCEPT ![w] = NoCall] /\ repeats' \in [Notices -> Nat]
        /\ UNCHANGED <<brokerUp, queue, apiUp, open, faults, left, posts, outage>>
        /\ UNCHANGED <<row, fresh, edits, now, lastBeat, backlog, kills, batch, byHand, wish>>
    BY <1>0, <1>6, <2>1, ExplainTyped DEF Replaced, scheduleVars
  <2>3. ApiKept
    BY <1>0, <2>2, CallReplaced DEF ApiTypeOK
  <2>4. ScheduleTypeOK'
    BY <2>2, <2>3 DEF ApiKept, ScheduleTypeOK
  <2> QED
    BY <2>2, <2>3, <2>4, StatusesKept, EditsKept DEF ApiKept
<1>7. ASSUME TaskDies(w) PROVE ScheduleInv'
  <2>1. /\ UNCHANGED <<row, fresh, edits, now, lastBeat, backlog, byHand, wish>> /\ ApiKept
        /\ kills' \in 0 .. MaxKills
    BY <1>0, <1>7, ScheduleAssumption DEF TaskDies, ScheduleTypeOK
  <2>2. /\ batch' \in [Callers -> [Notices -> Row \cup {Absent}]]
        /\ \A v \in Callers, n \in Notices : batch'[v][n] \in {Absent, batch[v][n], row[n]}
    BY <1>7 DEF TaskDies, ScheduleTypeOK
  <2>3. ScheduleTypeOK'
    BY <2>1, <2>2 DEF ApiKept, ScheduleTypeOK
  <2> QED
    BY <2>1, <2>2, <2>3, StatusesKept, EditsKept DEF ApiKept
<1>8. ASSUME NEW n \in Notices, MessageFails(w, n) PROVE ScheduleInv'
  <2>1. /\ UNCHANGED <<row, fresh, edits, now, lastBeat, backlog, byHand, wish>> /\ ApiKept
        /\ batch' = [batch EXCEPT ![w][n] = Absent] /\ kills' \in 0 .. MaxKills
    BY <1>0, <1>8, ScheduleAssumption DEF MessageFails, ScheduleTypeOK
  <2>2. ScheduleTypeOK'
    BY <2>1, PutAway DEF ApiKept, ScheduleTypeOK
  <2> QED
    BY <2>1, <2>2, PutAway, StatusesKept, EditsKept DEF ApiKept
<1> QED
  BY <1>1, <1>2, <1>3, <1>4, <1>5, <1>6, <1>7, <1>8 DEF SendNotifications

\* A write of the admin keeps types and edits.
LEMMA WriteKept ==
    ASSUME ScheduleTypeOK, EditsStay, BatchesTrue, NEW n \in Notices,
           NEW r \in Row \cup {Absent}, Write(n, r), UNCHANGED batch
    PROVE  /\ row' \in [Notices -> Row \cup {Absent}] /\ row'[n] = r
           /\ \A m \in Notices \ {n} : row'[m] = row[m]
           /\ wish' \in [Notices -> SUBSET ({Absent} \cup (Times \X (0 .. MaxEdits)))]
           /\ EditsStay' /\ BatchesTrue'
<1>1. /\ row' \in [Notices -> Row \cup {Absent}] /\ row'[n] = r
      /\ \A m \in Notices \ {n} : row'[m] = row[m]
  BY DEF Write, ScheduleTypeOK
<1>2. /\ wish'[n] = IF Held(n) THEN {} ELSE {Content(r)}
      /\ \A m \in Notices \ {n} : wish'[m] = wish[m]
      /\ Content(r) \in {Absent} \cup (Times \X (0 .. MaxEdits))
  BY DEF Write, ScheduleTypeOK, Content, Row
<1>3. wish' \in [Notices -> SUBSET ({Absent} \cup (Times \X (0 .. MaxEdits)))]
  <2>1. (IF Held(n) THEN {} ELSE {Content(r)}) \subseteq {Absent} \cup (Times \X (0 .. MaxEdits))
    BY <1>2
  <2> QED
    BY <2>1 DEF Write, ScheduleTypeOK
<1>4. EditsStay'
  BY <1>1, <1>2 DEF EditsStay, Content
<1>5. BatchesTrue'
  BY <1>2 DEF BatchesTrue, Held, Holds
<1> QED
  BY <1>1, <1>3, <1>4, <1>5

LEMMA StepAdmin ==
    ASSUME ScheduleInv, NEW n \in Notices, Create(n) \/ SaveForm(n) \/ Delete(n)
    PROVE  ScheduleInv'
<1> USE DEF ScheduleInv
<1>1. ApiTypeOK /\ UNCHANGED <<apiVars, left, posts, outage>> /\ repeats' \in [Notices -> Nat]
  <2>1. ApiTypeOK
    BY DEF ScheduleTypeOK
  <2>2. CASE Create(n) \/ Delete(n)
    BY <2>1, <2>2 DEF Create, Delete, apiHistory, ApiTypeOK
  <2>3. CASE SaveForm(n)
    BY <2>1, <2>3, ExplainTyped DEF SaveForm
  <2> QED
    BY <2>1, <2>2, <2>3
<1>2. ApiKept
  BY <1>1 DEF ApiKept, ApiTypeOK, apiVars, CallsTrue, Reached, Running
<1>3. /\ UNCHANGED <<now, lastBeat, backlog, kills, batch>>
      /\ fresh' \subseteq Notices /\ edits' \in 0 .. MaxEdits
  BY ScheduleAssumption DEF Create, SaveForm, Delete, ScheduleTypeOK
<1>4. PICK r \in Row \cup {Absent} :
        /\ Write(n, r)
        /\ byHand' \subseteq Notices
        /\ byHand \ {n} \subseteq byHand'
        /\ \/ r = Absent \/ r.status = "waiting" \/ n \in byHand'
           \/ row[n] # Absent /\ r.status = row[n].status /\ byHand' = byHand
  <2>1. CASE Create(n)
    <3>1. PICK d \in ValidTimes, s \in Statuses :
            /\ Write(n, [status |-> s, due |-> d, edition |-> 0])
            /\ byHand' = IF s = "waiting" THEN byHand ELSE byHand \cup {n}
      BY <2>1 DEF Create
    <3>2. [status |-> s, due |-> d, edition |-> 0] \in Row
      BY ScheduleAssumption DEF Row, ValidTimes
    <3> QED
      BY <3>1, <3>2 DEF ScheduleTypeOK
  <2>2. CASE SaveForm(n)
    <3>1. PICK d \in ValidTimes, s \in Statuses :
            /\ Write(n, [status |-> s, due |-> d, edition |-> edits + 1])
            /\ byHand' = IF s = "waiting" THEN byHand \ {n}
                         ELSE IF s = row[n].status THEN byHand ELSE byHand \cup {n}
      BY <2>2 DEF SaveForm
    <3>2. [status |-> s, due |-> d, edition |-> edits + 1] \in Row
      BY <2>2, ScheduleAssumption DEF Row, ValidTimes, SaveForm, ScheduleTypeOK
    <3>3. row[n] # Absent
      BY <2>2 DEF SaveForm
    <3> QED
      BY <3>1, <3>2, <3>3 DEF ScheduleTypeOK
  <2>3. CASE Delete(n)
    BY <2>3 DEF Delete, ScheduleTypeOK
  <2> QED
    BY <2>1, <2>2, <2>3
<1>5. /\ row' \in [Notices -> Row \cup {Absent}] /\ row'[n] = r
      /\ \A m \in Notices \ {n} : row'[m] = row[m]
      /\ wish' \in [Notices -> SUBSET ({Absent} \cup (Times \X (0 .. MaxEdits)))]
      /\ EditsStay' /\ BatchesTrue'
  BY <1>3, <1>4, WriteKept
<1>6. ScheduleTypeOK'
  BY <1>2, <1>3, <1>4, <1>5 DEF ApiKept, ScheduleTypeOK
<1>7. DoneIsQueued' /\ FailedNeedsOutage'
  <2>1. UNCHANGED <<queue, left, outage>>
    BY <1>1 DEF apiVars
  <2>2. ASSUME NEW m \in Notices, m \notin byHand', row'[m] # Absent
        PROVE  /\ row'[m].status = "done" => Reached(m)
               /\ row'[m].status = "failed" => m \in outage
    <3>1. \/ row'[m].status = "waiting"
          \/ m \notin byHand /\ row[m] # Absent /\ row'[m].status = row[m].status
      BY <1>4, <1>5, <2>2
    <3> QED
      BY <3>1 DEF DoneIsQueued, FailedNeedsOutage, Reached
  <2> QED
    BY <2>1, <2>2 DEF DoneIsQueued, FailedNeedsOutage, Reached
<1> QED
  BY <1>2, <1>5, <1>6, <1>7 DEF ApiKept

\* Every step keeps the invariant.
LEMMA StepInv == ScheduleInv /\ [ScheduleNext]_allScheduleVars => ScheduleInv'
<1> SUFFICES ASSUME ScheduleInv, [ScheduleNext]_allScheduleVars PROVE ScheduleInv'
  OBVIOUS
<1> USE DEF ScheduleInv
<1>1. ASSUME ApiKept, UNCHANGED <<row, byHand, wish, batch, fresh, edits, kills>>,
             now' \in Times, lastBeat' \in Times, backlog' \in 0 .. MaxBacklog
      PROVE  ScheduleInv'
  <2>1. ScheduleTypeOK'
    BY <1>1 DEF ApiKept, ScheduleTypeOK
  <2> QED
    BY <1>1, <2>1, StatusesKept, EditsKept DEF ApiKept
<1>2. ApiTypeOK /\ (UNCHANGED <<apiVars, apiHistory>> => ApiKept)
  <2>1. ASSUME UNCHANGED <<apiVars, apiHistory>> PROVE ApiKept
    BY <2>1 DEF ScheduleTypeOK, apiVars, apiHistory, ApiKept, ApiTypeOK, CallsTrue, Reached, Running
  <2> QED
    BY <2>1 DEF ScheduleTypeOK
<1>3. CASE ApiNext /\ UNCHANGED scheduleVars
  <2>1. ApiKept
    BY <1>2, <1>3, StepApi
  <2> QED
    BY <1>1, <1>3, <2>1 DEF scheduleVars, ScheduleTypeOK
<1>4. CASE Tick
  BY <1>1, <1>2, <1>4, ScheduleAssumption DEF Tick, Times, ScheduleTypeOK
<1>5. CASE Beat
  BY <1>1, <1>2, <1>5, ScheduleAssumption DEF Beat, ScheduleTypeOK
<1>6. CASE UNCHANGED allScheduleVars
  BY <1>1, <1>2, <1>6 DEF allScheduleVars, scheduleVars, ScheduleTypeOK
<1> QED
  BY <1>3, <1>4, <1>5, <1>6, StepTask, StepAdmin DEF ScheduleNext

-----------------------------------------------------------------------------
(***************************************************************************)
(* RepeatsExplained.  A notice has a right to be published: a notification *)
(* that waits and that nobody calls about has one, a call takes it over    *)
(* and keeps it until it has published and will not try again.             *)
(***************************************************************************)
CallsFor(n) == {c \in Callers : call[c] # NoCall /\ call[c].notice = n}

\* The calls that have a right: they may still publish, or end without having.
Pends(n) == {c \in CallsFor(n) : Running(call[c]) \/ ~call[c].sent}

Entitled(n) ==
    /\ CallsFor(n) = {}
    /\ n \in fresh \/ (row[n] # Absent /\ row[n].status = "waiting")

Rights(n) == Cardinality(Pends(n)) + (IF Entitled(n) THEN 1 ELSE 0)

\* What was published and what may be needs an event each, but for the first.
RightsKept ==
    \A n \in Notices : IsFiniteSet(Pends(n)) /\ posts[n] + Rights(n) <= 1 + repeats[n]

\* What nobody created is in no row, and in no task.
FreshUnheld == \A n \in fresh : row[n] = Absent /\ \A w \in Callers : ~Holds(w, n)

RepeatInv == ScheduleInv /\ RightsKept /\ FreshUnheld

\* The ways of a step with the rights to a notice: nothing new, an event that
\* explains one more, a publish that such an event explains, a publish that uses a
\* right up, a right that returns, and a call that takes a right over.
Passes(n) ==
    \/ /\ posts'[n] = posts[n] /\ repeats'[n] >= repeats[n]
       /\ Pends(n)' \subseteq Pends(n) /\ (Entitled(n)' => Entitled(n))
    \/ /\ posts'[n] = posts[n] /\ repeats'[n] = repeats[n] + 1
       /\ Pends(n)' \subseteq Pends(n)
    \/ /\ posts'[n] = posts[n] + 1 /\ repeats'[n] = repeats[n] + 1
       /\ Pends(n)' \subseteq Pends(n) /\ ~Entitled(n)'
    \/ /\ posts'[n] = posts[n] + 1 /\ repeats'[n] = repeats[n] /\ ~Entitled(n)'
       /\ \E c \in Pends(n) : Pends(n)' \subseteq Pends(n) \ {c}
    \/ /\ posts'[n] = posts[n] /\ repeats'[n] = repeats[n]
       /\ \E c \in Pends(n) : Pends(n)' \subseteq Pends(n) \ {c}
    \/ /\ posts'[n] = posts[n] /\ ~Entitled(n)'
       /\ repeats'[n] = repeats[n] + 1 \/ (Entitled(n) /\ repeats'[n] = repeats[n])
       /\ \E c \in Callers : Pends(n)' = Pends(n) \cup {c}

LEMMA RightsStep ==
    ASSUME ScheduleTypeOK, ScheduleTypeOK', RightsKept, NEW n \in Notices, Passes(n)
    PROVE  IsFiniteSet(Pends(n)') /\ posts'[n] + Rights(n)' <= 1 + repeats'[n]
<1> DEFINE P == Pends(n)
           Q == Pends(n)'
           e == IF Entitled(n) THEN 1 ELSE 0
           f == IF Entitled(n)' THEN 1 ELSE 0
<1>1. /\ IsFiniteSet(P) /\ Cardinality(P) \in Nat /\ posts[n] + Cardinality(P) + e <= 1 + repeats[n]
      /\ posts[n] \in Nat /\ repeats[n] \in Nat
  BY FS_CardinalityType DEF RightsKept, Rights, ScheduleTypeOK, ApiTypeOK
<1>2. posts'[n] \in Nat /\ repeats'[n] \in Nat /\ e \in {0, 1} /\ f \in {0, 1}
  BY DEF ScheduleTypeOK, ApiTypeOK
<1>3. SUFFICES IsFiniteSet(Q) /\ posts'[n] + (Cardinality(Q) + f) <= 1 + repeats'[n]
  BY DEF Rights
<1>4. ASSUME Q \subseteq P PROVE IsFiniteSet(Q) /\ Cardinality(Q) \in Nat /\ Cardinality(Q) <= Cardinality(P)
  BY <1>1, <1>4, FS_Subset, FS_CardinalityType
<1>5. ASSUME NEW c \in P, Q \subseteq P \ {c}
      PROVE  IsFiniteSet(Q) /\ Cardinality(Q) \in Nat /\ Cardinality(Q) + 1 <= Cardinality(P)
  <2>1. IsFiniteSet(P \ {c}) /\ Cardinality(P \ {c}) = Cardinality(P) - 1
    BY <1>1, FS_RemoveElement
  <2> QED
    BY <1>1, <1>5, <2>1, FS_Subset, FS_CardinalityType
<1>6. ASSUME NEW c \in Callers, Q = P \cup {c}
      PROVE  IsFiniteSet(Q) /\ Cardinality(Q) \in Nat /\ Cardinality(Q) <= Cardinality(P) + 1
  <2>1. IsFiniteSet(P \cup {c}) /\ Cardinality(P \cup {c}) <= Cardinality(P) + 1
    BY <1>1, FS_AddElement
  <2> QED
    BY <1>6, <2>1, FS_CardinalityType
<1>7. (Entitled(n) <=> e = 1) /\ (Entitled(n)' <=> f = 1)
  OBVIOUS
<1> HIDE DEF P, Q, e, f
<1>8. \/ /\ posts'[n] = posts[n] /\ repeats'[n] >= repeats[n]
         /\ Q \subseteq P /\ (f = 1 => e = 1)
      \/ /\ posts'[n] = posts[n] /\ repeats'[n] = repeats[n] + 1 /\ Q \subseteq P
      \/ /\ posts'[n] = posts[n] + 1 /\ repeats'[n] = repeats[n] + 1
         /\ Q \subseteq P /\ f # 1
      \/ /\ posts'[n] = posts[n] + 1 /\ repeats'[n] = repeats[n] /\ f # 1
         /\ \E c \in P : Q \subseteq P \ {c}
      \/ /\ posts'[n] = posts[n] /\ repeats'[n] = repeats[n]
         /\ \E c \in P : Q \subseteq P \ {c}
      \/ /\ posts'[n] = posts[n] /\ f # 1
         /\ repeats'[n] = repeats[n] + 1 \/ (e = 1 /\ repeats'[n] = repeats[n])
         /\ \E c \in Callers : Q = P \cup {c}
  BY <1>7 DEF Passes, P, Q
<1> QED
  BY <1>1, <1>2, <1>4, <1>5, <1>6, <1>8

\* A step that touches no call of n, or only one that stays and keeps its notice.
LEMMA CallsOfOthers ==
    ASSUME NEW c \in Callers, \A x \in Callers \ {c} : call'[x] = call[x], NEW n \in Notices,
           call[c] = NoCall \/ call[c].notice # n, call'[c] = NoCall \/ call'[c].notice # n
    PROVE  CallsFor(n)' = CallsFor(n) /\ Pends(n)' = Pends(n)
BY DEF CallsFor, Pends, Running

LEMMA CallsOfOne ==
    ASSUME NEW c \in Callers, \A x \in Callers \ {c} : call'[x] = call[x], NEW n \in Notices,
           call[c] # NoCall /\ call[c].notice = n, call'[c] # NoCall /\ call'[c].notice = n
    PROVE  /\ ~Entitled(n) /\ ~Entitled(n)'
           /\ Pends(n)' \ {c} = Pends(n) \ {c}
           /\ c \in Pends(n) <=> Running(call[c]) \/ ~call[c].sent
           /\ c \in Pends(n)' <=> Running(call'[c]) \/ ~call'[c].sent
BY DEF CallsFor, Pends, Running, Entitled

LEMMA SentMoves ==
    ASSUME call \in [Callers -> Call \cup {NoCall}], NEW c \in Callers, call[c] # NoCall, NEW at
    PROVE  /\ call' = [call EXCEPT ![c].at = at] => call'[c].sent = call[c].sent
           /\ call' = [call EXCEPT ![c].at = at, ![c].sent = TRUE] => call'[c].sent = TRUE
BY DEF Call

\* A step that leaves calls, rows and counters alone.
LEMMA NothingPasses ==
    ASSUME ScheduleTypeOK, UNCHANGED <<call, fresh, row, posts, repeats>>, NEW n \in Notices
    PROVE  Passes(n)
BY DEF Passes, Pends, CallsFor, Entitled, Running, ScheduleTypeOK, ApiTypeOK

LEMMA HandlerPasses ==
    ASSUME ScheduleTypeOK, NEW c \in Callers, ApiHandles(c), UNCHANGED scheduleVars,
           NEW n \in Notices
    PROVE  Passes(n)
<1> DEFINE k == call[c].notice
<1>1. /\ call \in [Callers -> Call \cup {NoCall}]
      /\ posts \in [Notices -> Nat] /\ repeats \in [Notices -> Nat]
  BY DEF ScheduleTypeOK, ApiTypeOK
<1>2. call[c] # NoCall
  BY DEF ApiHandles, PublishOk, PublishClosed, PublishBreaks, Connect, ConnectFails, Active,
         Publishing
<1>3. ASSUME NEW at \in Stages,
             \/ call' = [call EXCEPT ![c].at = at]
             \/ call' = [call EXCEPT ![c].at = at, ![c].sent = TRUE]
      PROVE  /\ k \in Notices /\ \A x \in Callers \ {c} : call'[x] = call[x]
             /\ call'[c] # NoCall /\ call'[c].notice = k /\ call'[c].at = at
  BY <1>1, <1>2, <1>3, CallMoves
<1>4. ASSUME NEW at \in Stages, call' = [call EXCEPT ![c].at = at],
             Running(call[c]), UNCHANGED <<posts, repeats>>
      PROVE  Passes(n)
  <2>1. CASE n = k
    <3>1. Pends(n)' \subseteq Pends(n) /\ ~Entitled(n)'
      BY <1>2, <1>3, <1>4, <2>1, CallsOfOne
    <3> QED
      BY <1>1, <1>4, <3>1 DEF Passes
  <2>2. CASE n # k
    <3>1. CallsFor(n)' = CallsFor(n) /\ Pends(n)' = Pends(n)
      BY <1>3, <1>4, <2>2, CallsOfOthers
    <3>2. Entitled(n)' => Entitled(n)
      BY <3>1 DEF Entitled, scheduleVars
    <3> QED
      BY <1>1, <1>4, <3>1, <3>2 DEF Passes
  <2> QED
    BY <2>1, <2>2
<1>5. ASSUME NEW at \in Stages, call' = [call EXCEPT ![c].at = at, ![c].sent = TRUE],
             Running(call[c]), posts' = [posts EXCEPT ![k] = @ + 1],
             \/ at \in {"ok", "error"} /\ repeats' = repeats
             \/ repeats' = [repeats EXCEPT ![k] = @ + 1]
      PROVE  Passes(n)
  <2>0. call'[c].sent = TRUE
    BY <1>1, <1>2, <1>5, SentMoves
  <2>1. CASE n = k
    <3>1. /\ Pends(n)' \subseteq Pends(n) /\ ~Entitled(n)' /\ c \in Pends(n)
          /\ at \in {"ok", "error"} => Pends(n)' \subseteq Pends(n) \ {c}
      <4>1. /\ ~Entitled(n)' /\ c \in Pends(n) /\ Pends(n)' \ {c} = Pends(n) \ {c}
            /\ c \in Pends(n)' <=> Running(call'[c]) \/ ~call'[c].sent
        BY <1>2, <1>3, <1>5, <2>1, CallsOfOne
      <4>2. at \in {"ok", "error"} => ~Running(call'[c])
        BY <1>3, <1>5 DEF Running
      <4> QED
        BY <4>1, <4>2, <2>0
    <3>2. /\ posts'[n] = posts[n] + 1
          /\ \/ at \in {"ok", "error"} /\ repeats'[n] = repeats[n]
             \/ repeats'[n] = repeats[n] + 1
      BY <1>1, <1>5, <2>1
    <3> QED
      BY <3>1, <3>2 DEF Passes
  <2>2. CASE n # k
    <3>1. CallsFor(n)' = CallsFor(n) /\ Pends(n)' = Pends(n)
      BY <1>3, <1>5, <2>2, CallsOfOthers
    <3>2. Entitled(n)' => Entitled(n)
      BY <3>1 DEF Entitled, scheduleVars
    <3>3. posts'[n] = posts[n] /\ repeats'[n] = repeats[n]
      BY <1>1, <1>5, <2>2
    <3> QED
      BY <1>1, <3>1, <3>2, <3>3 DEF Passes
  <2> QED
    BY <2>1, <2>2
<1>6. CASE PublishOk(c)
  BY <1>5, <1>6 DEF PublishOk, Publishing, Running, Deliver, Stages
<1>7. CASE PublishClosed(c)
  BY <1>4, <1>7 DEF PublishClosed, Publishing, Running, AfterRuntimeError, Stages, apiHistory
<1>8. CASE PublishBreaks(c)
  <2>1. PICK at \in {AfterRuntimeError(c), OtherError} :
         \/ /\ call' = [call EXCEPT ![c].at = at]
            /\ UNCHANGED <<queue, posts, repeats>>
         \/ /\ call' = [call EXCEPT ![c].at = at, ![c].sent = TRUE]
            /\ Deliver(call[c].notice)
            /\ repeats' = IF at = "connect"
                          THEN [repeats EXCEPT ![call[c].notice] = @ + 1]
                          ELSE repeats
    BY <1>8 DEF PublishBreaks
  <2>2. at \in {"connect", "error"} /\ Running(call[c])
    BY <1>8 DEF PublishBreaks, Publishing, Running, AfterRuntimeError, OtherError
  <2> QED
    BY <1>4, <1>5, <2>1, <2>2 DEF Deliver, Stages
<1>9. CASE Connect(c) \/ ConnectFails(c)
  BY <1>4, <1>9 DEF Connect, ConnectFails, Active, Running, Stages, apiHistory
<1> QED
  BY <1>6, <1>7, <1>8, <1>9 DEF ApiHandles

LEMMA ApiPasses ==
    ASSUME ScheduleTypeOK, ApiNext, UNCHANGED scheduleVars, NEW n \in Notices
    PROVE  Passes(n)
<1>1. CASE ApiDies
  <2>1. /\ UNCHANGED <<posts, repeats, fresh, row>>
        /\ \A c \in Callers : IF call[c] = NoCall THEN call'[c] = NoCall
                              ELSE call'[c] = [call[c] EXCEPT !.at = "cut"]
    BY <1>1 DEF ApiDies, apiHistory, scheduleVars
  <2>2. ASSUME NEW c \in Callers, call[c] # NoCall
        PROVE  /\ call'[c] # NoCall /\ call'[c].notice = call[c].notice
               /\ call'[c].sent = call[c].sent /\ call'[c].at = "cut"
    <3>1. call[c] \in Call /\ call'[c] = [call[c] EXCEPT !.at = "cut"]
      BY <2>1, <2>2 DEF ScheduleTypeOK, ApiTypeOK
    <3>2. call'[c] \in Call
      BY <3>1 DEF Call
    <3> QED
      BY <3>1, <3>2, NoCallIsNoCall DEF Call
  <2>3. CallsFor(n)' = CallsFor(n)
    BY <2>1, <2>2 DEF CallsFor
  <2>4. Pends(n)' \subseteq Pends(n)
    BY <2>2, <2>3 DEF Pends, CallsFor, Running
  <2>5. Entitled(n)' => Entitled(n)
    BY <2>1, <2>3 DEF Entitled
  <2> QED
    BY <2>1, <2>4, <2>5 DEF Passes, ScheduleTypeOK, ApiTypeOK
<1>2. CASE ApiStarts \/ BrokerStops \/ BrokerStarts \/ \E m \in Notices : Consume(m)
  <2>1. UNCHANGED <<call, fresh, row, posts, repeats>>
    BY <1>2 DEF ApiStarts, BrokerStops, BrokerStarts, Consume, apiHistory, scheduleVars
  <2> QED
    BY <2>1, NothingPasses
<1> QED
  BY <1>1, <1>2, HandlerPasses DEF ApiNext

\* A call that ends gives its right back, or an event explains a new one, unless
\* its notice does not wait any more.
LEMMA EndPasses ==
    ASSUME ScheduleTypeOK, NEW w \in Callers, Finished(w), NEW k \in Notices, call[w].notice = k,
           call' = [call EXCEPT ![w] = NoCall], UNCHANGED <<posts, fresh>>,
           \A m \in Notices \ {k} : row'[m] = row[m],
           \/ repeats' = repeats /\ k \notin fresh /\ row'[k] # Absent /\ row'[k].status # "waiting"
           \/ Explain(k, call[w].sent),
           NEW n \in Notices
    PROVE  Passes(n)
<1>1. /\ call'[w] = NoCall /\ \A x \in Callers \ {w} : call'[x] = call[x]
      /\ posts \in [Notices -> Nat] /\ repeats \in [Notices -> Nat]
      /\ call[w] # NoCall /\ ~Running(call[w])
  BY DEF ScheduleTypeOK, ApiTypeOK, Finished, Active, Running
<1>2. CASE n # k
  <2>1. CallsFor(n)' = CallsFor(n) /\ Pends(n)' = Pends(n)
    BY <1>1, <1>2, CallsOfOthers
  <2>2. Entitled(n)' => Entitled(n)
    BY <1>2, <2>1 DEF Entitled
  <2>3. repeats'[n] = repeats[n]
    BY <1>1, <1>2 DEF Explain
  <2> QED
    BY <1>1, <2>1, <2>2, <2>3 DEF Passes
<1>3. CASE n = k
  <2>1. Pends(n)' \subseteq Pends(n) \ {w} /\ (~call[w].sent => w \in Pends(n))
    BY <1>1, <1>3 DEF Pends, CallsFor, Running
  <2>2. CASE repeats' = repeats /\ k \notin fresh /\ row'[k] # Absent /\ row'[k].status # "waiting"
    <3>1. ~Entitled(n)'
      BY <1>3, <2>2 DEF Entitled
    <3> QED
      BY <1>1, <2>1, <2>2, <3>1 DEF Passes
  <2>3. CASE Explain(k, call[w].sent)
    <3>1. CASE call[w].sent
      BY <1>1, <1>3, <2>1, <2>3, <3>1 DEF Passes, Explain
    <3>2. CASE ~call[w].sent
      BY <1>1, <1>3, <2>1, <2>3, <3>2 DEF Passes, Explain
    <3> QED
      BY <3>1, <3>2
  <2> QED
    BY <2>2, <2>3
<1> QED
  BY <1>2, <1>3

\* A call begins: unless an event explains it, it takes the right of a notice that
\* waits and that nobody calls about.
LEMMA PostPasses ==
    ASSUME ScheduleTypeOK, NEW w \in Callers, NEW k \in Notices, Post(w, k), NEW n \in Notices
    PROVE  Passes(n)
<1>1. /\ call \in [Callers -> Call \cup {NoCall}] /\ NewCall(k) \in Call
      /\ posts \in [Notices -> Nat] /\ repeats \in [Notices -> Nat]
  BY DEF ScheduleTypeOK, ApiTypeOK, NewCall, Call
<1>2. /\ call[w] = NoCall /\ call'[w] = NewCall(k) /\ call'[w] # NoCall
      /\ \A x \in Callers \ {w} : call'[x] = call[x]
      /\ UNCHANGED <<posts, fresh, row>>
  BY <1>1, NoCallIsNoCall DEF Post, scheduleVars
<1>3. NewCall(k).notice = k /\ Running(NewCall(k))
  BY DEF NewCall, Running
<1>4. CASE n # k
  <2>1. CallsFor(n)' = CallsFor(n) /\ Pends(n)' = Pends(n)
    BY <1>2, <1>3, <1>4, CallsOfOthers
  <2>2. Entitled(n)' => Entitled(n)
    BY <1>2, <2>1 DEF Entitled
  <2>3. repeats'[n] = repeats[n]
    BY <1>1, <1>4 DEF Post, Explain
  <2> QED
    BY <1>1, <1>2, <2>1, <2>2, <2>3 DEF Passes
<1>5. CASE n = k
  <2>1. Pends(n)' = Pends(n) \cup {w} /\ ~Entitled(n)'
    BY <1>2, <1>3, <1>5 DEF Pends, CallsFor, Running, Entitled
  <2>2. \/ repeats'[n] = repeats[n] + 1
        \/ Entitled(n) /\ repeats'[n] = repeats[n]
    <3> DEFINE yes == \/ n \in {call[v].notice : v \in {u \in Callers : call[u] # NoCall}}
                      \/ row[n] = Absent
                      \/ row[n] # Absent /\ row[n].status # "waiting"
    <3>1. Explain(n, yes)
      BY <1>5 DEF Post
    <3>2. ~yes => Entitled(n)
      BY DEF Entitled, CallsFor
    <3> HIDE DEF yes
    <3> QED
      BY <1>1, <3>1, <3>2 DEF Explain
  <2> QED
    BY <1>1, <1>2, <2>1, <2>2 DEF Passes
<1> QED
  BY <1>4, <1>5

LEMMA TaskPasses ==
    ASSUME ScheduleTypeOK, FreshUnheld, NEW w \in Callers,
           SendNotifications(w) \/ TaskDies(w) \/ \E n \in Notices : MessageFails(w, n)
    PROVE  FreshUnheld' /\ \A n \in Notices : Passes(n)
<1>1. ASSUME TakeTask(w) \/ TaskDies(w) \/ \E n \in Notices : PostFails(w, n) \/ MessageFails(w, n)
      PROVE  FreshUnheld' /\ \A n \in Notices : Passes(n)
  <2>1. UNCHANGED <<call, fresh, row, posts, repeats>>
    BY <1>1 DEF TakeTask, TaskDies, PostFails, MessageFails, apiVars, apiHistory
  <2>2. \A v \in Callers, n \in Notices : batch'[v][n] \in {Absent, batch[v][n], row[n]}
    BY <1>1 DEF TakeTask, TaskDies, PostFails, MessageFails, ScheduleTypeOK
  <2>3. FreshUnheld'
    BY <2>1, <2>2 DEF FreshUnheld, Holds, ScheduleTypeOK
  <2> QED
    BY <2>1, <2>3, NothingPasses
<1>2. ASSUME NEW k \in Notices, Post(w, k) PROVE FreshUnheld' /\ \A n \in Notices : Passes(n)
  <2>1. FreshUnheld'
    BY <1>2 DEF FreshUnheld, Holds, Post, scheduleVars
  <2> QED
    BY <1>2, <2>1, PostPasses
<1>3. ASSUME Receive(w) PROVE FreshUnheld' /\ \A n \in Notices : Passes(n)
  <2> DEFINE k == call[w].notice
             b == batch[w][k]
             x == call[w].at
  <2>1. call[w] # NoCall /\ x \in {"ok", "error"} /\ Holds(w, k)
    BY <1>3 DEF Receive, Posting
  <2>2. k \in Notices /\ Finished(w)
    BY <2>1 DEF ScheduleTypeOK, ApiTypeOK, Call, Finished, Active
  <2>3. b \in Row /\ k \notin fresh
    BY <2>1, <2>2 DEF ScheduleTypeOK, Holds, FreshUnheld
  <2>4. Saved(b, x) \in Row /\ Saved(b, x).status # "waiting"
    BY <2>3 DEF Saved, Status, Row, Statuses
  <2>5. /\ row' = [row EXCEPT ![k] = Saved(b, x)]
        /\ batch' = [batch EXCEPT ![w][k] = Absent]
        /\ call' = [call EXCEPT ![w] = NoCall] /\ UNCHANGED <<fresh, posts, repeats>>
    BY <1>3 DEF Receive, apiHistory
  <2>6. /\ row'[k] = Saved(b, x) /\ \A m \in Notices \ {k} : row'[m] = row[m]
        /\ \A v \in Callers, m \in Notices : batch'[v][m] \in {Absent, batch[v][m]}
    BY <2>2, <2>5 DEF ScheduleTypeOK
  <2>7. row'[k] # Absent /\ row'[k].status # "waiting"
    BY <2>4, <2>6, AbsentAssumption
  <2> HIDE DEF k, b, x
  <2>8. FreshUnheld'
    BY <2>3, <2>5, <2>6 DEF FreshUnheld, Holds, ScheduleTypeOK
  <2>9. \A n \in Notices : Passes(n)
    BY <2>2, <2>3, <2>5, <2>6, <2>7, EndPasses DEF k
  <2> QED
    BY <2>8, <2>9
<1>4. ASSUME ReceiveNothing(w) \/ Replaced(w) PROVE FreshUnheld' /\ \A n \in Notices : Passes(n)
  <2> DEFINE k == call[w].notice
  <2>1. /\ call[w] # NoCall /\ Finished(w) /\ k \in Notices
        /\ call' = [call EXCEPT ![w] = NoCall] /\ UNCHANGED <<row, fresh, posts>>
        /\ Explain(k, call[w].sent)
    BY <1>4 DEF ReceiveNothing, Replaced, Posting, Finished, Active, scheduleVars,
                ScheduleTypeOK, ApiTypeOK, Call
  <2>2. \A v \in Callers, m \in Notices : batch'[v][m] \in {Absent, batch[v][m]}
    BY <1>4, <2>1 DEF ReceiveNothing, Replaced, scheduleVars, ScheduleTypeOK
  <2>3. FreshUnheld'
    BY <2>1, <2>2 DEF FreshUnheld, Holds, ScheduleTypeOK
  <2> HIDE DEF k
  <2>4. \A n \in Notices : Passes(n)
    BY <2>1, EndPasses DEF k
  <2> QED
    BY <2>3, <2>4
<1> QED
  BY <1>1, <1>2, <1>3, <1>4 DEF SendNotifications

\* People give a notification back its right to be published: an event.
LEMMA AdminPasses ==
    ASSUME ScheduleTypeOK, FreshUnheld, NEW k \in Notices, Create(k) \/ SaveForm(k) \/ Delete(k)
    PROVE  FreshUnheld' /\ \A n \in Notices : Passes(n)
<1>1. PICK r : Write(k, r)
  BY DEF Create, SaveForm, Delete
<1>2. /\ row'[k] = r /\ \A m \in Notices \ {k} : row'[m] = row[m]
      /\ UNCHANGED <<call, posts, batch>> /\ fresh' \subseteq fresh /\ k \notin fresh'
  BY <1>1 DEF Create, SaveForm, Delete, Write, FreshUnheld, ScheduleTypeOK, apiVars, apiHistory
<1>3. FreshUnheld'
  BY <1>2 DEF FreshUnheld, Holds, ScheduleTypeOK
<1>4. ASSUME NEW n \in Notices PROVE Passes(n)
  <2>1. /\ CallsFor(n)' = CallsFor(n) /\ Pends(n)' = Pends(n)
        /\ posts'[n] = posts[n] /\ posts[n] \in Nat /\ repeats[n] \in Nat
    BY <1>2 DEF CallsFor, Pends, Running, ScheduleTypeOK, ApiTypeOK
  <2>2. \/ repeats'[n] = repeats[n] /\ (Entitled(n)' => Entitled(n))
        \/ repeats'[n] = repeats[n] + 1
    <3>1. CASE n # k
      <4>1. repeats'[n] = repeats[n]
        BY <3>1 DEF Create, SaveForm, Delete, Explain, apiHistory, ScheduleTypeOK, ApiTypeOK
      <4> QED
        BY <1>2, <2>1, <3>1, <4>1 DEF Entitled
    <3>2. CASE n = k /\ (Create(k) \/ Delete(k))
      <4>1. repeats'[n] = repeats[n] /\ (Create(k) => k \in fresh) /\ (Delete(k) => row'[k] = Absent)
        BY <3>2 DEF Create, Delete, Write, apiHistory, ScheduleTypeOK
      <4> QED
        BY <1>2, <2>1, <3>2, <4>1 DEF Entitled
    <3>3. CASE n = k /\ SaveForm(k)
      <4>1. PICK d \in ValidTimes, t \in Statuses :
              /\ Write(k, [status |-> t, due |-> d, edition |-> edits + 1])
              /\ Explain(k, t = "waiting" /\ row[k].status # "waiting")
        BY <3>3 DEF SaveForm
      <4>2. row[k] # Absent /\ row'[k].status = t
        BY <3>3, <4>1 DEF SaveForm, Write, ScheduleTypeOK
      <4>3. \/ repeats'[n] = repeats[n] + 1
            \/ repeats'[n] = repeats[n] /\ (t = "waiting" => row[k].status = "waiting")
        BY <3>3, <4>1 DEF Explain, ScheduleTypeOK, ApiTypeOK
      <4> QED
        BY <1>2, <2>1, <3>3, <4>2, <4>3 DEF Entitled
    <3> QED
      BY <3>1, <3>2, <3>3
  <2> QED
    BY <2>1, <2>2 DEF Passes
<1> QED
  BY <1>3, <1>4

LEMMA RepeatInit == ScheduleInit => RepeatInv
<1> SUFFICES ASSUME ScheduleInit PROVE RepeatInv
  OBVIOUS
<1>1. \A n \in Notices : Pends(n) = {} /\ posts[n] = 0 /\ repeats[n] = 0
  BY DEF ScheduleInit, ApiInit, Pends, CallsFor
<1>2. RightsKept
  BY <1>1, FS_EmptySet DEF RightsKept, Rights
<1>3. FreshUnheld
  BY DEF ScheduleInit, FreshUnheld, Holds
<1> QED
  BY <1>2, <1>3, InitInv DEF RepeatInv

LEMMA RepeatStep == RepeatInv /\ [ScheduleNext]_allScheduleVars => RepeatInv'
<1> SUFFICES ASSUME RepeatInv, [ScheduleNext]_allScheduleVars PROVE RepeatInv'
  OBVIOUS
<1>1. ScheduleInv' /\ ScheduleTypeOK /\ ScheduleTypeOK' /\ RightsKept /\ FreshUnheld
  BY StepInv DEF RepeatInv, ScheduleInv
<1>2. FreshUnheld' /\ \A n \in Notices : Passes(n)
  <2>1. CASE ApiNext /\ UNCHANGED scheduleVars
    BY <1>1, <2>1, ApiPasses DEF scheduleVars, FreshUnheld, Holds
  <2>2. CASE Tick \/ Beat \/ UNCHANGED allScheduleVars
    <3>1. UNCHANGED <<call, fresh, row, posts, repeats, batch>>
      BY <2>2 DEF Tick, Beat, allScheduleVars, scheduleVars, apiVars, apiHistory
    <3> QED
      BY <1>1, <3>1, NothingPasses DEF FreshUnheld, Holds
  <2> QED
    BY <1>1, <2>1, <2>2, TaskPasses, AdminPasses DEF ScheduleNext
<1>3. RightsKept'
  BY <1>1, <1>2, RightsStep DEF RightsKept
<1> QED
  BY <1>1, <1>2, <1>3 DEF RepeatInv

-----------------------------------------------------------------------------
\* The inductive invariant behind the properties below. (tasks.py:15-37,
\* publish.py:10-19)
THEOREM ScheduleInvariant == ScheduleSpec => []ScheduleInv
BY InitInv, StepInv, PTL DEF ScheduleSpec

\* Rows, tasks and calls are of their kinds, and the counters in their bounds.
\* (models.py, celery_app.py)
THEOREM ScheduleTyped == ScheduleSpec => []ScheduleTypeOK
<1>1. ScheduleInv => ScheduleTypeOK
  BY DEF ScheduleInv
<1> QED
  BY ScheduleInvariant, <1>1, PTL

\* A notification that a task saved as done has reached the queue.
\* (tasks.py:29-30, publish.py:13-19)
THEOREM DoneReachedTheQueue == ScheduleSpec => []DoneIsQueued
<1>1. ScheduleInv => DoneIsQueued
  BY DEF ScheduleInv
<1> QED
  BY ScheduleInvariant, <1>1, PTL

\* A notification that a task saved as failed met a failure of RabbitMQ.
\* (tasks.py:32-33, publish.py:15-17)
THEOREM FailedMetAnOutage == ScheduleSpec => []FailedNeedsOutage
<1>1. ScheduleInv => FailedNeedsOutage
  BY DEF ScheduleInv
<1> QED
  BY ScheduleInvariant, <1>1, PTL

\* No task undoes what somebody wrote while no task held the row. (tasks.py:37)
THEOREM EditsAreKept == ScheduleSpec => []EditsStay
<1>1. ScheduleInv => EditsStay
  BY DEF ScheduleInv
<1> QED
  BY ScheduleInvariant, <1>1, PTL

\* Every publish of a notice beyond the first has a reason: a task that posts
\* from a stale row or next to another call, the second publish after a RuntimeError,
\* a lost task or answer, or a person. However many tasks overlap and die,
\* nothing else repeats a notice. (tasks.py:15-37, publish.py:10-19)
THEOREM RepeatsAreExplained == ScheduleSpec => []RepeatsExplained
<1>1. ScheduleSpec => []RepeatInv
  BY RepeatInit, RepeatStep, PTL DEF ScheduleSpec
<1>2. RepeatInv => RepeatsExplained
  <2> SUFFICES ASSUME RepeatInv, NEW n \in Notices PROVE posts[n] <= 1 + repeats[n]
    BY DEF RepeatsExplained
  <2>1. /\ posts[n] \in Nat /\ repeats[n] \in Nat /\ Cardinality(Pends(n)) \in Nat
        /\ posts[n] + Rights(n) <= 1 + repeats[n]
    BY FS_CardinalityType DEF RepeatInv, RightsKept, ScheduleInv, ScheduleTypeOK, ApiTypeOK
  <2> QED
    BY <2>1 DEF Rights
<1> QED
  BY <1>1, <1>2, PTL

=============================================================================
