--------------------------- MODULE NoticeSchedule ---------------------------
(***************************************************************************)
(* The notifications of the admin (service_notice/admin_notice), its       *)
(* celery beat, which every minute puts a task send_notifications into     *)
(* Redis, and the celery processes, which run it: each takes the           *)
(* notifications that are waiting and due, posts them one by one to the    *)
(* publish API and saves what the API answered. Tasks overlap when one     *)
(* takes longer than a minute, or when several have piled up. Meanwhile    *)
(* people edit the same rows in the admin.                                 *)
(*                                                                         *)
(* Time counts minutes, the resolution of validate_datetime and crontab.   *)
(* The text of a notification is its edition: 0 at first, then one more    *)
(* with every save in the admin. PublishApi models the calls; its Callers  *)
(* are the celery processes.                                               *)
(***************************************************************************)
EXTENDS PublishApi

CONSTANTS
    Absent,         \* "no row"
    MaxTime,        \* bound of the clock
    MaxEdits,       \* bound of the saves in the admin
    MaxKills,       \* bound of the tasks that die, and of the messages that cannot be made
    MaxBacklog      \* bound of the tasks that wait in Redis

ASSUME ScheduleAssumption ==
    MaxTime \in Nat /\ MaxEdits \in Nat /\ MaxKills \in Nat /\ MaxBacklog \in Nat \ {0}

VARIABLES
    row,            \* row[n] in the table notifications
    fresh,          \* ids of notifications that nobody created yet
    edits,          \* the saves of existing rows in the admin
    now,            \* the time
    lastBeat,       \* when beat sent a task last
    backlog,        \* tasks in Redis
    kills,          \* the tasks that died, and the messages that could not be made
    batch,          \* batch[w][n]: n as the task of w read it; Absent: not its or done with
    \* the history
    byHand,         \* rows whose status somebody set by hand to other than waiting
    wish            \* wish[n]: what the last write of the admin says; empty when a
                    \* task held n at that time

scheduleVars == <<row, fresh, edits, now, lastBeat, backlog, kills, batch, byHand, wish>>
allScheduleVars == <<apiVars, apiHistory, scheduleVars>>

Times == 0 .. MaxTime
Statuses == {"waiting", "failed", "done"}
Row == [status : Statuses, due : Times, edition : 0 .. MaxEdits]

ASSUME AbsentAssumption == Absent \notin Row

\* What a person wrote, without the status.
Content(r) == IF r = Absent THEN Absent ELSE <<r.due, r.edition>>

\* Every row is a notification, every task holds rows, the counters stay in
\* their bounds, and so do the variables of the API.
ScheduleTypeOK ==
    /\ ApiTypeOK
    /\ row \in [Notices -> Row \cup {Absent}]
    /\ fresh \subseteq Notices
    /\ edits \in 0 .. MaxEdits
    /\ now \in Times /\ lastBeat \in Times
    /\ backlog \in 0 .. MaxBacklog /\ kills \in 0 .. MaxKills
    /\ batch \in [Callers -> [Notices -> Row \cup {Absent}]]
    /\ byHand \subseteq Notices
    /\ wish \in [Notices -> SUBSET ({Absent} \cup (Times \X (0 .. MaxEdits)))]

ScheduleInit ==
    /\ ApiInit
    /\ row = [n \in Notices |-> Absent]
    /\ fresh = Notices
    /\ edits = 0
    /\ now = 0 /\ lastBeat = 0
    /\ backlog = 0 /\ kills = 0
    /\ batch = [w \in Callers |-> [n \in Notices |-> Absent]]
    /\ byHand = {}
    /\ wish = [n \in Notices |-> {Absent}]

Due(n) == row[n] # Absent /\ row[n].status = "waiting" /\ row[n].due <= now
Holds(w, n) == batch[w][n] # Absent
Held(n) == \E w \in Callers : Holds(w, n)
Idle(w) == call[w] = NoCall /\ \A n \in Notices : ~Holds(w, n)
Finished(w) == call[w] # NoCall /\ ~Active(w)
Posting(w) == call[w] # NoCall /\ Holds(w, call[w].notice)

Explain(n, yes) == repeats' = IF yes THEN [repeats EXCEPT ![n] = @ + 1] ELSE repeats

-----------------------------------------------------------------------------
Tick ==
    /\ now < MaxTime
    /\ now' = now + 1
    /\ UNCHANGED <<apiVars, apiHistory, row, fresh, edits, lastBeat, backlog, kills, batch,
                   byHand, wish>>

\* beat_schedule, crontab(): a task every minute. The last minute of the model
\* stands for all that follow.
Beat ==
    /\ lastBeat < now \/ now = MaxTime
    /\ backlog < MaxBacklog
    /\ lastBeat' = now
    /\ backlog' = backlog + 1
    /\ UNCHANGED <<apiVars, apiHistory, row, fresh, edits, now, kills, batch, byHand, wish>>

\* Slip: the query asks for the notifications of this minute.
SelectedThisMinute(n) == Due(n) /\ row[n].due = now
\* filter(status='waiting', scheduled_time__lte=now)
Selected(n) == Due(n)

\* A celery process takes a task; celery acknowledges it at once.
TakeTask(w) ==
    /\ Idle(w) /\ backlog > 0
    /\ backlog' = backlog - 1
    /\ batch' = [batch EXCEPT ![w] = [n \in Notices |-> IF Selected(n) THEN row[n] ELSE Absent]]
    /\ UNCHANGED <<apiVars, apiHistory, row, fresh, edits, now, lastBeat, kills, byHand, wish>>

\* generate_message_for_sending raises: the exception is logged, the row stays.
MessageFails(w, n) ==
    /\ Holds(w, n) /\ call[w] = NoCall
    /\ kills < MaxKills
    /\ kills' = kills + 1
    /\ batch' = [batch EXCEPT ![w][n] = Absent]
    /\ UNCHANGED <<apiVars, apiHistory, row, fresh, edits, now, lastBeat, backlog, byHand, wish>>

\* send_message: the request begins. It is one more than needed when another
\* one is on its way, or when the row is not waiting any more.
Post(w, n) ==
    /\ Holds(w, n) /\ call[w] = NoCall /\ apiUp
    /\ call' = [call EXCEPT ![w] = NewCall(n)]
    /\ Explain(n, \/ n \in {call[v].notice : v \in {u \in Callers : call[u] # NoCall}}
                  \/ row[n] = Absent
                  \/ row[n] # Absent /\ row[n].status # "waiting")
    /\ outage' = IF brokerUp THEN outage ELSE outage \cup {n}
    /\ UNCHANGED <<brokerUp, queue, apiUp, open, faults, left, posts, scheduleVars>>

\* send_message finds no API: the exception is logged, the row stays.
PostFails(w, n) ==
    /\ Holds(w, n) /\ call[w] = NoCall /\ ~apiUp
    /\ batch' = [batch EXCEPT ![w][n] = Absent]
    /\ UNCHANGED <<apiVars, apiHistory, row, fresh, edits, now, lastBeat, backlog, kills,
                   byHand, wish>>

\* Slip: the status is the answer itself.
StatusAnswer(answer) == answer
\* 200 is done, everything else failed.
Status(answer) == IF answer = "ok" THEN "done" ELSE "failed"

\* Slip: the task moves the time of the row to the time of sending.
SavedAtNow(r, answer) == [r EXCEPT !.status = Status(answer), !.due = now]
\* Slip: the task forgets to save the status.
SavedWaiting(r, answer) == r
\* save writes all fields of the row as the task read it, with the new status.
Saved(r, answer) == [r EXCEPT !.status = Status(answer)]

\* The API answered. The save brings a row back that was deleted meanwhile.
Receive(w) ==
    /\ Posting(w) /\ call[w].at \in {"ok", "error"}
    /\ LET n == call[w].notice
       IN /\ row' = [row EXCEPT ![n] = Saved(batch[w][n], call[w].at)]
          /\ batch' = [batch EXCEPT ![w][n] = Absent]
          /\ byHand' = byHand \ {n}
    /\ call' = [call EXCEPT ![w] = NoCall]
    /\ UNCHANGED <<brokerUp, queue, apiUp, open, faults, apiHistory,
                   fresh, edits, now, lastBeat, backlog, kills, wish>>

\* The API died before it answered: the exception is logged, the row stays.
ReceiveNothing(w) ==
    /\ Posting(w) /\ call[w].at = "cut"
    /\ batch' = [batch EXCEPT ![w][call[w].notice] = Absent]
    /\ call' = [call EXCEPT ![w] = NoCall]
    /\ Explain(call[w].notice, call[w].sent)
    /\ UNCHANGED <<brokerUp, queue, apiUp, open, faults, left, posts, outage,
                   row, fresh, edits, now, lastBeat, backlog, kills, byHand, wish>>

\* The celery process dies, or save raises: its task is gone. The API goes on
\* with a request that it has.
TaskDies(w) ==
    /\ \E n \in Notices : Holds(w, n)
    /\ kills < MaxKills
    /\ kills' = kills + 1
    /\ batch' = [batch EXCEPT ![w] = [n \in Notices |-> Absent]]
    /\ UNCHANGED <<apiVars, apiHistory, row, fresh, edits, now, lastBeat, backlog, byHand, wish>>

\* The process that replaces it (docker-compose.yaml: restart always) works when
\* that request is over.
Replaced(w) ==
    /\ Finished(w) /\ ~Posting(w)
    /\ call' = [call EXCEPT ![w] = NoCall]
    /\ Explain(call[w].notice, call[w].sent)
    /\ UNCHANGED <<brokerUp, queue, apiUp, open, faults, left, posts, outage, scheduleVars>>

-----------------------------------------------------------------------------
\* A write of the admin.
Write(n, r) ==
    /\ row' = [row EXCEPT ![n] = r]
    /\ wish' = [wish EXCEPT ![n] = IF Held(n) THEN {} ELSE {Content(r)}]

\* validate_datetime: not earlier than this minute.
ValidTimes == {t \in Times : t >= now}

\* A new notification; its form has a status too.
Create(n) ==
    /\ n \in fresh
    /\ fresh' = fresh \ {n}
    /\ \E d \in ValidTimes, s \in Statuses :
         /\ Write(n, [status |-> s, due |-> d, edition |-> 0])
         /\ byHand' = IF s = "waiting" THEN byHand ELSE byHand \cup {n}
    /\ UNCHANGED <<apiVars, apiHistory, edits, now, lastBeat, backlog, kills, batch>>

\* The form writes every field, whatever the row says since it was opened: any
\* status, and a time that is not over.
SaveForm(n) ==
    /\ row[n] # Absent /\ edits < MaxEdits
    /\ edits' = edits + 1
    /\ \E d \in ValidTimes, s \in Statuses :
         /\ Write(n, [status |-> s, due |-> d, edition |-> edits + 1])
         /\ byHand' = IF s = "waiting" THEN byHand \ {n}
                      ELSE IF s = row[n].status THEN byHand ELSE byHand \cup {n}
         /\ Explain(n, s = "waiting" /\ row[n].status # "waiting")
    /\ UNCHANGED <<apiVars, left, posts, outage, fresh, now, lastBeat, backlog, kills, batch>>

Delete(n) ==
    /\ row[n] # Absent
    /\ Write(n, Absent)
    /\ byHand' = byHand \ {n}
    /\ UNCHANGED <<apiVars, apiHistory, fresh, edits, now, lastBeat, backlog, kills, batch>>

-----------------------------------------------------------------------------
SendNotifications(w) ==
    \/ TakeTask(w)
    \/ \E n \in Notices : Post(w, n) \/ PostFails(w, n)
    \/ Receive(w) \/ ReceiveNothing(w) \/ Replaced(w)

ScheduleNext ==
    \/ ApiNext /\ UNCHANGED scheduleVars
    \/ Tick \/ Beat
    \/ \E w \in Callers :
         SendNotifications(w) \/ TaskDies(w) \/ \E n \in Notices : MessageFails(w, n)
    \/ \E n \in Notices : Create(n) \/ SaveForm(n) \/ Delete(n)

\* Time passes; beat and the celery processes are restarted when they end, and the API
\* answers a request at the latest when the minute of backoff is over. Nothing
\* is assumed about when the API is started again.
ScheduleFairness ==
    /\ WF_allScheduleVars(Tick) /\ WF_allScheduleVars(Beat)
    /\ \A w \in Callers :
         /\ WF_allScheduleVars(SendNotifications(w))
         /\ WF_allScheduleVars(ApiHandles(w) /\ UNCHANGED scheduleVars)

ScheduleSpec == ScheduleInit /\ [][ScheduleNext]_allScheduleVars /\ ScheduleFairness

-----------------------------------------------------------------------------
\* The queue gets a notice more than once only for a reason: a task posts from
\* a stale row or while another request is on its way (overlapping tasks), the
\* API publishes again after a RuntimeError, a task or its answer is lost after
\* the publish, or somebody sets the row back to waiting. (tasks.py:15-37,
\* publish.py:15-17)
RepeatsExplained == \A n \in Notices : posts[n] <= 1 + repeats[n]

\* A row that a task saved as done has reached the queue: it is there, or the
\* ETL took it, or a restart of RabbitMQ threw it away. (tasks.py:29-30,
\* publish.py:13-19)
DoneIsQueued ==
    \A n \in Notices \ byHand :
        row[n] # Absent /\ row[n].status = "done" => queue[n] > 0 \/ n \in left

\* A row that a task saved as failed, and that no task ever tries again, met a
\* failure of RabbitMQ during its call: a connection that only was closed
\* before it is repaired by the API. (tasks.py:32-33, publish.py:15-17)
FailedNeedsOutage ==
    \A n \in Notices \ byHand :
        row[n] # Absent /\ row[n].status = "failed" => n \in outage

\* What somebody wrote in the admin while no task held the row stays: tasks
\* change the status of a row and nothing else. (tasks.py:37)
EditsStay == \A n \in Notices : \A c \in wish[n] : Content(row[n]) = c

\* A notification that is due is dealt with, also after beat, a task or
\* RabbitMQ failed for some time, provided that the API is up in the end and the
\* message can be made.
\* (tasks.py:15, celery_app.py:13-18)
DueIsServed == <>[]apiUp => \A n \in Notices : Due(n) ~> ~Due(n)

=============================================================================
