------------------------------ MODULE NoticeEtl ------------------------------
(***************************************************************************)
(* The ETL process of the notification service                             *)
(* (service_notice/etl/src): it takes a notice with several recipients     *)
(* from the RabbitMQ queue "notice", asks the auth service about its       *)
(* recipients in batches, publishes one message per recipient to the       *)
(* queue of the transport and records in Redis what became of each         *)
(* recipient, so that a redelivered notice is not sent twice.              *)
(*                                                                         *)
(* The transform is a Python generator that the loader drains: publishing  *)
(* a message, marking its recipient and deciding about the next recipient  *)
(* alternate, and a crash can fall between any two of them.                *)
(***************************************************************************)
EXTENDS Integers, Sequences, FiniteSets

CONSTANTS
    Notices,        \* notice ids
    Users,          \* user ids
    NoNotice,       \* "no delivery is being processed"
    NoUser,         \* "no message is being loaded"
    NoticeSlot,     \* the pseudo user id 0 under which a whole notice is marked
    Recipients,     \* Recipients[n]: the list users_id of the notice
    TransportOf,    \* TransportOf[n]: its transport
    Second,         \* ticks of the clock in a second: a ttl is whole seconds
    ExpireAt,       \* ExpireAt[n]: its expire_at, in ticks
    Malformed,      \* notices the API accepts and core.models.Notice refuses
    Known,          \* users the auth service has a record of
    WithEmail,      \* users with an email address
    WithPhone,      \* users with a phone number
    Rejecting,      \* Rejecting[n]: users whose reject_notice holds its msg_type
    BatchSize,      \* batch_size of user_info_lst
    MarkMargin,     \* the minute that etl.mark_processed adds, in seconds
    MaxTime,        \* bound of the clock
    MaxCrashes,     \* bound of the crashes
    MaxPublish      \* how often the API may publish the same notice

Transport == {"email", "sms", "websocket", "push"}

\* The queues that some process of the system declares.
Consumed == {"email", "websocket"}

NoMark == "NO_MARK"
Mark == {"REJECTED_USER", "REJECTED_NODATA", "QUEUED"}

Slots == Users \cup {NoticeSlot}
Keys == Notices \X Slots
Pairs == Notices \X Users

ASSUME ConstantsAssumption ==
    /\ NoNotice \notin Notices
    /\ NoUser \notin Users
    /\ NoticeSlot \notin Users
    /\ Recipients \in [Notices -> Seq(Users)]
    /\ TransportOf \in [Notices -> Transport]
    /\ ExpireAt \in [Notices -> Nat]
    /\ Malformed \subseteq Notices
    /\ Known \subseteq Users
    /\ WithEmail \subseteq Users
    /\ WithPhone \subseteq Users
    /\ Rejecting \in [Notices -> SUBSET Users]
    /\ BatchSize \in Nat \ {0}
    /\ Second \in Nat \ {0}
    /\ MarkMargin \in Nat /\ MarkMargin >= 2
    /\ MaxTime \in Nat
    /\ MaxCrashes \in Nat
    /\ MaxPublish \in Nat \ {0}

VARIABLES
    \* RabbitMQ
    queue,          \* the ready messages of the queue "notice"
    declared,       \* transports whose queue exists
    sent,           \* sent[n, u]: messages for u put into the transport's queue
    \* Redis
    mark,           \* mark[n, s]: the value of the key, NoMark if never set
    until,          \* until[n, s]: when the key expires
    \* the ETL process
    pc,             \* what it does next
    isRun,          \* ETL.is_run
    loaderOpen,     \* the loader's channel is open
    cur,            \* the unacknowledged notice
    ttl,            \* the local ttl of transform
    loadTtl,        \* the local ttl of load
    todo,           \* positions of the recipient list not yet asked about
    infos,          \* the rest of the user_info_dict of the current batch
    msgUser,        \* whose message load has and has not marked yet
    \* the environment and the history
    now,            \* the clock
    crashes,        \* how often the process was killed
    published,      \* published[n]: how often the API published the notice
    acked,          \* notices acknowledged at least once
    late,           \* notices acknowledged because they had expired
    missed          \* recipients in a batch the auth service did not answer

broker == <<queue, declared, sent>>
redis == <<mark, until>>
process == <<pc, isRun, loaderOpen, cur, ttl, loadTtl, todo, infos, msgUser>>
environment == <<now, crashes, published>>
history == <<acked, late, missed>>
vars == <<broker, redis, process, environment, history>>

PC == {"down", "booted", "idle", "begin", "fresh", "dated", "work", "send", "mark"}

Positions(n) == 1 .. Len(Recipients[n])
RecipientSet(n) == {Recipients[n][i] : i \in Positions(n)}

TypeOK ==
    /\ queue \in Seq(Notices)
    /\ declared \subseteq Consumed
    /\ sent \in [Pairs -> Nat]
    /\ mark \in [Keys -> Mark \cup {NoMark}]
    /\ until \in [Keys -> Int]
    /\ pc \in PC
    /\ isRun \in BOOLEAN
    /\ loaderOpen \in BOOLEAN
    /\ cur \in Notices \cup {NoNotice}
    /\ ttl \in Int
    /\ loadTtl \in Int
    /\ cur \in Notices => todo \subseteq Positions(cur)
    /\ infos \subseteq Users
    /\ msgUser \in Users \cup {NoUser}
    /\ now \in Nat
    /\ crashes \in Nat
    /\ published \in [Notices -> Nat]
    /\ acked \subseteq Notices
    /\ late \subseteq Notices
    /\ missed \subseteq Pairs

Init ==
    /\ queue = <<>>
    /\ declared = {}
    /\ sent = [p \in Pairs |-> 0]
    /\ mark = [k \in Keys |-> NoMark]
    /\ until = [k \in Keys |-> 0]
    /\ pc = "down"
    /\ isRun = FALSE
    /\ loaderOpen = FALSE
    /\ cur = NoNotice
    /\ ttl = 0
    /\ loadTtl = 0
    /\ todo = {}
    /\ infos = {}
    /\ msgUser = NoUser
    /\ now = 0
    /\ crashes = 0
    /\ published = [n \in Notices |-> 0]
    /\ acked = {}
    /\ late = {}
    /\ missed = {}

-----------------------------------------------------------------------------
(***************************************************************************)
(* Redis: storage.py behind the two helpers of etl.py.                     *)
(***************************************************************************)

\* Slip: the extra minute is forgotten.
MarkLifeNoMargin(t) == t
\* A key is set with the lifetime ttl + 60 s.
MarkLife(t) == t + MarkMargin

\* mark_processed: the key gets its value and its expiry.
SetMark(n, s, m, t) ==
    /\ mark' = [mark EXCEPT ![<<n, s>>] = m]
    /\ until' = [until EXCEPT ![<<n, s>>] = now + Second * MarkLife(t)]

\* Redis refuses a lifetime that is not positive.
CanMark(t) == MarkLife(t) > 0

\* is_processed: the key exists, so it was set and has not expired.
IsProcessed(n, s) == mark[<<n, s>>] # NoMark /\ now < until[<<n, s>>]

\* Slip: rounded down, it is negative as soon as expire_at has passed.
TtlRoundedDown(n) == (ExpireAt[n] - now) \div Second
\* get_ttl_from_datetime: int() drops the fraction, so that the ttl is 0 from
\* the last second before expire_at until a whole second has passed after it.
TtlFromDatetime(n) ==
    IF now <= ExpireAt[n] THEN (ExpireAt[n] - now) \div Second
                          ELSE -((now - ExpireAt[n]) \div Second)

\* Transformer.get_msg_meta finds the data its transport needs.
HasMsgMeta(n, u) ==
    \/ TransportOf[n] = "email" /\ u \in WithEmail
    \/ TransportOf[n] = "sms" /\ u \in WithPhone
    \/ TransportOf[n] = "websocket"

-----------------------------------------------------------------------------
(***************************************************************************)
(* The process ends: its local state is gone, and RabbitMQ puts the        *)
(* unacknowledged notice back at the head of its queue.                    *)
(***************************************************************************)
\* Slip: a requeue without a look at what is outstanding.
RequeueAlways == <<cur>> \o queue
\* Slip: basic_get with auto_ack = True, the broker keeps no copy.
RequeueNothing == queue
\* auto_ack = False: the broker puts the unacknowledged notice back.
Requeue == IF cur = NoNotice THEN queue ELSE <<cur>> \o queue

Forget ==
    /\ isRun' = FALSE
    /\ loaderOpen' = FALSE
    /\ ttl' = 0
    /\ loadTtl' = 0
    /\ todo' = {}
    /\ infos' = {}
    /\ msgUser' = NoUser

Die ==
    /\ pc' = "down"
    /\ cur' = NoNotice
    /\ queue' = Requeue
    /\ Forget

\* main: connect, construct the ETL object, install the signal handlers.
Start ==
    /\ pc = "down"
    /\ pc' = "booted"
    /\ loaderOpen' = TRUE
    /\ UNCHANGED <<isRun, cur, ttl, loadTtl, todo, infos, msgUser>>
    /\ UNCHANGED <<broker, redis, environment, history>>

\* ETL.run up to its loop: a stop signal that came before is overwritten.
Run ==
    /\ pc = "booted"
    /\ pc' = "idle"
    /\ isRun' = TRUE
    /\ UNCHANGED <<loaderOpen, cur, ttl, loadTtl, todo, infos, msgUser>>
    /\ UNCHANGED <<broker, redis, environment, history>>

\* on_quit: SIGTERM, SIGHUP or SIGINT.
Stop ==
    /\ isRun
    /\ isRun' = FALSE
    /\ UNCHANGED <<pc, loaderOpen, cur, ttl, loadTtl, todo, infos, msgUser>>
    /\ UNCHANGED <<broker, redis, environment, history>>

\* Slip: the loop never looks at the flag.
LoopForever == TRUE
\* while self.is_run
LoopGoesOn == isRun

\* The loop ends after a stop request, and main closes the connections.
Exit ==
    /\ pc = "idle"
    /\ ~LoopGoesOn
    /\ pc' = "down"
    /\ Forget
    /\ UNCHANGED cur
    /\ UNCHANGED <<broker, redis, environment, history>>

\* Extractor.get_data of a notice that core.models.Notice accepts.
GetData ==
    /\ pc = "idle"
    /\ LoopGoesOn
    /\ queue # <<>>
    /\ Head(queue) \notin Malformed
    /\ pc' = "begin"
    /\ cur' = Head(queue)
    /\ queue' = Tail(queue)
    /\ todo' = {}
    /\ UNCHANGED <<isRun, loaderOpen, ttl, loadTtl, infos, msgUser>>
    /\ UNCHANGED <<declared, sent, redis, environment, history>>

\* Extractor.get_data of any other: the ValidationError ends the process.
GetMalformed ==
    /\ pc = "idle"
    /\ LoopGoesOn
    /\ queue # <<>>
    /\ Head(queue) \in Malformed
    /\ Die
    /\ UNCHANGED <<declared, sent, redis, environment, history>>

-----------------------------------------------------------------------------
(***************************************************************************)
(* Transformer.transform and Loader.load.                                  *)
(***************************************************************************)

\* Slip: a repeated notice is processed as if it were new.
UnprocessedAll(n) == Positions(n)
\* The recipients of a repeated notice that still have to be processed.
Unprocessed(n) == {i \in Positions(n) : ~IsProcessed(n, Recipients[n][i])}

\* transform of a notice that has expired: it yields nothing.
BeginExpired ==
    /\ pc = "begin"
    /\ ExpireAt[cur] < now
    /\ pc' = "work"
    /\ late' = late \cup {cur}
    /\ UNCHANGED <<isRun, loaderOpen, cur, ttl, loadTtl, todo, infos, msgUser>>
    /\ UNCHANGED <<broker, redis, environment, acked, missed>>

\* transform of a notice that is in time, up to the template it reads.
BeginFresh ==
    /\ pc = "begin"
    /\ ExpireAt[cur] >= now
    /\ pc' = "fresh"
    /\ UNCHANGED <<isRun, loaderOpen, cur, ttl, loadTtl, todo, infos, msgUser>>
    /\ UNCHANGED <<broker, redis, environment, history>>

\* The ttl of the marks, computed when the template has been read.
ComputeTtl ==
    /\ pc = "fresh"
    /\ pc' = "dated"
    /\ ttl' = TtlFromDatetime(cur)
    /\ UNCHANGED <<isRun, loaderOpen, cur, loadTtl, todo, infos, msgUser>>
    /\ UNCHANGED <<broker, redis, environment, history>>

\* transform of a notice seen for the first time: the notice is marked.
BeginFirst ==
    /\ pc = "dated"
    /\ ~IsProcessed(cur, NoticeSlot)
    /\ CanMark(ttl)
    /\ pc' = "work"
    /\ SetMark(cur, NoticeSlot, "QUEUED", ttl)
    /\ todo' = Positions(cur)
    /\ UNCHANGED <<isRun, loaderOpen, cur, ttl, loadTtl, infos, msgUser>>
    /\ UNCHANGED <<broker, environment, history>>

\* transform of a repeated notice: processed recipients are filtered out.
BeginRepeat ==
    /\ pc = "dated"
    /\ IsProcessed(cur, NoticeSlot)
    /\ pc' = "work"
    /\ todo' = Unprocessed(cur)
    /\ UNCHANGED <<isRun, loaderOpen, cur, ttl, loadTtl, infos, msgUser>>
    /\ UNCHANGED <<broker, redis, environment, history>>

\* A window of user_info_lst: the first BatchSize of the remaining recipients.
IsWindow(batch) ==
    /\ Cardinality(batch) <= BatchSize
    /\ Cardinality(batch) < BatchSize => batch = todo
    /\ \A i \in batch, j \in todo \ batch : i < j

UsersAt(batch) == {Recipients[cur][i] : i \in batch}

\* get_users_info of the next window. The answer is a dictionary: a recipient
\* listed twice in the window is in it once, an unknown one is not in it.
FetchBatch ==
    /\ pc = "work"
    /\ infos = {}
    /\ todo # {}
    /\ \E batch \in SUBSET todo :
        /\ IsWindow(batch)
        /\ todo' = todo \ batch
        /\ infos' = UsersAt(batch) \cap Known
    /\ UNCHANGED <<pc, isRun, loaderOpen, cur, ttl, loadTtl, msgUser>>
    /\ UNCHANGED <<broker, redis, environment, history>>

\* The same when the call fails, the status is not 200 or the body is no
\* JSON: get_users_info_from_auth logs it and returns an empty dictionary.
FetchFails ==
    /\ pc = "work"
    /\ infos = {}
    /\ todo # {}
    /\ \E batch \in SUBSET todo :
        /\ IsWindow(batch)
        /\ todo' = todo \ batch
        /\ missed' = missed \cup ({cur} \X UsersAt(batch))
    /\ UNCHANGED <<pc, isRun, loaderOpen, cur, ttl, loadTtl, infos, msgUser>>
    /\ UNCHANGED <<broker, redis, environment, acked, late>>

\* A recipient who rejects this type of notice.
RejectUser(u) ==
    /\ pc = "work"
    /\ u \in infos
    /\ u \in Rejecting[cur]
    /\ CanMark(ttl)
    /\ SetMark(cur, u, "REJECTED_USER", ttl)
    /\ infos' = infos \ {u}
    /\ UNCHANGED <<pc, isRun, loaderOpen, cur, ttl, loadTtl, todo, msgUser>>
    /\ UNCHANGED <<broker, environment, history>>

\* A recipient without the data this transport needs.
RejectNoData(u) ==
    /\ pc = "work"
    /\ u \in infos
    /\ u \notin Rejecting[cur]
    /\ ~HasMsgMeta(cur, u)
    /\ CanMark(ttl)
    /\ SetMark(cur, u, "REJECTED_NODATA", ttl)
    /\ infos' = infos \ {u}
    /\ UNCHANGED <<pc, isRun, loaderOpen, cur, ttl, loadTtl, todo, msgUser>>
    /\ UNCHANGED <<broker, environment, history>>

\* The generator yields the message of a recipient, and load computes its ttl.
YieldMessage(u) ==
    /\ pc = "work"
    /\ u \in infos
    /\ u \notin Rejecting[cur]
    /\ HasMsgMeta(cur, u)
    /\ pc' = "send"
    /\ msgUser' = u
    /\ loadTtl' = TtlFromDatetime(cur)
    /\ infos' = infos \ {u}
    /\ UNCHANGED <<isRun, loaderOpen, cur, ttl, todo>>
    /\ UNCHANGED <<broker, redis, environment, history>>

\* What RabbitMQ puts into a queue: a message with a routing key that names
\* a queue and an expiration that is not negative.
Accepts(n, t) == TransportOf[n] \in declared /\ t >= 0

\* Loader.send_message, however long after the ttl was computed. A negative
\* expiration makes RabbitMQ close the channel; the publisher learns of it
\* with its next publish.
SendMessage ==
    /\ pc = "send"
    /\ loaderOpen
    /\ pc' = "mark"
    /\ loaderOpen' = (loadTtl >= 0)
    /\ sent' = IF Accepts(cur, loadTtl)
               THEN [sent EXCEPT ![<<cur, msgUser>>] = @ + 1]
               ELSE sent
    /\ UNCHANGED <<isRun, cur, ttl, loadTtl, todo, infos, msgUser>>
    /\ UNCHANGED <<queue, declared, redis, environment, history>>

\* Loader.send_message on a closed channel raises.
SendOnClosed ==
    /\ pc = "send"
    /\ ~loaderOpen
    /\ Die
    /\ UNCHANGED <<declared, sent, redis, environment, history>>

\* Loader.load marks the recipient as queued.
MarkQueued ==
    /\ pc = "mark"
    /\ CanMark(loadTtl)
    /\ SetMark(cur, msgUser, "QUEUED", loadTtl)
    /\ pc' = "work"
    /\ msgUser' = NoUser
    /\ loadTtl' = 0
    /\ UNCHANGED <<isRun, loaderOpen, cur, ttl, todo, infos>>
    /\ UNCHANGED <<broker, environment, history>>

\* The ttl of the next mark is so far below zero that Redis refuses it: the
\* mark of the notice, of a recipient who gets nothing, or of a message.
MarkRefused ==
    \/ pc = "dated" /\ ~IsProcessed(cur, NoticeSlot) /\ ~CanMark(ttl)
    \/ /\ pc = "work"
       /\ ~CanMark(ttl)
       /\ \E u \in infos : u \in Rejecting[cur] \/ ~HasMsgMeta(cur, u)
    \/ pc = "mark" /\ ~CanMark(loadTtl)

\* mark_processed raises, and the process ends.
MarkFails ==
    /\ MarkRefused
    /\ Die
    /\ UNCHANGED <<declared, sent, redis, environment, history>>

\* Slip: the notice is acknowledged after its first batch.
LoadDoneEarly == infos = {}
\* The generator is exhausted.
LoadDone == infos = {} /\ todo = {}

\* Extractor.mark_done.
MarkDone ==
    /\ pc = "work"
    /\ LoadDone
    /\ pc' = "idle"
    /\ cur' = NoNotice
    /\ ttl' = 0
    /\ todo' = {}
    /\ acked' = acked \cup {cur}
    /\ UNCHANGED <<isRun, loaderOpen, loadTtl, infos, msgUser>>
    /\ UNCHANGED <<broker, redis, environment, late, missed>>

-----------------------------------------------------------------------------
(***************************************************************************)
(* The environment.                                                        *)
(***************************************************************************)

\* The API publishes a notice; the admin service may post the same one again.
Publish(n) ==
    /\ published[n] < MaxPublish
    /\ published' = [published EXCEPT ![n] = @ + 1]
    /\ queue' = Append(queue, n)
    /\ UNCHANGED <<declared, sent, redis, process, now, crashes, history>>

\* A sender starts and declares the queue it consumes.
Declare(t) ==
    /\ t \in Consumed \ declared
    /\ declared' = declared \cup {t}
    /\ UNCHANGED <<queue, sent, redis, process, environment, history>>

Tick ==
    /\ now < MaxTime
    /\ now' = now + 1
    /\ UNCHANGED <<broker, redis, process, crashes, published, history>>

\* The process is killed or loses a connection, at any point.
Crash ==
    /\ pc # "down"
    /\ crashes < MaxCrashes
    /\ crashes' = crashes + 1
    /\ Die
    /\ UNCHANGED <<declared, sent, redis, now, published, history>>

-----------------------------------------------------------------------------
\* The steps of the process itself: what keeps happening while it lives.
EtlStep ==
    \/ Run
    \/ GetData
    \/ GetMalformed
    \/ BeginExpired
    \/ BeginFresh
    \/ ComputeTtl
    \/ BeginFirst
    \/ BeginRepeat
    \/ FetchBatch
    \/ FetchFails
    \/ \E u \in Users : RejectUser(u)
    \/ \E u \in Users : RejectNoData(u)
    \/ \E u \in Users : YieldMessage(u)
    \/ SendMessage
    \/ SendOnClosed
    \/ MarkQueued
    \/ MarkFails
    \/ MarkDone
    \/ Exit

Next ==
    \/ EtlStep
    \/ Start
    \/ Stop
    \/ \E n \in Notices : Publish(n)
    \/ \E t \in Consumed : Declare(t)
    \/ Tick
    \/ Crash

Spec == Init /\ [][Next]_vars

\* The process is a loop that is never blocked for ever: every call it makes
\* returns or raises. Nothing restarts it (docker-compose.yaml gives
\* etl_notice no restart policy), so Start is not fair.
FairSpec == Spec /\ WF_vars(EtlStep)

-----------------------------------------------------------------------------
(***************************************************************************)
(* What the process promises.                                              *)
(***************************************************************************)

\* No recipient is listed twice in the notice.
Distinct(n) ==
    \A i, j \in Positions(n) : Recipients[n][i] = Recipients[n][j] => i = j

\* A recipient of a notice gets a second message only if the process was
\* killed after it published the first: the marks in Redis, the order in which
\* they are set and how long they live keep every other redelivery, and every
\* notice published twice, from being sent again.
DuplicatesNeedCrash ==
    \A n \in Notices, u \in Users : Distinct(n) => sent[<<n, u>>] <= 1 + crashes

\* A recipient that a notice lists several times gets at most one message for
\* each time it is listed, in whatever windows they are, and one more for each
\* kill: a first pass does not read the marks of the recipients, later ones do.
\* (etl.py:121-132)
CopiesBounded ==
    \A n \in Notices, u \in Users :
        sent[<<n, u>>] <= Cardinality({i \in Positions(n) : Recipients[n][i] = u}) + crashes

\* The decision about a recipient is on record, or will never be made.
Settled(n, u) ==
    \/ mark[<<n, u>>] # NoMark
    \/ u \notin Known
    \/ <<n, u>> \in missed

\* A notice leaves the queue only when it expired or when every recipient has
\* a mark, is unknown to the auth service, or was in a batch that the auth
\* service did not answer: no interleaving of loading, marking, crashing and
\* redelivering drops anybody else (etl.py, run: mark_done is last).
Accounted ==
    \A n \in acked \ late : \A u \in RecipientSet(n) : Settled(n, u)

Queued(n) == \E i \in DOMAIN queue : queue[i] = n

\* A published notice stays in the queue or in the hands of the process until
\* it is acknowledged, whatever kills the process (get_data: auto_ack=False).
NoNoticeLost ==
    \A n \in Notices : published[n] > 0 => Queued(n) \/ cur = n \/ n \in acked

\* A whole second has passed since the expiry: the ttl is negative from now on.
Overdue(n) == now >= ExpireAt[n] + Second

\* While it has a notice in its hands, the process ends by itself only because
\* some notice is overdue, this one or an earlier one whose negative expiration
\* closed the channel: a notice that expired a fraction of a second ago is
\* published and marked like any other. (utils.py:6, etl.py:162, 42)
DiesOnlyOverdue ==
    [][pc' = "down" /\ cur # NoNotice /\ crashes' = crashes
            => \E n \in Notices : Overdue(n)]_vars

\* Every notice in the queue is acknowledged in the end if the process is
\* eventually up for good: neither a failing auth service nor a notice that
\* expired in the queue or comes again holds up the notices behind it.
Drains ==
    <>[](pc # "down") => \A n \in Notices : Queued(n) ~> n \in acked

\* A stop request that reaches the running loop ends the process.
StopHonoured == (pc \notin {"down", "booted"} /\ ~isRun) ~> pc = "down"

-----------------------------------------------------------------------------
(***************************************************************************)
(* The process implements NoticeFanOut when no notice lists a recipient    *)
(* twice: a case is open while its mark is not set.                        *)
(***************************************************************************)
UserMarks == [p \in Pairs |-> mark[p]]

\* An expired notice excuses all its recipients, an unknown user and a batch
\* without an answer those recipients.
Excused == {p \in Pairs : p[1] \in late \/ p[2] \notin Known \/ p \in missed}

FanOut == INSTANCE NoticeFanOut WITH
    Addressees <- [n \in Notices |-> RecipientSet(n)],
    copies <- sent,
    fate <- UserMarks,
    excused <- Excused,
    closed <- acked

\* A decision about a recipient is final and nothing is sent to him after it,
\* whichever steps of whichever redelivery come in between.
ImplementsFanOut == FanOut!Spec

-----------------------------------------------------------------------------
(***************************************************************************)
(* The inductive invariant behind DuplicatesNeedCrash, Accounted and the   *)
(* refinement: what the local state of the process says about Redis.       *)
(***************************************************************************)
Busy == pc \in {"work", "send", "mark"}

\* The recipients of the current round that are still to be decided about.
Pending == infos \cup UsersAt(todo)

ProcessShape ==
    /\ cur = NoNotice <=> pc \in {"down", "booted", "idle"}
    /\ msgUser = NoUser <=> pc \notin {"send", "mark"}
    /\ ~Busy => infos = {} /\ todo = {}

\* A mark lives until its notice is overdue and longer, and the mark of a notice
\* is older than those of its recipients.
MarksOutliveNotices ==
    \A n \in Notices, s \in Slots :
        mark[<<n, s>>] # NoMark =>
            /\ until[<<n, s>>] > ExpireAt[n] + Second
            /\ mark[<<n, NoticeSlot>>] # NoMark

\* A ttl that gives such a mark, now or later: less than a second is missing.
Reaches(n, t) == now + Second * t > ExpireAt[n] - Second

\* The ttls in hand are of this kind.
TtlsInHand ==
    /\ pc = "dated" => Reaches(cur, ttl)
    /\ Busy /\ (infos # {} \/ todo # {} \/ pc # "work") =>
            /\ Reaches(cur, ttl)
            /\ mark[<<cur, NoticeSlot>>] # NoMark
    /\ pc \in {"send", "mark"} => Reaches(cur, loadTtl)

\* A recipient is decided about in the way his data ask for.
Verdict(n, u) ==
    IF u \in Rejecting[n] THEN "REJECTED_USER"
    ELSE IF HasMsgMeta(n, u) THEN "QUEUED" ELSE "REJECTED_NODATA"

MarksAreVerdicts ==
    /\ \A n \in Notices, u \in Users : mark[<<n, u>>] \in {NoMark, Verdict(n, u)}
    /\ pc \in {"send", "mark"} => Verdict(cur, msgUser) = "QUEUED"

\* The message of this recipient is in a queue and he is not marked yet.
InHand(n, u) == pc = "mark" /\ cur = n /\ msgUser = u /\ loadTtl >= 0

\* Who has no mark got no message, except by a kill or as the one in hand.
UnmarkedUnsent ==
    \A n \in Notices, u \in Users :
        Distinct(n) /\ mark[<<n, u>>] = NoMark /\ ~InHand(n, u)
            => sent[<<n, u>>] <= crashes

\* Nobody is pending twice. Until the notice is overdue, who is pending has no
\* mark; neither has who is in hand with a ttl that RabbitMQ accepts.
PendingUnmarked ==
    Busy /\ Distinct(cur) =>
        /\ \A u \in Pending : u # msgUser /\ (mark[<<cur, u>>] = NoMark \/ Overdue(cur))
        /\ infos \cap UsersAt(todo) = {}
        /\ pc # "work" /\ loadTtl >= 0 => mark[<<cur, msgUser>>] = NoMark

\* While a notice is processed, who is not settled is pending or in hand.
RoundCovers ==
    Busy /\ cur \notin late =>
        \A u \in RecipientSet(cur) : Settled(cur, u) \/ u \in Pending \/ u = msgUser

\* The inductive invariant of the process: the local lists of a round, the
\* marks in Redis and the messages in the queues agree at every step.
RoundInv ==
    /\ TypeOK
    /\ ProcessShape
    /\ MarksOutliveNotices
    /\ TtlsInHand
    /\ MarksAreVerdicts
    /\ UnmarkedUnsent
    /\ PendingUnmarked
    /\ RoundCovers
    /\ DuplicatesNeedCrash
    /\ Accounted

-----------------------------------------------------------------------------
(***************************************************************************)
(* What comments and documents say, and the code does not do.              *)
(***************************************************************************)

\* etl/README.md: a notice is removed from the queue when everything has been
\* processed. A batch that the auth service did not answer has not been.
AckedIfProcessed ==
    \A n \in acked \ late : \A u \in RecipientSet(n) \cap Known :
        mark[<<n, u>>] # NoMark

\* etl.py, load: a recipient marked as queued has been put into a queue. No
\* process declares the queues of "sms" and "push".
QueuedIsSent ==
    \A n \in Notices, u \in Users : mark[<<n, u>>] = "QUEUED" => sent[<<n, u>>] > 0

=============================================================================
