# Verification of the notification service

TLA+ models, TLC runs and TLAPS proofs for `notifications_sprint_1`: a service
that takes notices ("tell these users this"), fans them out into one message
per user and delivers the messages by email and websocket, with an
authentication service that knows the users. All line numbers refer to the
files under `src/`.

    tlc -workers 2 -config EtlSafety.cfg MCNoticeEtl     one run
    tlapm NoticeEtlProofs.tla                            the proofs of a module

`PROJECT.json` lists the runs with their modules, the mutants that show that a
property can fail, the map from definitions to lines of code, the hazards and
the findings.

## 1. Inventory

### The parts and how they interact

    admin (Django) --> celery beat/worker --HTTP--> publish API --"notice"--> ETL
                                                                 |   |    |
                                         auth service <--HTTP----+   |    +--> Redis (marks)
                                                                     |
                                 "email" <---------------------------+----> "websocket"
                                    |                                            |
                               email sender --> SendGrid              websocket sender --> browsers
                                    ^    |
                                    +----+ "email-dlq" (retry after 5 s)

| Component | State it keeps | Operations | Hard behaviour |
|---|---|---|---|
| **Notice ETL** `service_notice/etl` | one connection to RabbitMQ, the notice in hand, the lists of a round; in Redis one mark per (notice, user) and per (notice, 0) | `get_data`, `transform`, `load`, `mark_done`, `stop` | kill between publishing and marking; redelivery; marks that expire; auth that does not answer; expiry while it works |
| **Email sender** `service_notice/email_sender` | the unacknowledged delivery | `send_email`, `SendgridSender.send`, `check_to_resend`, `get_send_datetime` | kill between SendGrid and acknowledgement; retries through a second queue; exceptions past a `finally` |
| **Websocket sender** `service_notice/websocket_sender` | `ws_connections`, open sockets | `handler`, `send_by_websocket`, `process_notifications` | coroutines that share the dictionary; a reconnect before the old handler ended; delivery without acknowledgement |
| **Publish API** `service_notice/api` | connection, cached queue | `POST /publish/` | reconnect and publish again; an answer that is lost; restarts of the API and of RabbitMQ |
| **Admin and scheduler** `service_notice/admin_notice` | notifications with status and time in PostgreSQL; tasks in Redis | create, edit, delete; `send_notifications` every minute | overlapping tasks, stale `save`, tasks that die |
| **Auth: sessions and tokens** `service_auth/.../token_service.py`, `auth_service.py`, `storage.py` | in Redis: token per device, device set, session info | login, refresh, logout, logout of all, list sessions | every operation is several Redis calls that interleave |
| **Auth: roles and the token payload** `role_service.py`, `role_routes.py`, `token_service.py` | roles and assignments in PostgreSQL, a payload per user in Redis, the role names in tokens | add, rename, delete, assign, take away; login and refresh | copies of a name that outlive it; read, then commit |
| **Auth: users** `user_service.py`, `database.py`, `flask_cli.py` | users in PostgreSQL | register, change the password, `createsuperuser` | check, then insert; three commits |
| **OAuth** `oauth_service.py` | social accounts in PostgreSQL | login with a provider, removal of a link | logins and registrations that race for one email; two commits |
| **Shell** | - | Flask set-up, limits, tracing, logging, nginx, docker, migrations, templates | none of its own |

What the parts share: the queues of RabbitMQ (`notice` and `email` durable
with priorities 0..10, `email-dlq` with a ttl and a dead-letter route back to
`email`, `websocket` not durable and without acknowledgements), the marks in
Redis, and the HTTP call of the ETL to auth, in batches of 100 users.

### What makes each part correct

* **ETL.** A recipient gets one message per notice, however often the notice is
  published or redelivered; a notice is acknowledged only when something has
  been decided about every recipient; no published notice is lost; only a notice
  that is overdue by a second ends the process; the queue drains; a stop request
  is honoured.
* **Email sender.** A mail is sent once, unless the process is killed at the
  wrong moment; no message vanishes without one of the documented reasons; the
  retries end; delayed mails go out by day.
* **Websocket sender.** A user who is connected is in the dictionary, with his
  newest connection; no entry outlives its connection; messages are dropped
  only for a reason.
* **Publish API, scheduler.** A due notification is dealt with; it reaches the
  queue more than once only for a reason; `done` means that it did, `failed`
  that the broker failed; the task does not touch what people write.
* **Auth sessions.** A token that was revoked never works again; closing all
  sessions closes all of them; the device set and the tokens agree.
* **Auth roles.** A role that was taken away is gone from all tokens after a
  known time; an answer about an assignment is true, unless two overlapping grants
  have stored it twice.
* **Users, OAuth.** A social account leads to one user as long as it is linked;
  no user is left half made, unless a request fails between its commits or somebody
  takes the link or the role away.

The hazards, at their lines, are in `PROJECT.json`.

## 2. Plan

Order of work, most important behaviour first. Items 1 to 8 are done.

1. `NoticeFanOut` (abstract), `NoticeEtl` (detailed), `NoticeEtlProofs`.
2. `EmailSender`, `EmailSenderProofs`: acknowledgement, retries, kills.
3. `WebsocketSender`, `WebsocketSenderProofs`.
4. `SendWindow`, `SendWindowProofs`: the pure algorithm of the send moment.
5. `AuthSessions`, `AuthSessionsProofs`: the Redis calls of login, refresh, logout,
   logout of all and the session list as single steps of concurrent requests.
6. `TokenRoles`, `TokenRolesProofs`: the assignments, the cached payload, the
   names in tokens.
7. `PublishApi`, and `NoticeSchedule`, which composes it with the scheduler, with
   `NoticeScheduleProofs`: overlapping tasks, lost answers, the second publish.
8. `Accounts`, `AccountsProofs`: check-then-insert of users and social accounts,
   `createsuperuser`.
9. Left: a `NotificationPipeline` from a due notification to a mail, which would
   compose `NoticeSchedule`, `NoticeFanOut` and the promise of the senders. Every
   safety property of the passing runs is a theorem.

Modules that are proved about contain no `RECURSIVE` operator; each has one
action per operation, and an invariant that is a conjunction of named parts.

## 3. The models

### NoticeEtl - `service_notice/etl/src`

One process, one notice at a time (`prefetch_count=1`, `basic_get`). The
program counter `pc` has one value per point where the process can be killed
with a different effect.

| Model | Code |
|---|---|
| `pc`, `isRun` | `main.py:34-49`, `ETL.run`, `ETL.stop` |
| `cur`, `infos`, `todo`, `ttl` | the locals of `transform`: the notice, the users of the batch that auth answered, the windows still to ask for, the ttl computed at the start |
| `msgUser`, `loadTtl` | the message that `load` publishes and then marks, and the ttl that `load` computes again (`etl.py:174`) |
| `now`, `Second` | the clock, with `Second` ticks to a second, because ttls are whole seconds (`utils.py:6`) and expiries are not |
| `queue`, `published`, `acked` | the queue "notice"; a notice in hand is not in it, a kill puts it back in front |
| `mark`, `until` | Redis: the value and the end of life of `notice:N:user:U`; user 0 is `NoticeSlot` |
| `sent` | messages that reached a queue |
| `crashes`, `missed`, `late` | history: kills, recipients in a batch without an answer, notices that were found expired |

`GetData`/`GetMalformed` are `get_data`; `BeginExpired`, `BeginFirst` and
`BeginRepeat` the three ways into `transform`; `FetchBatch` and `FetchFails`
the two outcomes of the auth call (any exception or status gives `{}`);
`RejectUser` and `RejectNoData` the two `continue`s; `YieldMessage`, `SendMessage`
and `MarkQueued` the steps of `load`, which computes a ttl (`etl.py:174`),
publishes with it (`:175`) and marks with it (`:178`), so that time can pass
between any two of them; `SendOnClosed` and `MarkFails` their failures;
`LoadDone` and `MarkDone` the end of a round. `Crash` can happen everywhere. The
generator of `transform` and the loop of `load` alternate, as Python runs them.

`TtlFromDatetime` truncates toward zero, as `int()` does: the ttl of a notice
that expired less than a second ago is 0, which RabbitMQ accepts as an expiration
and Redis, with the margin, as a lifetime. Only from a whole second after the
expiry on is it negative, and closes the channel.

Data is abstracted: templates and bodies are absent, users differ only in
whether auth knows them, whether they have an email and a phone and what they
reject. A template that is missing raises, which is the same as a kill.

**NoticeFanOut** is the promise in its simplest form: a set of cases
<<notice, user>>, each undecided, served or rejected; a copy may be sent only
while a case is undecided; a notice closes when no case is undecided that is
not excused. `NoticeEtl` implements it with the marks as the fates.

### EmailSender - `service_notice/email_sender/src`

Two queues as counters of alike copies <<message, retries>>, the delivery in the
worker's hands, and the callback step by step: parsing, the four outcomes of
`sender.send` (accepted, refused, refused for the last time, an exception that
is no `HTTPError`), the copy to `email-dlq`, the acknowledgement in `finally`.
Priorities and expirations decide what RabbitMQ delivers. SendGrid may or may not
have accepted a mail when its client raises.

### SendWindow - `utils.py`

`get_send_datetime` on the user's wall clock in minutes. The delay is computed
once, in whole hours (`Delay`); the mail then waits on SendGrid's clock while
the user's clock ticks and may be put forward or back. The reference is
`LeastDelay`, the least number of hours that leads into the window.

### WebsocketSender - `service_notice/websocket_sender/src`

Every connection has its coroutine; what lies between two awaits is one action.
`Connect`, `Register`, `Refuse` and `Unregister` are `handler`, `Push`, `Send`
and `Drop` the delivery of a message, `Start`, `Consume`, `GiveUp` the start
of the process. `Close` only closes the socket: the handler learns of it later,
and in between the dictionary still holds the connection. A handler removes the
entry of its user whoever's connection it holds, as `del
ws_connections[user_id]` does; the `KeyError` that a second `del` raises ends a
coroutine that ends anyway.

### AuthSessions - `service_auth/src/app`

The sessions of one user: no key in Redis is shared by two. `docker-compose.yaml`
builds the development image, which serves with `app.run`, a thread per request,
so that requests interleave between any two calls to Redis; each call is an
action.

| Model | Code |
|---|---|
| `token[d]` | `user:{id}:device:{d}`: its ttl, 0 if there is no key |
| `holders[d]` | who has the token that the key names, the client or a request; "the ids are equal" is "the request is among the holders" |
| `devices`, `info[d]` | the set of devices; the hash of the session with its ttl (`NoTtl` between `hset` and `expire`), and whether it has a `device_name` |
| `req[r]` | the request of a thread: where it is, its device, the lists it has read |
| `access` | clients with a live access token (`jwt_required`); it is never revoked |
| `known`, `clash` | history: what the last undisturbed requests made of a session, and which devices are disturbed while a request is in flight |

`Login`, `LoginDevice`, `SessionInfo`, `SessionExpire`, `Answer` are `login`;
`Refresh` (the check of `flask_jwt.py`), `RefreshCheck` (the one of
`refresh_tokens`), `RefreshToken`, `SessionInfo`, `SessionExpire`, `Answer` are
`refresh`. `SessionInfo` and `SessionExpire` are the two calls of `set_info`, `hset`
(`storage.py:138`) and `expire` (`:140`). `Logout`, `LogoutDevice` and the three
calls of `close_session` (`CloseInfo`, `CloseToken`, `CloseDevice`) are `logout`,
whose User-Agent may name another device than its token. `ListSessions` and
`CloseAllSessions` read the devices, ask for each token (`Exists`), remove the
devices and infos of those that have none (`DropDevice`, `ForgetInfo`), read the
devices again and the infos (`LookAt`); the second one then closes what it
found, and raises (`CloseRaises`) on an info that is not there. `Fail` ends a
request anywhere. The unit of time is the life of an access token; a request is
much shorter, so that no unit passes between the tokenize of a request and its
answer.

### PublishApi and NoticeSchedule - `service_notice/api`, `service_notice/admin_notice`

`NoticeSchedule` EXTENDS `PublishApi`; the callers of the API are the celery
processes.

| Model | Code |
|---|---|
| `brokerUp`, `queue`, `open` | RabbitMQ, its queue "notice" and the connection of the API |
| `call[w]` | the request of process w: `publish.py:10-19` step by step, then its answer, or `cut` when the API died |
| `row[n]` | a row of `notifications`: status, time and edition (the number of the last save, for all other fields) |
| `batch[w]` | the notifications as the task of w has read them (`tasks.py:15`) |
| `backlog`, `lastBeat` | tasks in Redis; the minute of the last one (`celery_app.py`) |
| `posts`, `repeats`, `outage`, `left` | history: how often a notice reached the queue, events that explain one more, calls that met a failure of the broker, notices that left the queue |
| `byHand`, `wish` | history: rows whose status a person set, and what the last write of a person says, unless a task held the row then |

`PublishOk`, `PublishClosed`, `PublishBreaks`, `Connect`, `ConnectFails` are the
handler: a `RuntimeError` of the first publish leads to a reconnect and a second
publish, whose errors leave the handler; when the connection breaks during a
publish the notice has reached the queue or not, and the exception is a
`RuntimeError` or another one. `TakeTask`, `Post`, `PostFails`, `Receive`,
`ReceiveNothing` are `send_notifications`; `Receive` writes back every field as it
was read, as `save()` does. `MessageFails` is the `continue` of `tasks.py:19-22`: the
message cannot be made, and the row stays as it is; it shares a bound with the tasks
that die. `SaveForm` writes every field too, with any status,
because the form offers it. `TaskDies` leaves its request to the API, which goes on
with it (`Replaced`). Time counts minutes, the resolution of the schedule and of
`validate_datetime`.

### TokenRoles - `role_service.py`, `role_routes.py`, `token_service.py`

| Model | Code |
|---|---|
| `roleName`, `assigned` | the tables `roles` and `user_roles` |
| `doubled` | the assignments that `user_roles` holds in more than one row |
| `cached[u]` | `user:{id}:payload` in Redis: the role names and the time it has left |
| `token[u][x]` | the time left to the last access token of u that has the name x; the same for all tokens with x, since every one lives equally long |
| `request[t]` | a login that has read the user, or a change of an assignment that has read `user.roles` |
| `age[u][x]` | history: how long u has not had the name x |
| `raced` | history: assignments that two overlapping grants may have stored twice |

Adding, renaming and deleting a role is one statement each, after checks that only
decide about the error; deleting takes the assignments along. `LoadRoles` and
`CommitRoles` are the two halves of `add_user_role` and `delete_user_role`: the list
is read, another request may write, the commit succeeds if the database lets it,
and `RolesAnswer` tells the caller so. The database is the one that the migrations
create: the unique index of `db_models.py:43` is in none of them, so that two grants
that have both read a list without the role store it in two rows (`Doubles`). What a
revoke then does depends on its list. If that holds the role twice, `remove` takes
one of two equal entries, there is nothing to delete, and the request answers 200
with the assignment in place; if it holds it once, the delete matches two rows and
fails. `LoadRoles` leaves the choice open (`many`). `ReadUser` and `SetPayload` are a login, or a
refresh without a payload; `RefreshCached` one with it. Every change needs a token
with an accepted name (`Authorised`), whether or not its user still has it, as in
`jwt_accept_roles`. Which refresh tokens are accepted is `AuthSessions`' part: here
anyone may refresh. `HourPasses` is the clock, external to the code; a request takes
less than the unit of time, so that none passes while one is served.

### Accounts - `user_service.py`, `oauth_service.py`, `flask_cli.py`

| Model | Code |
|---|---|
| `origin[u]` | the row of the user with the login u, and how it was made |
| `link[s]` | the row of `user_social` |
| `rootRole`, `roots` | whether there is a role ROOT, and the superusers who have it |
| `known` | users whose password somebody has seen |
| `job[t]` | the request of a thread, or a run of `createsuperuser` |
| `hurt`, `stripped`, `went` | history: users whose request failed after it made them, or who lost a link; superusers who had the role and lost it; where the logins of s have led |

`LoginBySocial` is the look for the link and for the email in one step: both are
reads, and what they found is used later. `AddUser` and `AddSocial` are the two
commits, with the failures of their unique columns, `AnswerSocial` the answer with
the password. `CreateSuperUser`, `FindRootRole`, `AddRootRole`, `AssignRoot` are the
steps of `createsuperuser` (`flask_cli.py:31-39`). `AddRootRoleFails` meets the unique
name; `AssignRootFails` is the 404 of `role_service.py:73-74`, when the role was deleted
since it was found, and the assignment of another role, when it was renamed. What
administrators do to ROOT (`role_routes.py:17-64`) are `LoseRootRole` (delete or
rename), `NameRootRole` (create, or rename another role to it), `GrantRoot` and
`RevokeRoot`. `EmailOf` is what the callback of each provider makes of the
provider's answer: Yandex' `str(None).lower()` gives the text "none", VK's gives no
email, so that the login becomes the id of the user.

## 4. The runs

| Run | Question | Bounds, and why they are enough |
|---|---|---|
| `etl_safety` | duplicates, recipients that are forgotten; the inductive invariant | one notice published twice, two recipients in two batches (one without an email address), two kills, a margin of two seconds and a clock of half seconds that passes the expiry (at 3) and the life of the marks (at 7): kills can hit both passes, a pause can fall before and after every ttl that is computed, a mark can expire |
| `etl_poison` | is a notice lost when the process dies on its neighbour again and again? does a recipient who is listed twice get more copies than that? does a notice end the process before it is overdue? | two notices, one refused by the parser, one that expires under the hands of the process (at 1) and lists a user in two batches, each published twice; one kill; a clock of half seconds up to 3, where the ttl has been positive, 0 before and after the expiry, and negative |
| `etl_pair` | does the queue drain, does a stop end the process, does it implement `NoticeFanOut`? | two notices on two transports, one kill, a clock that passes one expiry by a whole second and reaches the other, under fairness: two notices are the least that can hold each other up |
| `email` | mails twice, messages that vanish, retries, does every message leave the queues? | two messages of different priority and expiry and one that cannot be parsed, one retry, two kills: a kill can hit the copy for a retry and then that copy's own round |
| `send_window` | do delayed mails go out by day, and without needless delay? | every minute of a day, a shift by an hour either way at any minute of the wait, the window of `config.py` |
| `ws` | is the dictionary right, are drops explained, do entries of closed connections go, does the queue drain? | three connections of one user, so that a third can register between the end of the first and the second, one with a bad token, two messages of which one cannot be parsed, one kill or lost connection |
| `auth` | does a session that was opened stay whole, does one that was closed leave nothing? | two devices, because a logout or a list can hit another one than its own, two threads, because every property speaks of what two requests do to each other (the proofs of both cover any number), one request that dies, keys that live for two hours, so that the access token ends before the refresh token |
| `services` | the schedule: is everything that is due dealt with, are repeats, `done` and `failed` explained, do edits stay? the roles: how long does a name live on, are answers true? the accounts: one user per social account, nobody half made? | see below |
| `auth_close_all` | does closing all sessions close all? | the same; a finding, see below |
| `etl_ack_after_failure`, `etl_sms_queue`, `email_raise` | what a README, comment or docstring says and the code does not do | see below |

`services` runs three models that share no variable: `part`, chosen at the start,
says which one a behaviour belongs to. Their product would add interleavings that
no property can tell apart. The bounds of each:

* schedule: two celery processes, because every race is one of two tasks or of a
  task and a person; one notification, because tasks treat each of theirs alone
  and no property relates two; one failure of the API or of the broker and one
  task that dies or message that cannot be made, so that both can meet; one save of a form; one minute that
  passes, the last of which repeats; one task that waits in Redis beside the two
  that run.
* roles: one user, because no row or key is shared by two; two roles and two
  names, one accepted, so that a name can move from one role to the other; two
  threads; a life of two units, so that a payload can be used in the middle of it.
  Time has no bound: what is counted is the time left and an age up to `Never`.
* accounts: two social accounts without an email, one of each provider, the email
  "none" and two ids; two threads, one request that dies. A provider that tells an
  email behaves as Yandex with "none" does, and a registration and `createsuperuser`
  compete for that email with the logins. With one email there is one superuser; the
  race of two runs for the role is met in `NameRootRole`, whose effect on the other
  run is the same.

The cfgs of `EmailSender` and `WebsocketSender` switch the deadlock check off:
when everything has been delivered, and the bounds are used up, these workers
wait. Numbers that grow without end in the code are bounded in guards:
`MaxTime`, `MaxCrashes`, `MaxPublish`, `MaxLosses`, `MaxFails`, `MaxFaults`,
`MaxKills`, `MaxEdits`, `MaxBacklog`, `MaxDeaths`. `AuthSessions` needs no other bound: it keeps ttls, not times, and who has a token, not its id.
Its run also checks that no request can be stuck (no deadlock).

### What they show

* **Duplicates** (`DuplicatesNeedCrash`): the marks do their work. Two
  publications of one notice, any redelivery, any failing call to auth leave a
  recipient with one message; only a kill between `send_message` and
  `mark_processed` (`etl.py:175-178`) costs a second one, and one kill costs at
  most one. The margin of a minute at `etl.py:42` is needed: the mutant without
  it sends twice.
* **Nobody is forgotten** (`Accounted`), with one exception the code makes
  itself: a batch that auth did not answer for. `NoNoticeLost`, `Drains`,
  `StopHonoured` hold as stated. A SIGTERM between
  `set_quit_signal` and `run` (`main.py:45-46`) is forgotten, because `run`
  sets `is_run`; `StopHonoured` speaks of the running loop.
* **Expiry under way.** Nothing checks the expiry again once `transform` has begun:
  after a pause a message is queued late, with the ttl that was computed before it
  or with 0. What a notice that expires in the process' hands must not do is to end
  it, and within the first second it does not: the ttl is 0, which RabbitMQ takes,
  and the margin keeps the lifetime of the mark positive. The process ends only
  once some notice is overdue by a whole second and its negative expiration has
  closed the channel (`DiesOnlyOverdue`); the mutant that rounds down ends it half
  a second after the expiry.
* **Mails** are sent twice only after a kill (`MailsNeedCrash`), and every
  message is accounted for, if one accepts "lost with an exception".
* **Websockets**: the dictionary never holds a stale or foreign entry and
  always the newest connection, but a user who had two connections at once can
  be connected without an entry: when the first one ends, it removes the entry
  of the second. `AloneIsRegistered` and `DropsExplained` say exactly this.
* **The send window** is met from every minute of the day; a change of the
  clock during the wait moves the mail by its size and no more.
* **Sessions**: whatever refreshes, logins and lists run at once, the session
  that a login opened stays listed, named and refreshable until it expires or
  is closed, and the client that got the last token can use it (`OpenIsWhole`).
  The exceptions are in `Conflict`: an opening request that meets a closing one,
  and a login that meets a list, may leave half a session. Closing requests do
  not hurt each other (`ClosedIsGone`). Every session info expires, but for one whose
  request died between `hset` and `expire`: Redis keeps that hash until a later
  login, refresh or closing of the device (`InfosExpire`, part of `TypeOK`).
* **Listed twice** (`CopiesBounded`): a recipient whom the notice lists twice gets
  two messages in the worst case of one pass, and never more than he is listed,
  kills aside.
* **The schedule.** A notice reaches the queue twice only if two tasks overlap, an
  answer or a task is lost after the publish, the API publishes again after a
  `RuntimeError`, or a person sets it back to waiting (`RepeatsExplained`): each of
  them really does it. `done` means that the notice was in the queue
  (`DoneIsQueued`); it may still be lost there, since the message is not
  persistent. `failed`, which is final, needs a failure of the broker during the
  call (`FailedNeedsOutage`): a connection that was closed before is repaired.
  Tasks do not undo what was written while none of them held the row
  (`EditsStay`); what was written while one did, they undo.
* **Roles.** A name that was taken away, renamed or deleted lives on in access
  tokens for less than two lives of one (`RevokedRolesFade`), and not less: the
  mutant that renews the payload at every refresh keeps it for ever. An answer
  about an assignment is true at some moment of its request (`AnswersTrue`), not
  necessarily at its end. The exception is a revoke after two overlapping grants of
  the same role: the table may hold two rows, which the index of `db_models.py:43`
  would not let in but which no migration creates, and the revoke answers 200 and
  removes nothing.
* **Accounts.** Logins that race for one social account, with each other and with a
  registration of its email, end at one user (`OneUserPerSocial`); the loser gets a
  500, and if it made a user, that one stays without a link. This, a death between
  commits and a removal of the link are what leaves a user whom nobody can log in as.
  A superuser stays without ROOT after a death, when another run made the role
  first, when an administrator deleted or renamed the role between
  `flask_cli.py:36` and `:39`; and loses it when an administrator deletes or renames
  the role or takes it from him. Nothing else does either (`HalfMadeNeedsFailure`).

### Findings

1. `etl/README.md:4` says that a notice is removed from the queue if everything
   was processed. It is also removed when auth did not answer
   (`etl_ack_after_failure`).
2. A recipient of an sms notice is marked as queued (`etl.py:173-178`) although
   no process declares the queue `sms` and the default exchange drops the
   message (`etl_sms_queue`).
3. `senders.py:23` says that on errors the notice is returned to be sent again.
   An error that is no `HTTPError`, a refused connection for instance, leaves
   `send`, and `main.py:49` acknowledges the message (`email_raise`).
4. `auth_service.py:84` says that `close_all_user_sessions` closes all sessions
   of the user. It closes those in the device set: a login whose `add_device`
   came before the `remove_device` of a logout on the same device, or a refresh
   that passed its check before a logout and wrote its token after it, is alive
   and not in the set (`auth_close_all`). A login that died before its
   `set_info` leaves a device without an info, on which the function raises.

## 5. Fairness

`docker-compose.yaml` gives `etl_notice`, `email_sender` and
`websocket_sender` no restart policy: **nothing restarts a process**, so that
no formula assumes that `Start` happens. The liveness properties of the queues
say what holds if the process is up for good from some time on
(`<>[](pc # "down") => ...`, `<>[](consumer = "on") => ...`).

Weak fairness is assumed of the steps of a running process, which is sequential
code that the operating system schedules, of the coroutines of the websocket
sender that can run (asyncio runs every ready coroutine), and of what RabbitMQ
does by its own timers and for a live consumer: dropping what has expired,
dead-lettering from `email-dlq`, pushing. No fairness of the outcome of a call:
auth or SendGrid may fail for ever.

`NoticeSchedule` assumes that time passes (`Tick`), that beat and the celery
processes work (`docker-compose.yaml` restarts them always), and that the API ends
a request that it has: `backoff` gives up after a minute. It assumes nothing about
`ApiStarts`, since the API has no restart policy: `DueIsServed` speaks of
behaviours in which the API is up from some time on. Tasks that die and messages that
cannot be made are finitely many (`MaxKills`): a row whose
message can never be made would stay waiting for ever. `TokenRoles` and `Accounts` make
no promise that needs fairness.

## 6. Proofs

For every value of the constants that the `ASSUME`s allow; TLC evaluates those
on every run.

**NoticeEtlProofs.** `RoundInvariant` proves the inductive invariant `RoundInv`
of `NoticeEtl`. `DuplicatesNeedCrash` is not inductive: that a recipient without
a mark can be sent a message is harmless only if he got none before. So the
invariant says

* `MarksOutliveNotices`: every mark lives until after the expiry of its notice,
  and the mark of a notice is there whenever one of its recipients' is (this
  is why a first pass need not look at the recipients);
* `TtlsInHand`: the ttls that the process holds will give such marks;
* `UnmarkedUnsent`: who has no mark, and is not the one in hand, got at most as
  many messages as there were kills;
* `PendingUnmarked`: who is still pending in the round has no mark, and nobody
  is pending twice;
* `RoundCovers`: who is not settled is pending or in hand, so that the end of
  the round leaves nobody.

From it: `NoDuplicateWithoutCrash`, `EveryRecipientAccounted`, `TypeCorrect`;
on its own `PublishedIsKept`. `EndsOnlyOverdue` adds `ChannelShape`: the channel is
closed only if some notice is overdue, and a negative ttl in hand is that of one that
is, because the clock does not run back. Duplicates are
excluded for notices with distinct recipients (`Distinct`): the code does not
filter a repeated id on a first pass. `ProcessImplementsFanOut` proves, under
that assumption for all notices, that every step of the process is a step of
`NoticeFanOut` or a stutter.

`CopiesAreListed` needs no such assumption. `CopyInv` says that a recipient without
a mark got messages by kills alone, but for the one in hand (`UnmarkedCopies`), and
that what he got, his places in the windows ahead and the answer in hand fit
together under the bound (`RoundRoom`). A first pass begins without marks, so that
the whole list fits; a later pass skips who has a mark.

**WebsocketSenderProofs.** `RegistryInv` joins the three properties of the
dictionary, which need each other: that an entry is served by its own user's
handler makes the entry that `Remove` deletes the right one for users who never
overlapped. It adds that registrations are numbered in order and that only
valid users are served. `EntriesAreFresh`, `AloneIsReachable`, `EntryIsNewest` and
`DropsAreExplained` follow: whoever was always alone is in the dictionary, so that
no step drops his message.

**SendWindowProofs.** `DelayLands`: from every minute the delay leads into the
window. `WindowInvariant` carries it through the wait: clock and remaining time
add up to a moment of the window, up to whole days and to the shift of the
clock; a tick over midnight changes the day, not the moment. `MailsGoOutByDay`
follows. It needs a window that starts on the hour and lasts an hour at least,
as that of `config.py` does: with `SEND_AFTER_TIME` at 9:30 a mail asked for at
8:10 would go out at 9:10. `NobodyWaitsNeedlessly`: no smaller number of hours leads
into the window (`NoLessLands`), so that the delay is the minimum that the reference
`LeastDelay` defines (`DelayIsLeast`).

**TokenRolesProofs.** `RolesInv` bounds the age of every copy of a name. With L for
`Lifetime`: a name in a payload that has the time l left was lost at most L - l ago;
one that a login has in hand was lost in this unit of time, which lasts until the
login is over; and a name in a token with the time l left was lost less than 2L - l
ago, because the token came from a login (age 0) or a payload that had at least one
unit left (age below L). The last one is `RevokedRolesFade`, and it is not inductive
without the other two. `AnswersTrue` rests on `HadIsMet`: a grant that found its
assignment has met it; and on the fact that the table holds an assignment twice, or
that a revoke has read it twice, only if grants raced for it.

**AccountsProofs.** `AccountsInv` says of every request what it may rely on. A login that is about to answer, and whose
account was not unlinked since it began, holds the user of the link; no login has
led anywhere but to the present link; a run that is about to assign the role it
found has found one that exists, unless it knows that it was lost; and every half made
user is the one of a living request that made him, or hurt, or a superuser who lost
the role. The properties `OneUserPerSocial` and
`HalfMadeNeedsFailure` speak of neither links nor of which request, and are not
inductive.

**NoticeScheduleProofs.** `ScheduleInv` adds two facts to the properties. `CallsTrue`:
an answer 200 follows a notice that reached the queue, an answer 500 a failure of the
broker, and a call that cannot succeed any more has met such a failure already; with
it a save of `done` or `failed` is true whichever of several tasks writes last.
`BatchesTrue`: a task holds a row as the last write of the admin left it, as long as
no task wrote over it; so its save puts back what is there. The assumption
`AbsentAssumption` says that a deleted row is no row.

`RepeatsAreExplained` rests on `RepeatInv`: the publishes of a notice, and the rights to
publish it that are around (`Rights`), are at most one more than the events that explain
a repeat. A call that may still publish, or that has ended without, is such a right; so is a row that
waits while no call is about it, and a notification that nobody has created yet. A
step passes rights on in one of the ways of `Passes`: a call takes the right of the row
over, a publish uses one up, an event pays for one more.

**EmailSenderProofs.** `EmailInv` is the type, `Accounted`, and that a copy on its way
to `email-dlq` has a retry left, without which `TypeOK` is not inductive. `Accounted`
follows from what each step does to the copies of one message: it moves one, or it
removes one and records why.

`SecondMailsNeedCrashes` and `RetriesWithinBudget` count. A sum over the copies in a queue
would need a proof by induction; instead the copies are the elements of a set
(`InQueue`), and so are the calls that they can still cost (`Tries`), and their
cardinalities grow and shrink by what a step puts and takes (`PutCounts`, `TakeCounts`).
`CountInv` says that the message and each kill pay for one mail and for MaxRetries + 1
calls, counting what is on its way (`Paid`), that a message that was not published yet
has left no trace, and that a copy with k retries was tried k times (`RetriesTried`).

**AuthSessionsProofs.** `SessionsInv` is the types and `HasDevice`: a request that is
about to write a key of a device has one. `OpenSessionsAreWhole` and
`ClosedSessionsAreGone` rest on `FlightInv`, which says for each device d, with the
requests that are in flight for it:

* `Undisturbed`: unless d is in `clash`, no two of them conflict, and if it is, nothing
  is claimed of its session;
* `ClosingInv`: what a closing request has removed stays removed, since nobody who
  writes it is in flight (`Exclusive`);
* `ClosedInv`: a closed session is gone, or a login or logout is in flight, or a close
  of all is half way through it (`Midway`); the client holds no token that is accepted,
  unless a closing request is still to take it;
* `ShutInv`: a close of all cannot miss a session that was open when it came: the
  session is whole, not taken for an expired one, and still to be read or on the list;
  or somebody has begun to close it, or has closed it;
* `LoginInv`, `OpenInv`: the token of an open session or a login has an owner, the client
  or a request that will answer, and the info outlives it or is about to be written
  (`Owned`); an open session that nobody closes is whole.

The properties speak only of devices that nobody works on, and are not inductive
without this. A step writes the keys of one device: `Frame` carries the invariant over
for all others, and `Removes`, `Opening`, `Leaving` and `Departs` say what the kinds of
steps do to their own. `SessionsAssumption` says that the mark for a missing info is not
an info. `SessionsTyped` adds `InfosExpire`: an info without a ttl has its writer at
`SessionExpire`, or a request failed.

**Only model-checked**: the liveness properties (`Drains`, `StopHonoured`, `Leaves`,
`ClosedIsRemoved`, `QueueDrains`, `DueIsServed`), which are out of the prover's reach under
fairness. Every other property of the passing runs is a theorem.

## 7. Not modelled

* Templates, mail texts, tracing, logging, the debug sender, migrations, static
  files: no behaviour that a property could be about.
* Redis snapshots: the marks of the ETL and the sessions are as durable as Redis is
  configured to be. RabbitMQ restarts are modelled where the API publishes; for the
  senders they are not: the queue "websocket" is not durable, and a restart loses it.
* The copy of a mail for a retry has no expiration (`email_sender/src/main.py:44`), so
  that a retried mail can be sent after its notice expired. No document says that it
  must not, so that no property claims it; the model has it (`IsExpired` covers
  first copies only).
* Containers that do not run in UTC (`core/utils.py:6` depends on it).
* In the auth service: rate limits, the history in PostgreSQL, the names of users, the
  lists of users for the ETL, and the exchange of codes and tokens with the providers.
  Emails are compared as they are spelled: a registration keeps the spelling of the
  request, a social login turns it to lower case, so that two users can have one
  mailbox; the model has the same (`Emails` are spellings). Several Yandex accounts
  without an email would share the login "none"; `YandexEmail` says so.
* The order of messages of equal priority: the queues of `EmailSender` are counters of
  alike copies, any of which may come next, so that a retried mail may overtake a first
  one, as it does in the code. No document promises an order, and no property claims one.
* No composition from the scheduler to the mailbox: the parts meet in queues only, and
  each one's model has the queue's other end as an environment.
