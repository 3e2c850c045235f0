---------------------------- MODULE AuthSessions ----------------------------
(***************************************************************************)
(* The sessions of one user of the auth service (service_auth/src/app).    *)
(* Every key in Redis holds the id of its user, so that no request of one  *)
(* user reads or writes a key of another.                                  *)
(*                                                                         *)
(* docker-compose.yaml starts the service with app.run, which serves each  *)
(* request in a thread: what lies between two calls to Redis is one action.*)
(* The rows of the history are written, and the tokens are answered, in    *)
(* the last step of a request.                                             *)
(***************************************************************************)
EXTENDS Naturals

CONSTANTS
    Devices,        \* hashes of the User-Agents of the user
    Requests,       \* threads that serve a request
    Life,           \* JWT_REFRESH_TOKEN_EXPIRES, and the ttl of a session info,
                    \* in units of JWT_ACCESS_TOKEN_EXPIRES
    Client,         \* the client, as one who has a refresh token
    NoDevice,       \* "the request works on no device yet"
    NoInfo,         \* "the key of the session info does not exist"
    MaxFails        \* bound of the requests that die before they answer

\* The ttl of a key that nobody has given one: Redis keeps it.
NoTtl == Life + 1
Info == [named : BOOLEAN, ttl : 1 .. NoTtl]

ASSUME SessionsAssumption ==
    /\ Client \notin Requests
    /\ NoDevice \notin Devices
    /\ NoInfo \notin Info
    /\ Life \in Nat \ {0}
    /\ MaxFails \in Nat

VARIABLES
    \* Redis
    token,      \* token[d]: the ttl of the refresh token of d, 0 if no key
    devices,    \* the set user:{id}:devices
    info,       \* info[d]: the hash user:{id}:device:{d}:info, and its ttl
    \* the threads
    req,        \* req[r]: the request that r serves
    \* the environment
    holders,    \* holders[d]: who has the token that Redis holds for d: the
                \* client that received it, the requests that bring it
    access,     \* devices whose client has a live access token
    fails,      \* how many requests died
    \* the history
    known,      \* known[d]: what the finished requests made of the session
    clash       \* devices disturbed while a request for them is in flight

redis == <<token, devices, info>>
clients == <<holders, access>>
history == <<known, clash>>
vars == <<redis, req, clients, fails, history>>

Session == [dev : Devices, named : BOOLEAN]

\* A request in hand: the device it works on, the devices that it may write,
\* those still to ask for, those whose token was missing and that it has still
\* to drop or has dropped, and the sessions it found.
Work ==
    [op : {"login", "refresh", "logout", "list", "closeall"},
     at : {"device", "check", "token", "info", "expire", "answer", "remove",
           "update", "look", "closing", "untoken", "undevice"},
     dev : Devices \cup {NoDevice}, touch : SUBSET Devices,
     todo : SUBSET Devices, gone : SUBSET Devices, lost : SUBSET Devices,
     found : SUBSET Session]
Idle == [op |-> "none"]

\* A token has a ttl of at most Life, and one that is gone is nobody's.
Types ==
    /\ token \in [Devices -> 0 .. Life]
    /\ devices \subseteq Devices
    /\ info \in [Devices -> Info \cup {NoInfo}]
    /\ req \in [Requests -> Work \cup {Idle}]
    /\ holders \in [Devices -> SUBSET (Requests \cup {Client})]
    /\ \A d \in Devices : token[d] = 0 => holders[d] = {}
    /\ access \subseteq Devices
    /\ fails \in 0 .. MaxFails
    /\ known \in [Devices -> {"open", "closed", "unknown"}]
    /\ clash \subseteq Devices

Init ==
    /\ token = [d \in Devices |-> 0]
    /\ devices = {}
    /\ info = [d \in Devices |-> NoInfo]
    /\ req = [r \in Requests |-> Idle]
    /\ holders = [d \in Devices |-> {}]
    /\ access = {}
    /\ fails = 0
    /\ known = [d \in Devices |-> "closed"]
    /\ clash = {}

At(r, at) == req[r] # Idle /\ req[r].at = at
Dev(r) == req[r].dev

\* Between hset and expire an info may have no ttl; nobody else gives it one.
InfosExpire ==
    \A d \in Devices : info[d] # NoInfo /\ info[d].ttl = NoTtl =>
        fails > 0 \/ \E r \in Requests : At(r, "expire") /\ Dev(r) = d

(* Types, and no session info stays in Redis for good, unless a request    *)
(* died between the two calls that write it (storage.py:88-153).           *)
TypeOK == Types /\ InfosExpire

-----------------------------------------------------------------------------
(* The history: which requests meet on a device, and what a request that   *)
(* met none it conflicts with has made of the session.                     *)

Opens(j) == j.op \in {"login", "refresh"}
Closes(j) == j.op \in {"logout", "closeall"}
InFlight(d) == {r \in Requests : req[r] # Idle /\ d \in req[r].touch}
Quiet(d) == InFlight(d) = {}

Conflict(j, k) ==
    \/ Opens(j) /\ Closes(k)
    \/ Closes(j) /\ Opens(k)
    \/ {j.op, k.op} = {"login", "list"}

Meets(j) == {d \in j.touch : \E q \in InFlight(d) : Conflict(j, req[q])}

\* A request enters: the history of the devices it meets another request on.
Enters(j) ==
    /\ known' = [d \in Devices |-> IF d \in Meets(j) THEN "unknown" ELSE known[d]]
    /\ clash' = clash \cup Meets(j)

\* A request leaves, and says what it made of the devices ds.
Leaves(r, ds, state) ==
    /\ known' = [d \in Devices |->
                   IF d \notin ds THEN known[d]
                   ELSE IF d \in clash THEN "unknown" ELSE state[d]]
    /\ clash' = {d \in clash : InFlight(d) # {r}}

-----------------------------------------------------------------------------
(* The requests.                                                           *)

NewWork(op, at, d) ==
    [op |-> op, at |-> at, dev |-> d, touch |-> {d}, todo |-> {},
     gone |-> {}, lost |-> {}, found |-> {}]

Go(r, at) == req' = [req EXCEPT ![r].at = at]
Has(r, d) == r \in holders[d]

\* The request ends.
End(r, ds, state) ==
    /\ req' = [req EXCEPT ![r] = Idle]
    /\ Leaves(r, ds, state)

Begin(r, j) ==
    /\ req[r] = Idle
    /\ req' = [req EXCEPT ![r] = j]
    /\ Enters(j)
    /\ UNCHANGED fails

\* tokenize: a new refresh token of d becomes the only one that d may use.
Tokenize(r, d) ==
    /\ token' = [token EXCEPT ![d] = Life]
    /\ holders' = [holders EXCEPT ![d] = {r}]

Untoken(d) ==
    /\ token' = [token EXCEPT ![d] = 0]
    /\ holders' = [holders EXCEPT ![d] = {}]
Undevice(d) == devices' = devices \ {d}
Uninfo(d) == info' = [info EXCEPT ![d] = NoInfo]

\* Slip: set_info replaces the fields of the hash.
Replaced(d, named) ==
    [named |-> named, ttl |-> IF info[d] = NoInfo THEN NoTtl ELSE info[d].ttl]

\* set_info merges the fields into the hash: a key that is there keeps its ttl,
\* a new one has none.
Merged(d, named) ==
    IF info[d] = NoInfo THEN [named |-> named, ttl |-> NoTtl]
    ELSE [info[d] EXCEPT !.named = @ \/ named]
SetInfo(d, named) == info' = [info EXCEPT ![d] = Merged(d, named)]

\* ... and sets its time to live, if it is still there.
Lasting(d) == IF info[d] = NoInfo THEN NoInfo ELSE [info[d] EXCEPT !.ttl = Life]
\* Slip: the hash gets no time to live.
ExpireForgotten(d) == info' = info
ExpireInfo(d) == info' = [info EXCEPT ![d] = Lasting(d)]

-----------------------------------------------------------------------------
(* login: auth, new_tokens, new_session.                                   *)

\* The password is right: tokenize is the first call that writes the session.
Login(r, d) ==
    /\ Begin(r, NewWork("login", "device", d))
    /\ Tokenize(r, d)
    /\ UNCHANGED <<devices, info, access>>

LoginDevice(r) ==
    /\ At(r, "device")
    /\ devices' = devices \cup {Dev(r)}
    /\ Go(r, "info")
    /\ UNCHANGED <<token, info, clients, fails, history>>

\* new_session stores the name of the device, refresh_session does not.
SessionInfo(r) ==
    /\ At(r, "info")
    /\ SetInfo(Dev(r), req[r].op = "login")
    /\ Go(r, "expire")
    /\ UNCHANGED <<token, devices, clients, fails, history>>

SessionExpire(r) ==
    /\ At(r, "expire")
    /\ ExpireInfo(Dev(r))
    /\ Go(r, "answer")
    /\ UNCHANGED <<token, devices, clients, fails, history>>

\* The history is written and the client receives both tokens.
Answer(r) ==
    /\ At(r, "answer")
    /\ holders' = [holders EXCEPT ![Dev(r)] =
                     IF Has(r, Dev(r)) THEN (@ \ {r}) \cup {Client} ELSE @]
    /\ access' = access \cup {Dev(r)}
    /\ End(r, {Dev(r)}, IF req[r].op = "login"
                        THEN [d \in Devices |-> "open"] ELSE known)
    /\ UNCHANGED <<redis, fails>>

-----------------------------------------------------------------------------
(* refresh: the whitelist in check_if_token_is_revoked, then               *)
(* refresh_tokens, which looks a second time, and refresh_session.         *)

Refresh(r, d) ==
    /\ Client \in holders[d]
    /\ Begin(r, NewWork("refresh", "check", d))
    /\ holders' = [holders EXCEPT ![d] = @ \cup {r}]
    /\ UNCHANGED <<redis, access>>

RefreshCheck(r) ==
    /\ At(r, "check")
    /\ Has(r, Dev(r))
    /\ Go(r, "token")
    /\ holders' = [holders EXCEPT ![Dev(r)] = @ \ {r}]
    /\ UNCHANGED <<redis, access, fails, history>>

\* "Invalid refresh token", 401.
RefreshInvalid(r) ==
    /\ At(r, "check")
    /\ ~Has(r, Dev(r))
    /\ End(r, {}, known)
    /\ UNCHANGED <<redis, clients, fails>>

RefreshToken(r) ==
    /\ At(r, "token")
    /\ Tokenize(r, Dev(r))
    /\ Go(r, "info")
    /\ UNCHANGED <<devices, info, access, fails, history>>

-----------------------------------------------------------------------------
(* logout: remove_token of the device of the token, then close_session of  *)
(* the device of the User-Agent, which may be another one.                 *)

Logout(r, d, u) ==
    /\ d \in access
    /\ Begin(r, [NewWork("logout", "remove", d) EXCEPT
                   !.touch = {d, u}, !.found = {[dev |-> u, named |-> TRUE]}])
    /\ Untoken(d)
    /\ UNCHANGED <<devices, info, access>>

LogoutDevice(r) ==
    /\ At(r, "remove")
    /\ Undevice(Dev(r))
    /\ Go(r, "closing")
    /\ UNCHANGED <<token, info, clients, fails, history>>

-----------------------------------------------------------------------------
(* get_user_sessions: refresh_devices, update_sessions, get_info.          *)

\* The first get_devices.
Sessions(r, op) ==
    /\ access # {}
    /\ Begin(r, [NewWork(op, "update", NoDevice) EXCEPT
                   !.touch = Devices, !.todo = devices])
    /\ UNCHANGED <<redis, clients>>

ListSessions(r) == Sessions(r, "list")
CloseAllSessions(r) == Sessions(r, "closeall")

\* exist_token of one device of the list.
Exists(r, d) ==
    /\ At(r, "update") /\ d \in req[r].todo
    /\ req' = [req EXCEPT
                 ![r].todo = @ \ {d},
                 ![r].gone = IF token[d] = 0 THEN @ \cup {d} ELSE @]
    /\ UNCHANGED <<redis, clients, fails, history>>

\* refresh_devices removes the devices whose token was missing ...
DropDevice(r, d) ==
    /\ At(r, "update") /\ req[r].todo = {} /\ d \in req[r].gone
    /\ Undevice(d)
    /\ req' = [req EXCEPT ![r].gone = @ \ {d}, ![r].lost = @ \cup {d}]
    /\ UNCHANGED <<token, info, clients, fails, history>>

\* ... and update_sessions forgets their sessions.
ForgetInfo(r, d) ==
    /\ At(r, "update") /\ req[r].todo \cup req[r].gone = {} /\ d \in req[r].lost
    /\ Uninfo(d)
    /\ req' = [req EXCEPT ![r].lost = @ \ {d}]
    /\ UNCHANGED <<token, devices, clients, fails, history>>

\* The second get_devices.
ListAgain(r) ==
    /\ At(r, "update") /\ req[r].todo \cup req[r].gone \cup req[r].lost = {}
    /\ req' = [req EXCEPT ![r].at = "look", ![r].todo = devices]
    /\ UNCHANGED <<redis, clients, fails, history>>

\* get_info of one device: None if there is no hash.
LookAt(r, d) ==
    LET s == [dev |-> d, named |-> info[d] # NoInfo /\ info[d].named]
    IN  /\ At(r, "look") /\ d \in req[r].todo
        /\ req' = [req EXCEPT ![r].todo = @ \ {d}, ![r].found = @ \cup {s}]
        /\ UNCHANGED <<redis, clients, fails, history>>

ListDone(r) ==
    /\ At(r, "look") /\ req[r].todo = {} /\ req[r].op = "list"
    /\ End(r, {}, known)
    /\ UNCHANGED <<redis, clients, fails>>

-----------------------------------------------------------------------------
(* close_session: delete_info, remove_token, remove_device.                *)

\* A logout closes one session, a close of all those that it found.
Closing(r) ==
    \/ At(r, "closing")
    \/ At(r, "look") /\ req[r].todo = {} /\ req[r].op = "closeall"

CloseInfo(r, s) ==
    /\ Closing(r) /\ s \in req[r].found /\ s.named
    /\ Uninfo(s.dev)
    /\ req' = [req EXCEPT ![r].at = "untoken", ![r].dev = s.dev,
                          ![r].found = @ \ {s}]
    /\ UNCHANGED <<token, devices, clients, fails, history>>

\* Slip: close_session leaves the token of the device where it is.
CloseTokenKept(r) ==
    /\ At(r, "untoken")
    /\ Go(r, "undevice")
    /\ UNCHANGED <<redis, clients, fails, history>>

CloseToken(r) ==
    /\ At(r, "untoken")
    /\ Untoken(Dev(r))
    /\ Go(r, "undevice")
    /\ UNCHANGED <<devices, info, access, fails, history>>

CloseDevice(r) ==
    /\ At(r, "undevice")
    /\ Undevice(Dev(r))
    /\ Go(r, "closing")
    /\ UNCHANGED <<token, info, clients, fails, history>>

\* A logout has closed the session of the User-Agent, a close of all those
\* that it found.
Closed(r) ==
    [d \in Devices |->
       IF req[r].op = "logout"
       THEN IF d = Dev(r) THEN "closed" ELSE "unknown"
       ELSE IF known[d] = "unknown" THEN "unknown" ELSE "closed"]

CloseDone(r) ==
    /\ Closing(r) /\ req[r].found = {}
    /\ End(r, req[r].touch, Closed(r))
    /\ UNCHANGED <<redis, clients, fails>>

\* A session without an info (None) or without the name of its device: the
\* subscript of close_all_user_sessions raises, and the request answers 500.
CloseRaises(r, s) ==
    /\ Closing(r) /\ s \in req[r].found /\ ~s.named
    /\ End(r, req[r].touch, [d \in Devices |-> "unknown"])
    /\ UNCHANGED <<redis, clients, fails>>

-----------------------------------------------------------------------------
\* A request dies: Redis or PostgreSQL fails, or the process is killed.
Fail(r) ==
    /\ req[r] # Idle
    /\ fails < MaxFails
    /\ fails' = fails + 1
    /\ req' = [req EXCEPT ![r] = Idle]
    /\ LET hurt == IF req[r].op = "list" THEN {} ELSE req[r].touch
           open == IF Opens(req[r]) THEN hurt ELSE {}
       IN  /\ known' = [d \in Devices |->
                          IF d \in hurt THEN "unknown" ELSE known[d]]
           /\ clash' = {d \in clash \cup open : InFlight(d) # {r}}
    /\ holders' = [d \in Devices |-> holders[d] \ {r}]
    /\ UNCHANGED <<redis, access>>

Issuing(r) == At(r, "device") \/ At(r, "info") \/ At(r, "expire") \/ At(r, "answer")

\* An hour passes: access tokens expire, and Redis drops the keys whose time
\* is over.  A key without a ttl stays.  It does not pass between the tokenize
\* of a request and its answer.
Tick ==
    LET late == {d \in Devices : token[d] = 1}
        stale == {d \in Devices : info[d] # NoInfo /\ info[d].ttl = 1}
    IN  /\ \A r \in Requests : ~Issuing(r)
        /\ token' = [d \in Devices |-> IF token[d] = 0 THEN 0 ELSE token[d] - 1]
        /\ info' = [d \in Devices |->
                      IF info[d] = NoInfo \/ d \in stale THEN NoInfo
                      ELSE [info[d] EXCEPT !.ttl = IF @ = NoTtl THEN @ ELSE @ - 1]]
        /\ holders' = [d \in Devices |-> IF d \in late THEN {} ELSE holders[d]]
        /\ access' = {}
        /\ known' = [d \in Devices |->
                       IF d \in late \cup stale THEN "unknown" ELSE known[d]]
        /\ UNCHANGED <<devices, req, fails, clash>>

Handle(r) ==
    \/ \E d \in Devices :
         \/ Login(r, d) \/ Refresh(r, d) \/ \E u \in Devices : Logout(r, d, u)
         \/ Exists(r, d) \/ DropDevice(r, d) \/ ForgetInfo(r, d) \/ LookAt(r, d)
    \/ LoginDevice(r) \/ SessionInfo(r) \/ SessionExpire(r) \/ Answer(r)
    \/ RefreshCheck(r) \/ RefreshInvalid(r) \/ RefreshToken(r)
    \/ LogoutDevice(r)
    \/ ListSessions(r) \/ CloseAllSessions(r) \/ ListAgain(r) \/ ListDone(r)
    \/ \E s \in Session : CloseInfo(r, s) \/ CloseRaises(r, s)
    \/ CloseToken(r) \/ CloseDevice(r) \/ CloseDone(r)
    \/ Fail(r)

Next == Tick \/ \E r \in Requests : Handle(r)

Spec == Init /\ [][Next]_vars

-----------------------------------------------------------------------------
(* Properties.                                                             *)

(* A session that a login opened is there, whole, until it is closed or    *)
(* expires: its client holds the token that is accepted, the device is in  *)
(* the set, and its info has the name, outlives the token and has a ttl.   *)
(* Other logins, refreshes and lists may run at the same time; a login     *)
(* that a list meets, and an opening that a closing meets, are excepted    *)
(* (token_service.py:63-90, 99-117, auth_service.py:35-50,                 *)
(* storage.py:134-140).                                                    *)
OpenIsWhole ==
    \A d \in Devices : known[d] = "open" /\ Quiet(d) =>
        /\ Client \in holders[d]
        /\ d \in devices
        /\ info[d] # NoInfo /\ info[d].named
        /\ info[d].ttl \in token[d] .. Life

(* A session that a logout or a close of all has closed leaves nothing in  *)
(* Redis, whatever else closed or listed it at the same time, and whichever*)
(* device the access token was of (auth_routes.py:41-49,                   *)
(* auth_service.py:53-57, 83-87).                                          *)
ClosedIsGone ==
    \A d \in Devices : known[d] = "closed" /\ Quiet(d) =>
        token[d] = 0 /\ d \notin devices /\ info[d] = NoInfo

(* auth_service.py:84, "closes all sessions of the user": when a request   *)
(* to close all that met no login and no refresh has ended, and no request *)
(* died in it, no token is accepted that a client holds.  It fails.        *)
AllAreClosed ==
    [][\A r \in Requests :
         /\ Closing(r) /\ req[r].op = "closeall" /\ clash = {}
         /\ \A q \in Requests \ {r} : req[q] = Idle
         /\ req'[r] = Idle /\ fails' = fails
         => \A d \in Devices : Client \notin holders'[d]]_vars

=============================================================================
