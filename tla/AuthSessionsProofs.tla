------------------------- MODULE AuthSessionsProofs -------------------------
(***************************************************************************)
(* Proofs about AuthSessions for any devices, threads and life of the keys:*)
(* types first, then FlightInv, which says of every device what the        *)
(* requests in flight for it have stored, removed and still to remove.     *)
(***************************************************************************)
EXTENDS AuthSessions, TLAPS

\* Where a request works on one device, it has one.
OnDevice == {"device", "check", "token", "info", "expire", "answer", "remove", "untoken", "undevice"}
HasDevice == \A r \in Requests : req[r] # Idle /\ req[r].at \in OnDevice => req[r].dev \in Devices

SessionsInv == Types /\ HasDevice

Ats == {"device", "check", "token", "info", "expire", "answer", "remove", "update", "look", "closing",
        "untoken", "undevice"}

-----------------------------------------------------------------------------
LEMMA IdleIsNoWork == Idle \notin Work
BY DEF Idle, Work

\* A request that gets other work, or ends.
LEMMA WorkReplaced ==
    ASSUME SessionsInv, NEW r \in Requests, NEW j \in Work \cup {Idle},
           req' = [req EXCEPT ![r] = j],
           j # Idle /\ j.at \in OnDevice => j.dev \in Devices
    PROVE  req' \in [Requests -> Work \cup {Idle}] /\ HasDevice'
<1>1. /\ req' \in [Requests -> Work \cup {Idle}]
      /\ req'[r] = j /\ \A q \in Requests \ {r} : req'[q] = req[q]
  BY DEF SessionsInv, Types
<1>2. ASSUME NEW q \in Requests, req'[q] # Idle, req'[q].at \in OnDevice
      PROVE  req'[q].dev \in Devices
  BY <1>1, <1>2 DEF SessionsInv, HasDevice
<1> QED
  BY <1>1, <1>2 DEF HasDevice

\* A request that goes on to another place.
LEMMA WorkGoes ==
    ASSUME SessionsInv, NEW r \in Requests, req[r] # Idle, NEW at \in Ats, Go(r, at),
           req[r].dev \in Devices
    PROVE  req' \in [Requests -> Work \cup {Idle}] /\ HasDevice'
<1> DEFINE j == [req[r] EXCEPT !.at = at]
<1>1. req[r] \in Work
  BY DEF SessionsInv, Types
<1>2. j \in Work /\ j.dev = req[r].dev
  BY <1>1 DEF Work, Ats
<1>3. req' = [req EXCEPT ![r] = j]
  BY DEF Go
<1> HIDE DEF j
<1> QED
  BY <1>2, <1>3, WorkReplaced

\* The history keeps its type.
LEMMA HistoryTyped ==
    ASSUME Types
    PROVE  /\ \A j : j.touch \subseteq Devices /\ Enters(j) =>
                /\ known' \in [Devices -> {"open", "closed", "unknown"}]
                /\ clash' \subseteq Devices
           /\ \A r, ds, state : Leaves(r, ds, state)
                /\ state \in [Devices -> {"open", "closed", "unknown"}] =>
                /\ known' \in [Devices -> {"open", "closed", "unknown"}]
                /\ clash' \subseteq Devices
BY DEF Types, Enters, Leaves, Meets

LEMMA NewWorkTyped ==
    ASSUME NEW op \in {"login", "refresh"}, NEW at \in Ats, NEW d \in Devices
    PROVE  /\ NewWork(op, at, d) \in Work /\ NewWork(op, at, d).dev = d
           /\ NewWork(op, at, d).touch = {d}
BY DEF NewWork, Work, Ats

LEMMA TokenTyped ==
    ASSUME Types, NEW d \in Devices, NEW r \in Requests, Tokenize(r, d) \/ Untoken(d)
    PROVE  /\ token' \in [Devices -> 0 .. Life]
           /\ holders' \in [Devices -> SUBSET (Requests \cup {Client})]
           /\ \A e \in Devices : token'[e] = 0 => holders'[e] = {}
BY SessionsAssumption DEF Types, Tokenize, Untoken

LEMMA InfoTyped ==
    ASSUME Types, NEW d \in Devices, NEW named \in BOOLEAN,
           SetInfo(d, named) \/ ExpireInfo(d) \/ Uninfo(d)
    PROVE  info' \in [Devices -> Info \cup {NoInfo}]
<1>1. CASE SetInfo(d, named)
  <2>1. Merged(d, named) \in Info
    <3>1. CASE info[d] = NoInfo
      BY <3>1, SessionsAssumption DEF Merged, Info, NoTtl
    <3>2. CASE info[d] # NoInfo
      <4>1. info[d] \in Info
        BY <3>2 DEF Types
      <4>2. (info[d].named \/ named) \in BOOLEAN
        BY <4>1 DEF Info
      <4> QED
        BY <3>2, <4>1, <4>2 DEF Merged, Info
    <3> QED
      BY <3>1, <3>2
  <2> QED
    BY <1>1, <2>1 DEF SetInfo, Types
<1>2. CASE ExpireInfo(d)
  <2>1. info[d] # NoInfo => Lasting(d) \in Info
    <3>1. info[d] # NoInfo => info[d] \in Info
      BY DEF Types
    <3> QED
      BY <3>1, SessionsAssumption DEF Lasting, Info, NoTtl
  <2>2. info[d] = NoInfo => Lasting(d) = NoInfo
    BY DEF Lasting
  <2> QED
    BY <1>2, <2>1, <2>2 DEF ExpireInfo, Types
<1>3. CASE Uninfo(d)
  BY <1>3 DEF Uninfo, Types
<1> QED
  BY <1>1, <1>2, <1>3


LEMMA InitInv == Init => SessionsInv
BY SessionsAssumption DEF Init, SessionsInv, Types, HasDevice

-----------------------------------------------------------------------------
\* Requests that begin.
LEMMA StepBegins ==
    ASSUME SessionsInv, NEW r \in Requests,
           \/ \E d \in Devices : Login(r, d) \/ Refresh(r, d) \/ \E u \in Devices : Logout(r, d, u)
           \/ ListSessions(r) \/ CloseAllSessions(r)
    PROVE  SessionsInv'
<1> USE DEF SessionsInv
<1>1. ASSUME NEW d \in Devices, Login(r, d) PROVE SessionsInv'
  <2> DEFINE j == NewWork("login", "device", d)
  <2>1. j \in Work /\ j.dev = d /\ j.touch \subseteq Devices
    BY NewWorkTyped DEF Ats
  <2>2. /\ req' = [req EXCEPT ![r] = j] /\ Enters(j) /\ Tokenize(r, d)
        /\ UNCHANGED <<devices, info, access, fails>>
    BY <1>1 DEF Login, Begin
  <2> HIDE DEF j
  <2>3. req' \in [Requests -> Work \cup {Idle}] /\ HasDevice'
    BY <2>1, <2>2, WorkReplaced
  <2> QED
    BY <2>1, <2>2, <2>3, HistoryTyped, TokenTyped DEF Types
<1>2. ASSUME NEW d \in Devices, Refresh(r, d) PROVE SessionsInv'
  <2> DEFINE j == NewWork("refresh", "check", d)
  <2>1. j \in Work /\ j.dev = d /\ j.touch \subseteq Devices
    BY NewWorkTyped DEF Ats
  <2>2. /\ req' = [req EXCEPT ![r] = j] /\ Enters(j) /\ Client \in holders[d]
        /\ holders' = [holders EXCEPT ![d] = @ \cup {r}]
        /\ UNCHANGED <<token, devices, info, access, fails>>
    BY <1>2 DEF Refresh, Begin, redis
  <2> HIDE DEF j
  <2>3. req' \in [Requests -> Work \cup {Idle}] /\ HasDevice'
    BY <2>1, <2>2, WorkReplaced
  <2>4. /\ holders' \in [Devices -> SUBSET (Requests \cup {Client})]
        /\ \A e \in Devices : token'[e] = 0 => holders'[e] = {}
    BY <2>2 DEF Types
  <2> QED
    BY <2>1, <2>2, <2>3, <2>4, HistoryTyped DEF Types
<1>3. ASSUME NEW d \in Devices, NEW u \in Devices, Logout(r, d, u) PROVE SessionsInv'
  <2> DEFINE n == NewWork("logout", "remove", d)
             here == {[dev |-> u, named |-> TRUE]}
             j == [n EXCEPT !.touch = {d, u}, !.found = here]
  <2>1. j \in Work /\ j.dev = d /\ j.touch \subseteq Devices
    <3>1. n \in Work /\ n.dev = d
      BY DEF NewWork, Work
    <3>2. here \in SUBSET Session /\ {d, u} \in SUBSET Devices
      BY DEF Session
    <3> HIDE DEF n, here
    <3> QED
      BY <3>1, <3>2 DEF Work
  <2>2. /\ req' = [req EXCEPT ![r] = j] /\ Enters(j) /\ Untoken(d)
        /\ UNCHANGED <<devices, info, access, fails>>
    BY <1>3 DEF Logout, Begin
  <2> HIDE DEF j
  <2>3. req' \in [Requests -> Work \cup {Idle}] /\ HasDevice'
    BY <2>1, <2>2, WorkReplaced
  <2> QED
    BY <2>1, <2>2, <2>3, HistoryTyped, TokenTyped DEF Types
<1>4. ASSUME NEW op \in {"list", "closeall"}, Sessions(r, op) PROVE SessionsInv'
  <2> DEFINE j == [NewWork(op, "update", NoDevice) EXCEPT !.touch = Devices, !.todo = devices]
  <2>1. j \in Work /\ j.at \notin OnDevice /\ j.touch \subseteq Devices
    BY DEF NewWork, Work, OnDevice, Types
  <2>2. /\ req' = [req EXCEPT ![r] = j] /\ Enters(j)
        /\ UNCHANGED <<token, devices, info, holders, access, fails>>
    BY <1>4 DEF Sessions, Begin, redis, clients
  <2> HIDE DEF j
  <2>3. req' \in [Requests -> Work \cup {Idle}] /\ HasDevice'
    BY <2>1, <2>2, WorkReplaced
  <2> QED
    BY <2>1, <2>2, <2>3, HistoryTyped DEF Types
<1> QED
  BY <1>1, <1>2, <1>3, <1>4 DEF ListSessions, CloseAllSessions

\* Requests that go on on their device.
LEMMA StepGoes ==
    ASSUME SessionsInv, NEW r \in Requests,
           \/ LoginDevice(r) \/ SessionInfo(r) \/ SessionExpire(r) \/ RefreshCheck(r) \/ RefreshToken(r)
           \/ LogoutDevice(r) \/ CloseToken(r) \/ CloseDevice(r)
    PROVE  SessionsInv'
<1> USE DEF SessionsInv
<1> DEFINE d == Dev(r)
<1>1. req[r] # Idle /\ d \in Devices
  BY DEF LoginDevice, SessionInfo, SessionExpire, RefreshCheck, RefreshToken, LogoutDevice, CloseToken,
         CloseDevice, At, Dev, HasDevice, OnDevice
<1>2. req' \in [Requests -> Work \cup {Idle}] /\ HasDevice'
  <2>1. PICK at \in Ats : Go(r, at)
    BY DEF LoginDevice, SessionInfo, SessionExpire, RefreshCheck, RefreshToken, LogoutDevice, CloseToken,
           CloseDevice, Ats
  <2> QED
    BY <1>1, <2>1, WorkGoes DEF Dev
<1> HIDE DEF d
<1>3. CASE LoginDevice(r)
  <2>1. /\ devices' = devices \cup {d}
        /\ UNCHANGED <<token, info, holders, access, fails, known, clash>>
    BY <1>3 DEF LoginDevice, clients, history, d
  <2> QED
    BY <1>1, <1>2, <2>1 DEF Types
<1>4. CASE SessionInfo(r) \/ SessionExpire(r)
  <2>1. /\ SetInfo(d, req[r].op = "login") \/ ExpireInfo(d)
        /\ UNCHANGED <<token, devices, holders, access, fails, known, clash>>
    BY <1>4 DEF SessionInfo, SessionExpire, clients, history, d
  <2>2. info' \in [Devices -> Info \cup {NoInfo}]
    BY <1>1, <2>1, InfoTyped
  <2> QED
    BY <1>2, <2>1, <2>2 DEF Types
<1>5. CASE RefreshCheck(r)
  <2>1. /\ holders' = [holders EXCEPT ![d] = @ \ {r}]
        /\ UNCHANGED <<token, devices, info, access, fails, known, clash>>
    BY <1>5 DEF RefreshCheck, redis, history, d
  <2> QED
    BY <1>1, <1>2, <2>1 DEF Types
<1>6. CASE RefreshToken(r) \/ CloseToken(r)
  <2>1. /\ Tokenize(r, d) \/ Untoken(d)
        /\ UNCHANGED <<devices, info, access, fails, known, clash>>
    BY <1>6 DEF RefreshToken, CloseToken, history, d
  <2> QED
    BY <1>1, <1>2, <2>1, TokenTyped DEF Types
<1>7. CASE LogoutDevice(r) \/ CloseDevice(r)
  <2>1. /\ devices' = devices \ {d}
        /\ UNCHANGED <<token, info, holders, access, fails, known, clash>>
    BY <1>7 DEF LogoutDevice, CloseDevice, Undevice, clients, history, d
  <2> QED
    BY <1>2, <2>1 DEF Types
<1> QED
  BY <1>3, <1>4, <1>5, <1>6, <1>7

\* Requests that end.
LEMMA StepEnds ==
    ASSUME SessionsInv, NEW r \in Requests,
           \/ Answer(r) \/ RefreshInvalid(r) \/ ListDone(r) \/ CloseDone(r)
           \/ \E s \in Session : CloseRaises(r, s)
    PROVE  SessionsInv'
<1> USE DEF SessionsInv
<1>1. ASSUME NEW ds, NEW state \in [Devices -> {"open", "closed", "unknown"}], End(r, ds, state),
             UNCHANGED <<token, devices, info, fails>>,
             holders' \in [Devices -> SUBSET (Requests \cup {Client})],
             \A d \in Devices : token[d] = 0 => holders'[d] = {},
             access' \subseteq Devices
      PROVE  SessionsInv'
  <2>1. req' \in [Requests -> Work \cup {Idle}] /\ HasDevice'
    BY <1>1, WorkReplaced DEF End
  <2>2. /\ known' \in [Devices -> {"open", "closed", "unknown"}]
        /\ clash' \subseteq Devices
    BY <1>1, HistoryTyped DEF End
  <2> QED
    BY <1>1, <2>1, <2>2 DEF Types
<1>2. CASE Answer(r)
  <2> DEFINE d == Dev(r)
             state == IF req[r].op = "login" THEN [e \in Devices |-> "open"] ELSE known
  <2>1. d \in Devices
    BY <1>2 DEF Answer, At, Dev, HasDevice, OnDevice
  <2>2. state \in [Devices -> {"open", "closed", "unknown"}]
    BY DEF Types
  <2>3. /\ End(r, {d}, state) /\ UNCHANGED <<token, devices, info, fails>>
        /\ holders' = [holders EXCEPT ![d] = IF Has(r, d) THEN (@ \ {r}) \cup {Client} ELSE @]
        /\ access' = access \cup {d}
    BY <1>2 DEF Answer, redis
  <2> HIDE DEF d, state
  <2>4. /\ holders' \in [Devices -> SUBSET (Requests \cup {Client})]
        /\ \A e \in Devices : token[e] = 0 => holders'[e] = {}
    BY <2>1, <2>3 DEF Has, Types
  <2> QED
    BY <1>1, <2>1, <2>2, <2>3, <2>4 DEF Types
<1>3. CASE RefreshInvalid(r) \/ ListDone(r)
  <2>1. /\ End(r, {}, known) /\ UNCHANGED <<token, devices, info, fails, holders, access>>
    BY <1>3 DEF RefreshInvalid, ListDone, redis, clients
  <2> QED
    BY <1>1, <2>1 DEF Types
<1>4. CASE CloseDone(r)
  <2>1. Closed(r) \in [Devices -> {"open", "closed", "unknown"}]
    BY DEF Closed
  <2>2. /\ End(r, req[r].touch, Closed(r))
        /\ UNCHANGED <<token, devices, info, fails, holders, access>>
    BY <1>4 DEF CloseDone, redis, clients
  <2> QED
    BY <1>1, <2>1, <2>2 DEF Types
<1>5. ASSUME NEW s \in Session, CloseRaises(r, s) PROVE SessionsInv'
  <2>1. /\ End(r, req[r].touch, [d \in Devices |-> "unknown"])
        /\ UNCHANGED <<token, devices, info, fails, holders, access>>
    BY <1>5 DEF CloseRaises, redis, clients
  <2> QED
    BY <1>1, <2>1 DEF Types
<1> QED
  BY <1>2, <1>3, <1>4, <1>5

\* The lists of sessions, and the sessions that they lead to.
LEMMA StepLists ==
    ASSUME SessionsInv, NEW r \in Requests,
           \/ \E d \in Devices :
                Exists(r, d) \/ DropDevice(r, d) \/ ForgetInfo(r, d) \/ LookAt(r, d)
           \/ ListAgain(r) \/ \E s \in Session : CloseInfo(r, s)
    PROVE  SessionsInv'
<1> USE DEF SessionsInv
<1>1. req[r] \in Work
  BY DEF Exists, DropDevice, ForgetInfo, ListAgain, LookAt, CloseInfo, Closing, At, Types
<1>2. ASSUME NEW j \in Work, req' = [req EXCEPT ![r] = j],
             j.at \in OnDevice => j.dev \in Devices,
             UNCHANGED <<token, holders, access, fails, known, clash>>,
             devices' \subseteq Devices, info' \in [Devices -> Info \cup {NoInfo}]
      PROVE  SessionsInv'
  <2>1. req' \in [Requests -> Work \cup {Idle}] /\ HasDevice'
    BY <1>2, WorkReplaced
  <2> QED
    BY <1>2, <2>1 DEF Types
<1>3. ASSUME NEW d \in Devices, Exists(r, d) PROVE SessionsInv'
  <2> DEFINE g == IF token[d] = 0 THEN req[r].gone \cup {d} ELSE req[r].gone
             j == [req[r] EXCEPT !.todo = @ \ {d}, !.gone = g]
  <2>1. g \subseteq Devices
    BY <1>1 DEF Work
  <2>2. req' = [req EXCEPT ![r] = j] /\ req[r].at = "update"
    BY <1>3 DEF Exists, At
  <2> HIDE DEF g
  <2>3. j \in Work /\ j.at = req[r].at
    BY <1>1, <2>1 DEF Work
  <2>4. UNCHANGED <<token, devices, info, holders, access, fails, known, clash>>
    BY <1>3 DEF Exists, redis, clients, history
  <2> HIDE DEF j
  <2> QED
    BY <1>2, <2>2, <2>3, <2>4 DEF OnDevice, Types
<1>4. ASSUME NEW d \in Devices, DropDevice(r, d) PROVE SessionsInv'
  <2> DEFINE j == [req[r] EXCEPT !.gone = @ \ {d}, !.lost = @ \cup {d}]
  <2>1. /\ req' = [req EXCEPT ![r] = j] /\ req[r].at = "update" /\ devices' = devices \ {d}
        /\ UNCHANGED <<token, info, holders, access, fails, known, clash>>
    BY <1>4 DEF DropDevice, At, Undevice, clients, history
  <2>2. j \in Work /\ j.at = req[r].at
    BY <1>1 DEF Work
  <2> HIDE DEF j
  <2> QED
    BY <1>2, <2>1, <2>2 DEF OnDevice, Types
<1>5. ASSUME NEW d \in Devices, ForgetInfo(r, d) PROVE SessionsInv'
  <2> DEFINE j == [req[r] EXCEPT !.lost = @ \ {d}]
  <2>1. /\ req' = [req EXCEPT ![r] = j] /\ req[r].at = "update" /\ Uninfo(d)
        /\ UNCHANGED <<token, devices, holders, access, fails, known, clash>>
    BY <1>5 DEF ForgetInfo, At, clients, history
  <2>2. j \in Work /\ j.at = req[r].at
    BY <1>1 DEF Work
  <2>3. info' \in [Devices -> Info \cup {NoInfo}]
    BY <2>1, InfoTyped
  <2> HIDE DEF j
  <2> QED
    BY <1>2, <2>1, <2>2, <2>3 DEF OnDevice, Types
<1>6. CASE ListAgain(r)
  <2> DEFINE j == [req[r] EXCEPT !.at = "look", !.todo = devices]
  <2>1. /\ req' = [req EXCEPT ![r] = j]
        /\ UNCHANGED <<token, devices, info, holders, access, fails, known, clash>>
    BY <1>6 DEF ListAgain, redis, clients, history
  <2>2. j \in Work /\ j.at = "look"
    BY <1>1 DEF Work, Types
  <2> HIDE DEF j
  <2> QED
    BY <1>2, <2>1, <2>2 DEF OnDevice, Types
<1>7. ASSUME NEW d \in Devices, LookAt(r, d) PROVE SessionsInv'
  <2> DEFINE f == [dev |-> d, named |-> info[d] # NoInfo /\ info[d].named]
             j == [req[r] EXCEPT !.todo = @ \ {d}, !.found = @ \cup {f}]
  <2>1. /\ req' = [req EXCEPT ![r] = j] /\ req[r].at = "look"
        /\ UNCHANGED <<token, devices, info, holders, access, fails, known, clash>>
    BY <1>7 DEF LookAt, At, redis, clients, history
  <2>2. (info[d] # NoInfo /\ info[d].named) \in BOOLEAN
    OBVIOUS
  <2>3. f \in Session
    BY <2>2 DEF Session
  <2> HIDE DEF f
  <2>4. j \in Work /\ j.at = req[r].at
    BY <1>1, <2>3 DEF Work
  <2> HIDE DEF j
  <2> QED
    BY <1>2, <2>1, <2>4 DEF OnDevice, Types
<1>8. ASSUME NEW s \in Session, CloseInfo(r, s) PROVE SessionsInv'
  <2> DEFINE j == [req[r] EXCEPT !.at = "untoken", !.dev = s.dev, !.found = @ \ {s}]
  <2>1. /\ req' = [req EXCEPT ![r] = j] /\ Uninfo(s.dev)
        /\ UNCHANGED <<token, devices, holders, access, fails, known, clash>>
    BY <1>8 DEF CloseInfo, clients, history
  <2>2. s.dev \in Devices
    BY DEF Session
  <2>3. j \in Work /\ j.dev = s.dev
    BY <1>1, <2>2 DEF Work
  <2>4. info' \in [Devices -> Info \cup {NoInfo}]
    BY <2>1, <2>2, InfoTyped
  <2> HIDE DEF j
  <2> QED
    BY <1>2, <2>1, <2>2, <2>3, <2>4 DEF Types
<1> QED
  BY <1>3, <1>4, <1>5, <1>6, <1>7, <1>8

LEMMA StepFails == ASSUME SessionsInv, NEW r \in Requests, Fail(r) PROVE SessionsInv'
<1> USE DEF SessionsInv
<1>1. req' \in [Requests -> Work \cup {Idle}] /\ HasDevice'
  BY WorkReplaced DEF Fail
<1>2. req[r] \in Work
  BY DEF Fail, Types
<1>3. req[r].touch \subseteq Devices
  BY <1>2 DEF Work
<1>4. /\ known' \in [Devices -> {"open", "closed", "unknown"}]
      /\ clash' \subseteq Devices
  BY <1>3 DEF Fail, Types
<1>5. /\ UNCHANGED <<token, devices, info, access>> /\ fails' \in 0 .. MaxFails
      /\ holders' = [d \in Devices |-> holders[d] \ {r}]
  BY SessionsAssumption DEF Fail, redis, Types
<1> QED
  BY <1>1, <1>4, <1>5 DEF Types

LEMMA StepTicks == ASSUME SessionsInv, Tick PROVE SessionsInv'
<1> USE DEF SessionsInv
<1> DEFINE late == {d \in Devices : token[d] = 1}
           stale == {d \in Devices : info[d] # NoInfo /\ info[d].ttl = 1}
<1>1. token' \in [Devices -> 0 .. Life]
  BY SessionsAssumption DEF Tick, Types
<1>2. info' \in [Devices -> Info \cup {NoInfo}]
  <2>1. ASSUME NEW d \in Devices, info[d] # NoInfo, d \notin stale
        PROVE  [info[d] EXCEPT !.ttl = IF @ = NoTtl THEN @ ELSE @ - 1] \in Info
    <3>1. info[d] \in Info /\ info[d].ttl # 1
      BY <2>1 DEF Types
    <3>2. (IF info[d].ttl = NoTtl THEN info[d].ttl ELSE info[d].ttl - 1) \in 1 .. NoTtl
      BY <3>1, SessionsAssumption DEF Info, NoTtl
    <3> QED
      BY <3>1, <3>2 DEF Info
  <2>2. info' = [d \in Devices |-> IF info[d] = NoInfo \/ d \in stale THEN NoInfo
                                  ELSE [info[d] EXCEPT !.ttl = IF @ = NoTtl THEN @ ELSE @ - 1]]
    BY DEF Tick
  <2> HIDE DEF stale
  <2> QED
    BY <2>1, <2>2
<1>3. /\ holders' \in [Devices -> SUBSET (Requests \cup {Client})]
      /\ \A d \in Devices : token'[d] = 0 => holders'[d] = {}
  BY SessionsAssumption DEF Tick, Types
<1>4. known' \in [Devices -> {"open", "closed", "unknown"}] /\ access' = {}
  BY DEF Tick, Types
<1>5. UNCHANGED <<devices, req, fails, clash>>
  BY DEF Tick
<1> QED
  BY <1>1, <1>2, <1>3, <1>4, <1>5 DEF Types, HasDevice

LEMMA StepInv == SessionsInv /\ [Next]_vars => SessionsInv'
<1> SUFFICES ASSUME SessionsInv, [Next]_vars PROVE SessionsInv'
  OBVIOUS
<1>1. CASE UNCHANGED vars
  BY <1>1 DEF vars, redis, clients, history, SessionsInv, Types, HasDevice
<1>2. ASSUME NEW r \in Requests, Handle(r) PROVE SessionsInv'
  <2>1. ASSUME NEW d \in Devices,
               Login(r, d) \/ Refresh(r, d) \/ \E u \in Devices : Logout(r, d, u)
        PROVE  SessionsInv'
    BY <2>1, StepBegins
  <2>2. ASSUME NEW d \in Devices,
               Exists(r, d) \/ DropDevice(r, d) \/ ForgetInfo(r, d) \/ LookAt(r, d)
        PROVE  SessionsInv'
    BY <2>2, StepLists
  <2>3. CASE LoginDevice(r) \/ SessionInfo(r) \/ SessionExpire(r) \/ RefreshCheck(r) \/ RefreshToken(r)
             \/ LogoutDevice(r) \/ CloseToken(r) \/ CloseDevice(r)
    BY <2>3, StepGoes
  <2>4. CASE Answer(r) \/ RefreshInvalid(r) \/ ListDone(r) \/ CloseDone(r)
    BY <2>4, StepEnds
  <2>5. CASE ListSessions(r) \/ CloseAllSessions(r)
    BY <2>5, StepBegins
  <2>6. CASE ListAgain(r)
    BY <2>6, StepLists
  <2>7. ASSUME NEW s \in Session, CloseInfo(r, s) \/ CloseRaises(r, s) PROVE SessionsInv'
    BY <2>7, StepLists, StepEnds
  <2> QED
    BY <1>2, <2>1, <2>2, <2>3, <2>4, <2>5, <2>6, <2>7, StepFails DEF Handle
<1> QED
  BY <1>1, <1>2, StepTicks DEF Next

-----------------------------------------------------------------------------
(***************************************************************************)
(* The inductive invariant behind ClosedIsGone and OpenIsWhole. A step of  *)
(* a request reads and writes the keys of one device, so that everything   *)
(* is said of one device d, with the requests that are in flight for it.   *)
(***************************************************************************)
In(r, d) == req[r] # Idle /\ d \in req[r].touch
On(r, d) == req[r] # Idle /\ req[r].dev = d
Serves(op, d) == \E r \in Requests : In(r, d) /\ req[r].op = op
Shutting(d) == Serves("logout", d) \/ Serves("closeall", d)

\* The steps that each kind of request takes, and the devices that it writes.
Shape(j) ==
    /\ j.op = "login" => j.at \in {"device", "info", "expire", "answer"} /\ j.touch = {j.dev}
    /\ j.op = "refresh" => j.at \in {"check", "token", "info", "expire", "answer"} /\ j.touch = {j.dev}
    /\ j.op = "logout" =>
         /\ j.at \in {"remove", "closing", "untoken", "undevice"} /\ j.dev \in j.touch
         /\ \A s \in j.found : s.dev \in j.touch
         /\ j.at = "remove" => j.found # {}
    /\ j.op = "list" => j.at \in {"update", "look"} /\ j.touch = Devices
    /\ j.op = "closeall" =>
         j.at \in {"update", "look", "closing", "untoken", "undevice"} /\ j.touch = Devices

Shaped == \A r \in Requests : req[r] # Idle => Shape(req[r])

\* A device that a conflict has disturbed is unknown until the last request has
\* left it; on any other no two requests conflict.
Undisturbed(d) ==
    /\ d \in clash => known[d] = "unknown"
    /\ d \notin clash => \A r, q \in Requests :
         r # q /\ In(r, d) /\ In(q, d) => ~Conflict(req[r], req[q])

Gone(d) == token[d] = 0 /\ d \notin devices /\ info[d] = NoInfo
Kept(d) == token[d] # 0 /\ d \in devices /\ info[d] # NoInfo /\ info[d].named

\* What close_session has removed stays removed.
ClosingInv(d) ==
    d \notin clash => \A r \in Requests : On(r, d) /\ Closes(req[r]) =>
        /\ req[r].at = "untoken" => info[d] = NoInfo
        /\ req[r].at = "undevice" => info[d] = NoInfo /\ token[d] = 0
        /\ req[r].op = "logout" /\ req[r].at = "closing" /\ req[r].found = {} => Gone(d)

\* A close of all has begun to close the session, and will end it.
Closer(r, d) == On(r, d) /\ req[r].op = "closeall" /\ req[r].at \in {"untoken", "undevice"}
Midway(d) == \E r \in Requests : Closer(r, d)

\* A closed session is gone, or will be when those in flight have left.
ClosedInv(d) ==
    known[d] = "closed" =>
        /\ ~Serves("refresh", d)
        /\ ~Shutting(d) => Client \notin holders[d]
        /\ ~Serves("login", d) /\ ~Serves("logout", d) => Gone(d) \/ Midway(d)

\* No list and no close of all takes the session for one that has expired.
Lists(j) == j.op \in {"list", "closeall"}
NotMissed(d) ==
    \A r \in Requests : In(r, d) /\ Lists(req[r]) => d \notin req[r].gone /\ d \notin req[r].lost

\* A close of all that has read the list of sessions has this one on it.
Listed(d) ==
    \A r \in Requests : req[r] # Idle /\ req[r].op = "closeall" =>
        \/ req[r].at = "update"
        \/ req[r].at = "look" /\ d \in req[r].todo
        \/ [dev |-> d, named |-> TRUE] \in req[r].found

\* A close of all misses no session that was open when it came: the session is
\* whole and on its list, or somebody has begun to close it.
ShutInv(d) ==
    known[d] = "open" /\ Serves("closeall", d) /\ ~Serves("logout", d) =>
        (Kept(d) /\ NotMissed(d) /\ Listed(d)) \/ Midway(d) \/ Gone(d)

\* The request has issued a token that its client has not received yet, and
\* has not written the info yet.
IssuingFor(r, d) == On(r, d) /\ req[r].at \in {"device", "info", "expire", "answer"}
Unsaved(r, d) == On(r, d) /\ req[r].at \in {"device", "info", "expire"}

\* The token has an owner, and the info will outlive it, and end.
Owned(d) ==
    /\ token[d] # 0
    /\ Client \in holders[d] \/ \E r \in Requests : IssuingFor(r, d) /\ r \in holders[d]
    /\ info[d] # NoInfo => info[d].ttl \in token[d] .. Life \/ \E r \in Requests : Unsaved(r, d)

\* What a login in flight has stored so far.
LoginInv(d) ==
    d \notin clash => \A r \in Requests : On(r, d) /\ req[r].op = "login" =>
        /\ Owned(d)
        /\ req[r].at # "device" => d \in devices
        /\ req[r].at \in {"expire", "answer"} => info[d] # NoInfo /\ info[d].named

\* An open session that nobody closes is whole.
OpenInv(d) ==
    known[d] = "open" /\ ~Shutting(d) => Owned(d) /\ Kept(d) /\ NotMissed(d)

DeviceInv(d) ==
    /\ Undisturbed(d) /\ ClosingInv(d) /\ ClosedInv(d) /\ ShutInv(d) /\ LoginInv(d) /\ OpenInv(d)

FlightInv == SessionsInv /\ Shaped /\ \A d \in Devices : DeviceInv(d)

\* The other requests stand still.
Alone(r) == \A q \in Requests \ {r} : req'[q] = req[q]

-----------------------------------------------------------------------------
\* The shape of the requests, and what a step does to the one that takes it.

LEMMA ShapeReplaced ==
    ASSUME SessionsInv, Shaped, NEW r \in Requests, NEW j, req' = [req EXCEPT ![r] = j],
           j # Idle => Shape(j)
    PROVE  Shaped' /\ req'[r] = j /\ Alone(r)
<1>1. req'[r] = j /\ \A q \in Requests \ {r} : req'[q] = req[q]
  BY DEF SessionsInv, Types
<1> QED
  BY <1>1 DEF Shaped, Alone

\* A request that goes on keeps everything but its place.
LEMMA GoFacts ==
    ASSUME SessionsInv, NEW r \in Requests, req[r] # Idle, NEW at, Go(r, at)
    PROVE  /\ req'[r] # Idle /\ req'[r].at = at /\ req'[r].op = req[r].op
           /\ req'[r].dev = req[r].dev /\ req'[r].touch = req[r].touch
           /\ req'[r].todo = req[r].todo /\ req'[r].gone = req[r].gone
           /\ req'[r].lost = req[r].lost /\ req'[r].found = req[r].found
           /\ Alone(r)
<1>1. req[r] \in Work /\ req'[r] = [req[r] EXCEPT !.at = at]
  BY DEF SessionsInv, Types, Go
<1>2. req'[r].op = req[r].op /\ req[r].op # "none"
  BY <1>1 DEF Work
<1>3. \A q \in Requests \ {r} : req'[q] = req[q]
  BY DEF SessionsInv, Types, Go
<1> QED
  BY <1>1, <1>2, <1>3 DEF Work, Idle, Alone

LEMMA ShapeGoes ==
    ASSUME SessionsInv, Shaped, NEW r \in Requests, req[r] # Idle, NEW at, Go(r, at),
           /\ req[r].op = "login" => at \in {"device", "info", "expire", "answer"}
           /\ req[r].op = "refresh" => at \in {"check", "token", "info", "expire", "answer"}
           /\ req[r].op = "logout" => at \in {"closing", "untoken", "undevice"}
           /\ req[r].op = "list" => at \in {"update", "look"}
           /\ req[r].op = "closeall" => at \in {"update", "look", "closing", "untoken", "undevice"}
    PROVE  Shaped'
<1>1. Shape(req[r])
  BY DEF Shaped
<1>2. Shape(req'[r])
  BY <1>1, GoFacts DEF Shape
<1> QED
  BY <1>2, GoFacts DEF Shaped, Alone

-----------------------------------------------------------------------------
\* The history: who meets whom.

\* A request that goes on says nothing to the history.
LEMMA UndisturbedGoes ==
    ASSUME FlightInv, NEW d \in Devices, NEW r \in Requests, Alone(r),
           In(r, d)' <=> In(r, d), req'[r].op = req[r].op, UNCHANGED <<known, clash>>
    PROVE  Undisturbed(d)'
<1>1. \A q \in Requests : (In(q, d)' <=> In(q, d)) /\ (In(q, d) => req'[q].op = req[q].op)
  BY DEF In, Alone
<1> QED
  BY <1>1 DEF FlightInv, DeviceInv, Undisturbed, Conflict, Opens, Closes

\* A request that comes disturbs the devices on which it meets a conflicting one,
\* and no other.
LEMMA UndisturbedBegins ==
    ASSUME FlightInv, NEW r \in Requests, NEW j \in Work, Begin(r, j), NEW d \in Devices
    PROVE  /\ Undisturbed(d)' /\ req[r] = Idle /\ req'[r] = j /\ j # Idle /\ Alone(r)
           /\ d \in clash' => known'[d] = "unknown"
           /\ d \notin clash' =>
                /\ d \notin clash /\ known'[d] = known[d]
                /\ d \in j.touch => \A q \in Requests : In(q, d) => ~Conflict(j, req[q])
           /\ d \notin j.touch => known'[d] = known[d] /\ (d \in clash' <=> d \in clash)
<1>1. req[r] = Idle /\ req'[r] = j /\ j # Idle /\ Alone(r)
  BY IdleIsNoWork DEF Begin, FlightInv, SessionsInv, Types, Alone
<1>2. /\ known' = [e \in Devices |-> IF e \in Meets(j) THEN "unknown" ELSE known[e]]
      /\ clash' = clash \cup Meets(j)
  BY DEF Begin, Enters
<1>3. d \in Meets(j) <=> d \in j.touch /\ \E q \in Requests : In(q, d) /\ Conflict(j, req[q])
  BY DEF Meets, InFlight, In
<1>4. d \in clash' => known'[d] = "unknown"
  BY <1>2 DEF FlightInv, DeviceInv, Undisturbed
<1>5. d \notin clash' =>
         /\ d \notin clash /\ known'[d] = known[d]
         /\ d \in j.touch => \A q \in Requests : In(q, d) => ~Conflict(j, req[q])
  BY <1>2, <1>3
<1>6. ASSUME d \notin clash', NEW p \in Requests, NEW q \in Requests, p # q, In(p, d)', In(q, d)'
      PROVE  ~Conflict(req'[p], req'[q])
  <2>1. CASE p = r
    <3>1. In(q, d) /\ req'[q] = req[q] /\ d \in j.touch
      BY <1>1, <1>6, <2>1 DEF In, Alone
    <3> QED
      BY <1>1, <1>5, <1>6, <2>1, <3>1
  <2>2. CASE q = r
    <3>1. In(p, d) /\ req'[p] = req[p] /\ d \in j.touch
      BY <1>1, <1>6, <2>2 DEF In, Alone
    <3>2. ~Conflict(j, req[p])
      BY <1>5, <1>6, <3>1
    <3> QED
      BY <1>1, <2>2, <3>1, <3>2 DEF Conflict
  <2>3. CASE p # r /\ q # r
    <3>1. In(q, d) /\ In(p, d) /\ req'[p] = req[p] /\ req'[q] = req[q]
      BY <1>1, <1>6, <2>3 DEF In, Alone
    <3>2. ~Conflict(req[p], req[q])
      BY <1>5, <1>6, <3>1 DEF FlightInv, DeviceInv, Undisturbed
    <3> QED
      BY <3>1, <3>2
  <2> QED
    BY <2>1, <2>2, <2>3
<1>7. Undisturbed(d)'
  BY <1>4, <1>6 DEF Undisturbed
<1> QED
  BY <1>1, <1>2, <1>3, <1>4, <1>5, <1>7

\* A request that ends leaves no conflict behind; the last one to leave a device
\* ends its disturbance.
LEMMA UndisturbedEnds ==
    ASSUME FlightInv, NEW r \in Requests, req[r] # Idle, NEW ds, NEW state, End(r, ds, state),
           NEW d \in Devices
    PROVE  /\ Undisturbed(d)' /\ req'[r] = Idle /\ Alone(r)
           /\ d \in clash' => d \in clash
           /\ ~In(r, d) => (d \in clash' <=> d \in clash)
           /\ d \in clash /\ d \notin clash' => \A q \in Requests \ {r} : ~In(q, d)
           /\ d \notin ds => known'[d] = known[d]
           /\ d \in ds /\ d \in clash => known'[d] = "unknown"
           /\ d \in ds /\ d \notin clash => known'[d] = state[d]
<1>1. req'[r] = Idle /\ Alone(r)
  BY DEF End, FlightInv, SessionsInv, Types, Alone
<1>2. /\ known' = [e \in Devices |-> IF e \notin ds THEN known[e]
                                     ELSE IF e \in clash THEN "unknown" ELSE state[e]]
      /\ clash' = {e \in clash : InFlight(e) # {r}}
  BY DEF End, Leaves
<1>3. InFlight(d) = {r} => In(r, d) /\ \A q \in Requests \ {r} : ~In(q, d)
  BY DEF InFlight, In
<1>4. d \in clash /\ d \notin clash' => \A q \in Requests \ {r} : ~In(q, d)
  BY <1>2, <1>3
<1>5. \A q \in Requests : In(q, d)' => q # r /\ In(q, d) /\ req'[q] = req[q]
  BY <1>1 DEF In, Alone
<1>6. Undisturbed(d)'
  <2>1. d \in clash' => known'[d] = "unknown"
    BY <1>2 DEF FlightInv, DeviceInv, Undisturbed
  <2>2. ASSUME d \notin clash', NEW p \in Requests, NEW q \in Requests, p # q, In(p, d)', In(q, d)'
        PROVE  ~Conflict(req'[p], req'[q])
    BY <1>4, <1>5, <2>2 DEF FlightInv, DeviceInv, Undisturbed
  <2> QED
    BY <2>1, <2>2 DEF Undisturbed
<1> QED
  BY <1>1, <1>2, <1>3, <1>4, <1>6

\* On a device that is not disturbed, openings and closings exclude each other,
\* and so do logins and lists.
LEMMA Exclusive ==
    ASSUME FlightInv, NEW d \in Devices, d \notin clash, NEW r \in Requests, In(r, d)
    PROVE  /\ Opens(req[r]) => ~Shutting(d)
           /\ Closes(req[r]) => ~Serves("login", d) /\ ~Serves("refresh", d)
           /\ req[r].op = "login" => ~Serves("list", d)
           /\ req[r].op = "list" => ~Serves("login", d)
BY DEF FlightInv, DeviceInv, Undisturbed, Serves, Shutting, Conflict, Opens, Closes

\* A request works on a device that it is in flight for.
LEMMA OnIsIn ==
    ASSUME SessionsInv, Shaped, NEW r \in Requests, NEW d \in Devices, On(r, d),
           req[r].op # "list"
    PROVE  In(r, d)
<1>1. req[r] \in Work /\ Shape(req[r])
  BY DEF SessionsInv, Types, On, Shaped
<1> QED
  BY <1>1 DEF On, In, Shape, Work

LEMMA IssuersOpen ==
    ASSUME SessionsInv, Shaped, NEW r \in Requests, NEW d \in Devices,
           IssuingFor(r, d) \/ Unsaved(r, d)
    PROVE  In(r, d) /\ Opens(req[r])
<1>1. req[r] \in Work /\ Shape(req[r]) /\ req[r].at \in {"device", "info", "expire", "answer"} /\ On(r, d)
  BY DEF SessionsInv, Types, On, Shaped, IssuingFor, Unsaved
<1>2. Opens(req[r])
  BY <1>1 DEF Shape, Work, Opens
<1> QED
  BY <1>1, <1>2, OnIsIn DEF Opens

-----------------------------------------------------------------------------
\* A step of r that leaves the keys and the history of d alone, opens nothing
\* there, and neither misses nor forgets the session of d in a list.
LEMMA Frame ==
    ASSUME FlightInv, SessionsInv', Shaped', NEW d \in Devices, NEW r \in Requests, Alone(r),
           token'[d] = token[d], d \in devices' <=> d \in devices, info'[d] = info[d],
           \A x \in Requests \cup {Client} : x # r => (x \in holders'[d] <=> x \in holders[d]),
           known'[d] = known[d], d \in clash' <=> d \in clash, Undisturbed(d)',
           In(r, d)' <=> In(r, d),
           In(r, d) => req'[r].op = req[r].op /\ ~Opens(req[r]),
           ~Closer(r, d), ~Closer(r, d)',
           In(r, d) /\ On(r, d)' /\ req'[r].op = "logout" =>
               req'[r].at \notin {"untoken", "undevice"}
               /\ (req'[r].at = "closing" => req'[r].found # {}),
           In(r, d) /\ token[d] # 0 /\ d \notin req[r].gone /\ d \notin req[r].lost =>
               d \notin req'[r].gone /\ d \notin req'[r].lost,
           In(r, d) /\ req[r].op = "closeall" /\ Kept(d) /\ Listed(d) =>
               \/ req'[r].at = "update"
               \/ req'[r].at = "look" /\ d \in req'[r].todo
               \/ [dev |-> d, named |-> TRUE] \in req'[r].found
    PROVE  DeviceInv(d)'
<1>0. SessionsInv /\ Shaped /\ DeviceInv(d) /\ Client # r
  BY SessionsAssumption DEF FlightInv
<1>1. \A q \in Requests : /\ In(q, d)' <=> In(q, d)
                          /\ q # r => req'[q] = req[q] /\ (On(q, d)' <=> On(q, d))
                          /\ In(q, d) => req'[q].op = req[q].op
  BY DEF In, On, Alone
<1>2. \A op : Serves(op, d)' <=> Serves(op, d)
  BY <1>1 DEF Serves
<1>3. Midway(d)' <=> Midway(d)
  BY <1>1 DEF Midway, Closer
<1>4. \A q \in Requests : /\ IssuingFor(q, d) => q # r /\ IssuingFor(q, d)'
                          /\ Unsaved(q, d) => q # r /\ Unsaved(q, d)'
  <2>1. ~IssuingFor(r, d) /\ ~Unsaved(r, d)
    BY <1>0, IssuersOpen
  <2> QED
    BY <1>1, <2>1 DEF IssuingFor, Unsaved
<1>5. Owned(d) => Owned(d)'
  BY <1>0, <1>4 DEF Owned
<1>6. (Gone(d)' <=> Gone(d)) /\ (Kept(d)' <=> Kept(d))
  BY DEF Gone, Kept
<1>7. ASSUME NEW q \in Requests, On(q, d)', req'[q].op # "list"
      PROVE  In(q, d) /\ (q # r => On(q, d) /\ req'[q] = req[q]) /\ req[q].op = req'[q].op
  <2>1. In(q, d)'
    <3>1. req'[q] \in Work /\ Shape(req'[q])
      BY <1>7 DEF SessionsInv, Types, On, Shaped
    <3> QED
      BY <1>7, <3>1 DEF On, In, Shape, Work
  <2> QED
    BY <1>1, <1>7, <2>1
<1>8. ClosingInv(d)'
  <2> SUFFICES ASSUME d \notin clash', NEW q \in Requests, On(q, d)', Closes(req'[q])
               PROVE  /\ req'[q].at = "untoken" => info[d] = NoInfo
                      /\ req'[q].at = "undevice" => info[d] = NoInfo /\ token[d] = 0
                      /\ req'[q].op = "logout" /\ req'[q].at = "closing" /\ req'[q].found = {}
                             => Gone(d)
    BY <1>6 DEF ClosingInv
  <2>1. CASE q = r
    BY <1>7, <2>1 DEF Closes, Closer
  <2>2. CASE q # r
    BY <1>0, <1>7, <2>2 DEF DeviceInv, ClosingInv, Closes
  <2> QED
    BY <2>1, <2>2
<1>9. ClosedInv(d)'
  BY <1>0, <1>2, <1>3, <1>6 DEF DeviceInv, ClosedInv, Shutting
<1>10. token[d] # 0 /\ NotMissed(d) => NotMissed(d)'
  BY <1>1 DEF NotMissed, Lists
<1>11. Kept(d) /\ Listed(d) => Listed(d)'
  <2> SUFFICES ASSUME Kept(d), Listed(d), NEW q \in Requests, req'[q] # Idle, req'[q].op = "closeall"
               PROVE  \/ req'[q].at = "update"
                      \/ req'[q].at = "look" /\ d \in req'[q].todo
                      \/ [dev |-> d, named |-> TRUE] \in req'[q].found
    BY DEF Listed
  <2>1. CASE q # r
    BY <1>1, <2>1 DEF Listed
  <2>2. CASE q = r
    <3>1. In(r, d)'
      BY <2>2 DEF Shaped, Shape, In
    <3> QED
      BY <1>1, <2>2, <3>1
  <2> QED
    BY <2>1, <2>2
<1>12. ShutInv(d)'
  BY <1>0, <1>2, <1>3, <1>6, <1>10, <1>11 DEF DeviceInv, ShutInv, Kept
<1>13. LoginInv(d)'
  <2> SUFFICES ASSUME d \notin clash', NEW q \in Requests, On(q, d)', req'[q].op = "login"
               PROVE  /\ Owned(d)'
                      /\ req'[q].at # "device" => d \in devices'
                      /\ req'[q].at \in {"expire", "answer"} => info'[d] # NoInfo /\ info'[d].named
    BY DEF LoginInv
  <2>1. q # r /\ On(q, d) /\ req'[q] = req[q]
    BY <1>7 DEF Opens
  <2> QED
    BY <1>0, <1>5, <2>1 DEF DeviceInv, LoginInv
<1>14. OpenInv(d)'
  BY <1>0, <1>2, <1>5, <1>6, <1>10 DEF DeviceInv, OpenInv, Shutting, Kept
<1> QED
  BY <1>8, <1>9, <1>12, <1>13, <1>14 DEF DeviceInv

-----------------------------------------------------------------------------
\* A step of r that removes keys of d, for a request that closes or lists: what
\* is gone stays gone, and what was kept has been missed or is being closed.
LEMMA Removes ==
    ASSUME FlightInv, SessionsInv', Shaped', NEW d \in Devices, NEW r \in Requests, Alone(r),
           In(r, d), In(r, d)', req'[r].op = req[r].op,
           req[r].op \in {"logout", "list", "closeall"},
           token'[d] \in {token[d], 0}, info'[d] \in {info[d], NoInfo},
           d \in devices' => d \in devices, holders'[d] \subseteq holders[d],
           UNCHANGED <<known, clash>>,
           d \notin clash /\ On(r, d)' /\ Closes(req[r]) =>
               /\ req'[r].at = "untoken" => info'[d] = NoInfo
               /\ req'[r].at = "undevice" => info'[d] = NoInfo /\ token'[d] = 0
               /\ req'[r].op = "logout" /\ req'[r].at = "closing" /\ req'[r].found = {}
                      => Gone(d)',
           d \notin clash /\ Closer(r, d) => Closer(r, d)' \/ Gone(d)',
           d \notin clash /\ Kept(d) /\ NotMissed(d) => Closer(r, d)' \/ req[r].op = "logout"
    PROVE  DeviceInv(d)'
<1>0. SessionsInv /\ Shaped /\ DeviceInv(d) /\ req[r] # Idle /\ req'[r] # Idle
  BY DEF FlightInv, In
<1>1. \A q \in Requests : /\ In(q, d)' <=> In(q, d)
                          /\ q # r => req'[q] = req[q] /\ (On(q, d)' <=> On(q, d))
                          /\ req'[q].op = req[q].op
  BY DEF In, On, Alone
<1>2. \A op : Serves(op, d)' <=> Serves(op, d)
  BY <1>1 DEF Serves
<1>3. Gone(d) => Gone(d)'
  BY DEF Gone
<1>4. d \notin clash /\ Midway(d) => Midway(d)' \/ Gone(d)'
  BY <1>1 DEF Midway, Closer
<1>5. d \notin clash => ~Serves("login", d)
  BY Exclusive DEF Closes
<1>6. known[d] # "unknown" => d \notin clash
  BY <1>0 DEF DeviceInv, Undisturbed
<1>7. Undisturbed(d)'
  BY UndisturbedGoes
<1>8. ClosingInv(d)'
  <2> SUFFICES ASSUME d \notin clash, NEW q \in Requests, On(q, d)', Closes(req'[q])
               PROVE  /\ req'[q].at = "untoken" => info'[d] = NoInfo
                      /\ req'[q].at = "undevice" => info'[d] = NoInfo /\ token'[d] = 0
                      /\ req'[q].op = "logout" /\ req'[q].at = "closing" /\ req'[q].found = {}
                             => Gone(d)'
    BY DEF ClosingInv
  <2>1. CASE q = r
    BY <2>1 DEF Closes
  <2>2. CASE q # r
    BY <1>0, <1>1, <1>3, <2>2 DEF DeviceInv, ClosingInv
  <2> QED
    BY <2>1, <2>2
<1>9. ClosedInv(d)'
  <2> SUFFICES ASSUME known[d] = "closed"
               PROVE  /\ ~Serves("refresh", d)'
                      /\ ~Shutting(d)' => Client \notin holders'[d]
                      /\ ~Serves("login", d)' /\ ~Serves("logout", d)' => Gone(d)' \/ Midway(d)'
    BY DEF ClosedInv
  <2>1. /\ ~Serves("refresh", d)
        /\ ~Shutting(d) => Client \notin holders[d]
        /\ ~Serves("login", d) /\ ~Serves("logout", d) => Gone(d) \/ Midway(d)
    BY <1>0 DEF DeviceInv, ClosedInv
  <2>2. Shutting(d)' <=> Shutting(d)
    BY <1>2 DEF Shutting
  <2> QED
    BY <1>2, <1>3, <1>4, <1>6, <2>1, <2>2
<1>10. ShutInv(d)'
  <2> SUFFICES ASSUME known[d] = "open", Serves("closeall", d), ~Serves("logout", d)
               PROVE  Midway(d)' \/ Gone(d)'
    BY <1>2 DEF ShutInv
  <2>1. (Kept(d) /\ NotMissed(d)) \/ Midway(d) \/ Gone(d)
    BY <1>0 DEF DeviceInv, ShutInv
  <2>2. req[r].op # "logout"
    BY DEF Serves
  <2>3. Closer(r, d)' => Midway(d)'
    BY DEF Midway
  <2> QED
    BY <1>3, <1>4, <1>6, <2>1, <2>2, <2>3
<1>11. LoginInv(d)'
  <2> SUFFICES ASSUME d \notin clash, NEW q \in Requests, On(q, d)', req'[q].op = "login"
               PROVE  FALSE
    BY DEF LoginInv
  <2>1. q # r /\ On(q, d) /\ req[q].op = "login"
    BY <1>1
  <2>2. In(q, d)
    BY <1>0, <2>1, OnIsIn
  <2> QED
    BY <1>5, <2>1, <2>2 DEF Serves
<1>12. OpenInv(d)'
  <2> SUFFICES ASSUME known[d] = "open", ~Shutting(d) PROVE FALSE
    BY <1>2 DEF OpenInv, Shutting
  <2>1. Kept(d) /\ NotMissed(d)
    BY <1>0 DEF DeviceInv, OpenInv
  <2>2. req[r].op = "list"
    BY DEF Shutting, Serves
  <2> QED
    BY <1>6, <2>1, <2>2 DEF Closer
<1> QED
  BY <1>7, <1>8, <1>9, <1>10, <1>11, <1>12 DEF DeviceInv

\* A step of r that opens the session of d.
LEMMA Opening ==
    ASSUME FlightInv, SessionsInv', Shaped', NEW d \in Devices, NEW r \in Requests, Alone(r),
           In(r, d), In(r, d)', req'[r].op = req[r].op, Opens(req[r]),
           UNCHANGED <<known, clash>>,
           Client \in holders'[d] => Client \in holders[d],
           d \notin clash /\ Owned(d) => Owned(d)', Kept(d) => Kept(d)',
           d \in devices => d \in devices',
           info[d] # NoInfo /\ info[d].named => info'[d] # NoInfo /\ info'[d].named,
           d \notin clash /\ req[r].op = "login" =>
               /\ On(r, d)
               /\ req'[r].at # "device" => d \in devices'
               /\ req'[r].at \in {"expire", "answer"} => info'[d] # NoInfo /\ info'[d].named
    PROVE  DeviceInv(d)'
<1>0. SessionsInv /\ Shaped /\ DeviceInv(d) /\ req[r] # Idle /\ req'[r] # Idle
  BY DEF FlightInv, In
<1>1. \A q \in Requests : /\ In(q, d)' <=> In(q, d)
                          /\ q # r => req'[q] = req[q] /\ (On(q, d)' <=> On(q, d))
                          /\ req'[q].op = req[q].op
  BY DEF In, On, Alone
<1>2. \A op : Serves(op, d)' <=> Serves(op, d)
  BY <1>1 DEF Serves
<1>3. d \notin clash => ~Shutting(d)
  BY Exclusive
<1>4. known[d] # "unknown" => d \notin clash
  BY <1>0 DEF DeviceInv, Undisturbed
<1>5. Undisturbed(d)'
  BY UndisturbedGoes
<1>6. ClosingInv(d)'
  <2> SUFFICES ASSUME d \notin clash, NEW q \in Requests, On(q, d)', Closes(req'[q])
               PROVE  FALSE
    BY DEF ClosingInv
  <2>1. q # r /\ On(q, d) /\ req'[q] = req[q]
    BY <1>1 DEF Opens, Closes
  <2>2. In(q, d)
    BY <1>0, <2>1, OnIsIn DEF Closes
  <2> QED
    BY <1>3, <2>1, <2>2 DEF Shutting, Serves, Closes
<1>7. ClosedInv(d)'
  <2> SUFFICES ASSUME known[d] = "closed"
               PROVE  /\ ~Serves("refresh", d)'
                      /\ Client \notin holders'[d]
                      /\ Serves("login", d)'
    BY DEF ClosedInv
  <2>1. ~Serves("refresh", d) /\ Client \notin holders[d]
    BY <1>0, <1>3, <1>4 DEF DeviceInv, ClosedInv
  <2>2. Serves("login", d)
    BY <2>1 DEF Serves, Opens
  <2> QED
    BY <1>2, <2>1, <2>2
<1>8. ShutInv(d)'
  BY <1>2, <1>3, <1>4 DEF ShutInv, Shutting
<1>9. LoginInv(d)'
  <2> SUFFICES ASSUME d \notin clash, NEW q \in Requests, On(q, d)', req'[q].op = "login"
               PROVE  /\ Owned(d)'
                      /\ req'[q].at # "device" => d \in devices'
                      /\ req'[q].at \in {"expire", "answer"} => info'[d] # NoInfo /\ info'[d].named
    BY DEF LoginInv
  <2>1. On(q, d) /\ req[q].op = "login"
    BY <1>1
  <2>2. /\ Owned(d)
        /\ req[q].at # "device" => d \in devices
        /\ req[q].at \in {"expire", "answer"} => info[d] # NoInfo /\ info[d].named
    BY <1>0, <2>1 DEF DeviceInv, LoginInv
  <2>3. CASE q = r
    BY <2>1, <2>2, <2>3
  <2>4. CASE q # r
    BY <1>1, <2>2, <2>4
  <2> QED
    BY <2>3, <2>4
<1>10. NotMissed(d) => NotMissed(d)'
  <2> SUFFICES ASSUME NotMissed(d), NEW q \in Requests, In(q, d)', Lists(req'[q])
               PROVE  d \notin req'[q].gone /\ d \notin req'[q].lost
    BY DEF NotMissed
  <2>1. q # r /\ In(q, d) /\ req'[q] = req[q]
    BY <1>1 DEF Lists, Opens
  <2> QED
    BY <2>1 DEF NotMissed
<1>11. OpenInv(d)'
  <2> SUFFICES ASSUME known[d] = "open", ~Shutting(d)
               PROVE  Owned(d)' /\ Kept(d)' /\ NotMissed(d)'
    BY <1>2 DEF OpenInv, Shutting
  <2> QED
    BY <1>0, <1>4, <1>10 DEF DeviceInv, OpenInv
<1> QED
  BY <1>5, <1>6, <1>7, <1>8, <1>9, <1>11 DEF DeviceInv

\* A request leaves d, which stays as it is: nothing is said any more about what
\* it had issued or removed there.
LEMMA Leaving ==
    ASSUME FlightInv, SessionsInv', Shaped', NEW d \in Devices, NEW r \in Requests, Alone(r),
           req[r] # Idle, req'[r] = Idle,
           token'[d] = token[d], d \in devices' <=> d \in devices, info'[d] = info[d],
           d \notin clash' => \/ d \notin clash /\ Closes(req[r]) /\ In(r, d)
                              \/ \A q \in Requests \ {r} : ~In(q, d)
    PROVE  ClosingInv(d)' /\ LoginInv(d)'
<1>0. SessionsInv /\ Shaped /\ DeviceInv(d)
  BY DEF FlightInv
<1>1. ASSUME NEW q \in Requests, On(q, d)', req'[q].op # "list"
      PROVE  q # r /\ On(q, d) /\ req'[q] = req[q] /\ In(q, d)
  <2>1. q # r /\ On(q, d) /\ req'[q] = req[q]
    BY <1>1 DEF On, Alone
  <2> QED
    BY <1>0, <1>1, <2>1, OnIsIn
<1>2. Gone(d)' <=> Gone(d)
  BY DEF Gone
<1>3. ClosingInv(d)'
  <2> SUFFICES ASSUME d \notin clash', NEW q \in Requests, On(q, d)', Closes(req'[q])
               PROVE  /\ req'[q].at = "untoken" => info[d] = NoInfo
                      /\ req'[q].at = "undevice" => info[d] = NoInfo /\ token[d] = 0
                      /\ req'[q].op = "logout" /\ req'[q].at = "closing" /\ req'[q].found = {}
                             => Gone(d)
    BY <1>2 DEF ClosingInv
  <2>1. q # r /\ On(q, d) /\ req'[q] = req[q] /\ In(q, d)
    BY <1>1 DEF Closes
  <2> QED
    BY <1>0, <2>1 DEF DeviceInv, ClosingInv
<1>4. LoginInv(d)'
  <2> SUFFICES ASSUME d \notin clash', NEW q \in Requests, On(q, d)', req'[q].op = "login"
               PROVE  FALSE
    BY DEF LoginInv
  <2>1. q # r /\ req[q].op = "login" /\ In(q, d)
    BY <1>1
  <2>2. d \notin clash /\ Closes(req[r]) /\ In(r, d)
    BY <2>1
  <2> QED
    BY <2>1, <2>2, Exclusive DEF Serves
<1> QED
  BY <1>3, <1>4

\* Nothing is promised of a session whose history is unknown.
LEMMA NothingPromised ==
    ASSUME NEW d \in Devices, known'[d] = "unknown", Undisturbed(d)', ClosingInv(d)', LoginInv(d)'
    PROVE  DeviceInv(d)'
BY DEF DeviceInv, ClosedInv, ShutInv, OpenInv

\* A request that neither closes nor logs in leaves d as it is.
LEMMA Departs ==
    ASSUME FlightInv, SessionsInv', Shaped', NEW d \in Devices, NEW r \in Requests, Alone(r),
           req[r] # Idle, req'[r] = Idle, Undisturbed(d)',
           token'[d] = token[d], d \in devices' <=> d \in devices, info'[d] = info[d],
           \A x \in Requests \cup {Client} : x # r => (x \in holders'[d] <=> x \in holders[d]),
           known'[d] = known[d], d \in clash' => d \in clash,
           d \in clash /\ d \notin clash' => \A q \in Requests \ {r} : ~In(q, d),
           req[r].op \in {"list", "refresh"}, ~IssuingFor(r, d), ~Unsaved(r, d)
    PROVE  DeviceInv(d)'
<1>0. SessionsInv /\ Shaped /\ DeviceInv(d) /\ Client # r
  BY SessionsAssumption DEF FlightInv
<1>1. \A q \in Requests : /\ q # r => req'[q] = req[q] /\ (On(q, d)' <=> On(q, d))
                                      /\ (In(q, d)' <=> In(q, d))
                          /\ ~In(r, d)' /\ ~On(r, d)'
  BY DEF In, On, Alone
<1>2. \A op : op \notin {"list", "refresh"} => (Serves(op, d)' <=> Serves(op, d))
  BY <1>1 DEF Serves
<1>3. Serves("refresh", d)' => Serves("refresh", d)
  BY <1>1 DEF Serves
<1>4. (Gone(d)' <=> Gone(d)) /\ (Kept(d)' <=> Kept(d)) /\ (Midway(d)' <=> Midway(d))
  BY <1>1 DEF Gone, Kept, Midway, Closer
<1>5. Owned(d) => Owned(d)'
  <2>1. \A q \in Requests : /\ IssuingFor(q, d) => q # r /\ IssuingFor(q, d)'
                            /\ Unsaved(q, d) => q # r /\ Unsaved(q, d)'
    BY <1>1 DEF IssuingFor, Unsaved
  <2> QED
    BY <1>0, <2>1 DEF Owned
<1>6. (NotMissed(d) => NotMissed(d)') /\ (Listed(d) => Listed(d)')
  BY <1>1 DEF NotMissed, Listed, Lists
<1>7. ClosedInv(d)' /\ ShutInv(d)' /\ OpenInv(d)'
  <2>1. ClosedInv(d)'
    BY <1>0, <1>2, <1>3, <1>4 DEF DeviceInv, ClosedInv, Shutting
  <2>2. ShutInv(d)'
    BY <1>0, <1>2, <1>4, <1>6 DEF DeviceInv, ShutInv
  <2>3. OpenInv(d)'
    BY <1>0, <1>2, <1>4, <1>5, <1>6 DEF DeviceInv, OpenInv, Shutting
  <2> QED
    BY <2>1, <2>2, <2>3
<1>8. ClosingInv(d)'
  <2> SUFFICES ASSUME d \notin clash', NEW q \in Requests, On(q, d)', Closes(req'[q])
               PROVE  /\ req'[q].at = "untoken" => info[d] = NoInfo
                      /\ req'[q].at = "undevice" => info[d] = NoInfo /\ token[d] = 0
                      /\ req'[q].op = "logout" /\ req'[q].at = "closing" /\ req'[q].found = {}
                             => Gone(d)
    BY <1>4 DEF ClosingInv
  <2>1. q # r /\ On(q, d) /\ req'[q] = req[q]
    BY <1>1
  <2>2. In(q, d)
    BY <1>0, <2>1, OnIsIn DEF Closes
  <2> QED
    BY <1>0, <2>1, <2>2 DEF DeviceInv, ClosingInv
<1>9. LoginInv(d)'
  <2> SUFFICES ASSUME d \notin clash', NEW q \in Requests, On(q, d)', req'[q].op = "login"
               PROVE  /\ Owned(d)'
                      /\ req'[q].at # "device" => d \in devices'
                      /\ req'[q].at \in {"expire", "answer"} => info'[d] # NoInfo /\ info'[d].named
    BY DEF LoginInv
  <2>1. q # r /\ On(q, d) /\ req'[q] = req[q]
    BY <1>1
  <2>2. In(q, d)
    BY <1>0, <2>1, OnIsIn
  <2> QED
    BY <1>0, <1>5, <2>1, <2>2 DEF DeviceInv, LoginInv
<1> QED
  BY <1>7, <1>8, <1>9 DEF DeviceInv

-----------------------------------------------------------------------------
\* The lists: a step that only reads, and one that drops what had no token.
LEMMA FlightReads ==
    ASSUME FlightInv, SessionsInv', NEW r \in Requests,
           ListAgain(r) \/ \E x \in Devices : Exists(r, x) \/ LookAt(r, x)
    PROVE  FlightInv'
<1>0. /\ SessionsInv /\ Shaped /\ req[r] # Idle /\ req[r] \in Work /\ Shape(req[r])
      /\ UNCHANGED <<token, devices, info, holders, access, fails, known, clash>>
  BY DEF FlightInv, SessionsInv, Types, Shaped, ListAgain, Exists, LookAt, At,
         redis, clients, history
<1>1. req[r].op \in {"list", "closeall"} /\ req[r].touch = Devices
  BY <1>0 DEF ListAgain, Exists, LookAt, At, Shape, Work
<1>2. ASSUME NEW j \in Work, req' = [req EXCEPT ![r] = j], j.at \in {"update", "look"},
             j.op = req[r].op, j.touch = req[r].touch, req[r].at \in {"update", "look"},
             ASSUME NEW d \in Devices
             PROVE  /\ token[d] # 0 /\ d \notin req[r].gone /\ d \notin req[r].lost =>
                         d \notin j.gone /\ d \notin j.lost
                    /\ req[r].op = "closeall" /\ Kept(d) /\ Listed(d) =>
                         \/ j.at = "update"
                         \/ j.at = "look" /\ d \in j.todo
                         \/ [dev |-> d, named |-> TRUE] \in j.found
      PROVE  FlightInv'
  <2>1. Shape(j) /\ j # Idle
    BY <1>1, <1>2, IdleIsNoWork DEF Shape
  <2>2. Shaped' /\ req'[r] = j /\ Alone(r)
    BY <1>0, <1>2, <2>1, ShapeReplaced
  <2>3. ASSUME NEW d \in Devices PROVE DeviceInv(d)'
    <3>1. In(r, d) /\ In(r, d)'
      BY <1>0, <1>1, <1>2, <2>1, <2>2 DEF In
    <3>2. Undisturbed(d)'
      BY <1>0, <1>2, <2>2, <3>1, UndisturbedGoes
    <3>3. ~Closer(r, d) /\ ~Closer(r, d)'
      BY <1>2, <2>2 DEF Closer
    <3>4. ~Opens(req[r]) /\ req'[r].op # "logout"
      BY <1>1, <1>2, <2>2 DEF Opens
    <3> QED
      BY <1>0, <1>2, <2>2, <3>1, <3>2, <3>3, <3>4, Frame
  <2> QED
    BY <2>2, <2>3 DEF FlightInv
<1>3. CASE ListAgain(r)
  <2> DEFINE j == [req[r] EXCEPT !.at = "look", !.todo = devices]
  <2>1. req' = [req EXCEPT ![r] = j] /\ req[r].at = "update"
    BY <1>3 DEF ListAgain, At
  <2>2. /\ j \in Work /\ j.at = "look" /\ j.op = req[r].op /\ j.touch = req[r].touch
        /\ j.todo = devices /\ j.gone = req[r].gone /\ j.lost = req[r].lost
    BY <1>0 DEF Work, FlightInv, SessionsInv, Types
  <2> HIDE DEF j
  <2> QED
    BY <1>2, <2>1, <2>2 DEF Kept
<1>4. ASSUME NEW x \in Devices, Exists(r, x) PROVE FlightInv'
  <2> DEFINE g == IF token[x] = 0 THEN req[r].gone \cup {x} ELSE req[r].gone
             j == [req[r] EXCEPT !.todo = @ \ {x}, !.gone = g]
  <2>1. req' = [req EXCEPT ![r] = j] /\ req[r].at = "update"
    BY <1>4 DEF Exists, At
  <2>2. g \subseteq Devices /\ \A d \in g : d \in req[r].gone \/ token[d] = 0
    BY <1>0 DEF Work
  <2> HIDE DEF g
  <2>3. /\ j \in Work /\ j.at = req[r].at /\ j.op = req[r].op /\ j.touch = req[r].touch
        /\ j.gone = g /\ j.lost = req[r].lost
    BY <1>0, <2>2 DEF Work
  <2> HIDE DEF j
  <2> QED
    BY <1>2, <2>1, <2>2, <2>3
<1>5. ASSUME NEW x \in Devices, LookAt(r, x) PROVE FlightInv'
  <2> DEFINE f == [dev |-> x, named |-> info[x] # NoInfo /\ info[x].named]
             j == [req[r] EXCEPT !.todo = @ \ {x}, !.found = @ \cup {f}]
  <2>1. req' = [req EXCEPT ![r] = j] /\ req[r].at = "look"
    BY <1>5 DEF LookAt, At
  <2>2. f \in Session /\ (Kept(x) => f = [dev |-> x, named |-> TRUE])
    <3>1. (info[x] # NoInfo /\ info[x].named) \in BOOLEAN
      OBVIOUS
    <3>2. Kept(x) => (info[x] # NoInfo /\ info[x].named) = TRUE
      BY DEF Kept
    <3> QED
      BY <3>1, <3>2 DEF Session
  <2> HIDE DEF f
  <2>3. /\ j \in Work /\ j.at = req[r].at /\ j.op = req[r].op /\ j.touch = req[r].touch
        /\ j.gone = req[r].gone /\ j.lost = req[r].lost
        /\ j.todo = req[r].todo \ {x} /\ j.found = req[r].found \cup {f}
    BY <1>0, <2>2 DEF Work
  <2> HIDE DEF j
  <2>4. ASSUME NEW d \in Devices, req[r].op = "closeall", Kept(d), Listed(d)
        PROVE  d \in j.todo \/ [dev |-> d, named |-> TRUE] \in j.found
    <3>1. d \in req[r].todo \/ [dev |-> d, named |-> TRUE] \in req[r].found
      BY <1>0, <2>1, <2>4 DEF Listed
    <3> QED
      BY <2>2, <2>3, <2>4, <3>1
  <2> QED
    BY <1>2, <2>1, <2>3, <2>4
<1> QED
  BY <1>3, <1>4, <1>5

LEMMA FlightDrops ==
    ASSUME FlightInv, SessionsInv', NEW r \in Requests, NEW x \in Devices,
           DropDevice(r, x) \/ ForgetInfo(r, x)
    PROVE  FlightInv'
<1>0. /\ SessionsInv /\ Shaped /\ req[r] # Idle /\ req[r] \in Work /\ Shape(req[r])
      /\ UNCHANGED <<token, holders, access, fails, known, clash>>
      /\ req[r].at = "update" /\ x \in req[r].gone \cup req[r].lost
  BY DEF FlightInv, SessionsInv, Types, Shaped, DropDevice, ForgetInfo, At, clients, history
<1>1. req[r].op \in {"list", "closeall"} /\ req[r].touch = Devices
  BY <1>0 DEF Shape, Work
<1>2. PICK j \in Work : /\ req' = [req EXCEPT ![r] = j] /\ j.at = "update"
                        /\ j.op = req[r].op /\ j.touch = req[r].touch
                        /\ \A d \in Devices \ {x} : d \in j.gone \cup j.lost =>
                                                   d \in req[r].gone \cup req[r].lost
  <2>1. CASE DropDevice(r, x)
    <3> DEFINE j == [req[r] EXCEPT !.gone = @ \ {x}, !.lost = @ \cup {x}]
    <3>1. /\ j \in Work /\ j.at = req[r].at /\ j.op = req[r].op /\ j.touch = req[r].touch
          /\ j.gone = req[r].gone \ {x} /\ j.lost = req[r].lost \cup {x}
      BY <1>0 DEF Work
    <3>2. req' = [req EXCEPT ![r] = j]
      BY <2>1 DEF DropDevice
    <3> HIDE DEF j
    <3> QED
      BY <1>0, <3>1, <3>2
  <2>2. CASE ForgetInfo(r, x)
    <3> DEFINE j == [req[r] EXCEPT !.lost = @ \ {x}]
    <3>1. /\ j \in Work /\ j.at = req[r].at /\ j.op = req[r].op /\ j.touch = req[r].touch
          /\ j.gone = req[r].gone /\ j.lost = req[r].lost \ {x}
      BY <1>0 DEF Work
    <3>2. req' = [req EXCEPT ![r] = j]
      BY <2>2 DEF ForgetInfo
    <3> HIDE DEF j
    <3> QED
      BY <1>0, <3>1, <3>2
  <2> QED
    BY <2>1, <2>2
<1>3. /\ \A d \in Devices : d \in devices' => d \in devices
      /\ \A d \in Devices : info'[d] \in {info[d], NoInfo}
      /\ \A d \in Devices \ {x} : (d \in devices' <=> d \in devices) /\ info'[d] = info[d]
  BY <1>0 DEF DropDevice, ForgetInfo, Undevice, Uninfo, SessionsInv, Types
<1>4. Shape(j) /\ j # Idle
  BY <1>1, <1>2, IdleIsNoWork DEF Shape
<1>5. Shaped' /\ req'[r] = j /\ Alone(r)
  BY <1>0, <1>2, <1>4, ShapeReplaced
<1>6. ASSUME NEW d \in Devices PROVE DeviceInv(d)'
  <2>1. In(r, d) /\ In(r, d)'
    BY <1>0, <1>1, <1>2, <1>4, <1>5 DEF In
  <2>2. ~Closer(r, d) /\ ~Closer(r, d)'
    BY <1>0, <1>2, <1>5 DEF Closer
  <2>3. ~Opens(req[r]) /\ req'[r].op # "logout"
    BY <1>1, <1>2, <1>5 DEF Opens
  <2>4. CASE d # x
    <3>1. Undisturbed(d)'
      BY <1>0, <1>2, <1>5, <2>1, UndisturbedGoes
    <3> QED
      BY <1>0, <1>2, <1>3, <1>5, <2>1, <2>2, <2>3, <2>4, <3>1, Frame
  <2>5. CASE d = x
    <3>1. ~NotMissed(d)
      BY <1>0, <1>1, <2>1, <2>5 DEF NotMissed, Lists
    <3> QED
      BY <1>0, <1>1, <1>2, <1>3, <1>5, <2>1, <2>2, <3>1, Removes
  <2> QED
    BY <2>4, <2>5
<1> QED
  BY <1>5, <1>6 DEF FlightInv

-----------------------------------------------------------------------------
\* close_session, and the remove_token of a logout.
LEMMA FlightCloses ==
    ASSUME FlightInv, SessionsInv', NEW r \in Requests, NEW s \in Session, CloseInfo(r, s)
    PROVE  FlightInv'
<1>0. /\ SessionsInv /\ Shaped /\ req[r] # Idle /\ req[r] \in Work /\ Shape(req[r])
      /\ UNCHANGED <<token, devices, holders, access, fails, known, clash>>
      /\ Closing(r) /\ s \in req[r].found /\ s.dev \in Devices
  BY DEF FlightInv, SessionsInv, Types, Shaped, CloseInfo, Closing, At, clients, history, Session
<1>1. /\ req[r].op \in {"logout", "closeall"} /\ s.dev \in req[r].touch
      /\ req[r].at \in {"closing", "look"} /\ (req[r].at = "look" => req[r].todo = {})
  BY <1>0 DEF Shape, Work, Closing, At
<1> DEFINE j == [req[r] EXCEPT !.at = "untoken", !.dev = s.dev, !.found = @ \ {s}]
<1>2. req' = [req EXCEPT ![r] = j] /\ info' = [info EXCEPT ![s.dev] = NoInfo]
  BY DEF CloseInfo, Uninfo
<1>3. /\ j \in Work /\ j.at = "untoken" /\ j.dev = s.dev /\ j.op = req[r].op
      /\ j.touch = req[r].touch /\ j.gone = req[r].gone /\ j.lost = req[r].lost
      /\ j.found = req[r].found \ {s}
  BY <1>0 DEF Work
<1> HIDE DEF j
<1>4. Shape(j) /\ j # Idle
  BY <1>0, <1>1, <1>3, IdleIsNoWork DEF Shape
<1>5. Shaped' /\ req'[r] = j /\ Alone(r)
  BY <1>0, <1>2, <1>4, ShapeReplaced
<1>6. \A d \in Devices : info'[d] = IF d = s.dev THEN NoInfo ELSE info[d]
  BY <1>0, <1>2 DEF SessionsInv, Types
<1>7. ASSUME NEW d \in Devices PROVE DeviceInv(d)'
  <2>1. In(r, d)' <=> In(r, d)
    BY <1>0, <1>3, <1>4, <1>5 DEF In
  <2>2. ~Closer(r, d)
    BY <1>1 DEF Closer
  <2>3. CASE d # s.dev
    <3>1. Undisturbed(d)'
      BY <1>0, <1>3, <1>5, <2>1, UndisturbedGoes
    <3>2. ~Closer(r, d)' /\ ~On(r, d)' /\ ~Opens(req[r])
      BY <1>1, <1>3, <1>5, <2>3 DEF Closer, On, Opens
    <3>3. ASSUME req[r].op = "closeall", Listed(d)
          PROVE  [dev |-> d, named |-> TRUE] \in req'[r].found
      <4>1. [dev |-> d, named |-> TRUE] \in req[r].found
        BY <1>0, <1>1, <3>3 DEF Listed
      <4> QED
        BY <1>3, <1>5, <2>3, <4>1
    <3> QED
      BY <1>0, <1>3, <1>5, <1>6, <2>1, <2>2, <2>3, <3>1, <3>2, <3>3, Frame
  <2>4. CASE d = s.dev
    <3>1. In(r, d)
      BY <1>0, <1>1, <2>4 DEF In
    <3>2. Closer(r, d)' \/ req[r].op = "logout"
      BY <1>1, <1>3, <1>4, <1>5, <2>4 DEF Closer, On
    <3> QED
      BY <1>0, <1>1, <1>3, <1>5, <1>6, <2>1, <2>2, <2>4, <3>1, <3>2, Removes
  <2> QED
    BY <2>3, <2>4
<1> QED
  BY <1>5, <1>7 DEF FlightInv

LEMMA FlightRemoves ==
    ASSUME FlightInv, SessionsInv', NEW r \in Requests,
           LogoutDevice(r) \/ CloseToken(r) \/ CloseDevice(r)
    PROVE  FlightInv'
<1>0. /\ SessionsInv /\ Shaped /\ req[r] # Idle /\ req[r] \in Work /\ Shape(req[r])
      /\ UNCHANGED <<info, access, fails, known, clash>>
  BY DEF FlightInv, SessionsInv, Types, Shaped, LogoutDevice, CloseToken, CloseDevice, At,
         clients, history
<1> DEFINE x == Dev(r)
<1>1. /\ x \in Devices /\ req[r].dev = x /\ x \in req[r].touch
      /\ req[r].op \in {"logout", "closeall"}
      /\ req[r].at = "remove" => req[r].op = "logout" /\ req[r].found # {}
      /\ req[r].at \in {"remove", "untoken", "undevice"}
  BY <1>0 DEF LogoutDevice, CloseToken, CloseDevice, At, Shape, Work, Dev, SessionsInv,
              HasDevice, OnDevice
<1>2. PICK at \in {"closing", "undevice"} : Go(r, at) /\ (at = "undevice" <=> CloseToken(r))
  BY DEF LogoutDevice, CloseToken, CloseDevice, At
<1>3. /\ req'[r] # Idle /\ req'[r].at = at /\ req'[r].op = req[r].op
      /\ req'[r].dev = req[r].dev /\ req'[r].touch = req[r].touch
      /\ req'[r].todo = req[r].todo /\ req'[r].gone = req[r].gone
      /\ req'[r].lost = req[r].lost /\ req'[r].found = req[r].found
      /\ Alone(r)
  BY <1>0, <1>2, GoFacts
<1>4. Shaped'
  BY <1>0, <1>1, <1>2, ShapeGoes
<1>5. /\ \A d \in Devices \ {x} : /\ token'[d] = token[d] /\ (d \in devices' <=> d \in devices)
                                  /\ holders'[d] = holders[d]
      /\ token'[x] \in {token[x], 0} /\ (x \in devices' => x \in devices)
      /\ holders'[x] \subseteq holders[x]
      /\ CloseToken(r) => token'[x] = 0
      /\ ~CloseToken(r) => token'[x] = token[x] /\ x \notin devices'
  BY <1>0, <1>1 DEF LogoutDevice, CloseToken, CloseDevice, Untoken, Undevice, At,
                    SessionsInv, Types, clients
<1>6. /\ CloseToken(r) => req[r].at = "untoken"
      /\ ~CloseToken(r) => req[r].at \in {"remove", "undevice"}
  BY DEF LogoutDevice, CloseToken, CloseDevice, At
<1> HIDE DEF x
<1>7. ASSUME NEW d \in Devices PROVE DeviceInv(d)'
  <2>1. In(r, d)' <=> In(r, d)
    BY <1>0, <1>3 DEF In
  <2>2. CASE d # x
    <3>1. Undisturbed(d)'
      BY <1>0, <1>3, <2>1, UndisturbedGoes
    <3>2. ~Closer(r, d) /\ ~Closer(r, d)' /\ ~On(r, d)' /\ ~Opens(req[r])
      BY <1>1, <1>3, <2>2 DEF Closer, On, Opens
    <3>3. ASSUME req[r].op = "closeall", Listed(d)
          PROVE  [dev |-> d, named |-> TRUE] \in req'[r].found
      BY <1>0, <1>1, <1>3, <3>3 DEF Listed
    <3> QED
      BY <1>0, <1>3, <1>4, <1>5, <2>1, <2>2, <3>1, <3>2, <3>3, Frame
  <2>3. CASE d = x
    <3>1. In(r, d) /\ On(r, d) /\ Closes(req[r]) /\ On(r, d)'
      BY <1>0, <1>1, <1>3, <2>3 DEF In, On, Closes
    <3>2. d \notin clash /\ CloseToken(r) => info[d] = NoInfo /\ token'[d] = 0
      BY <1>5, <1>6, <2>3, <3>1 DEF FlightInv, DeviceInv, ClosingInv
    <3>3. d \notin clash /\ CloseDevice(r) =>
             info[d] = NoInfo /\ token[d] = 0 /\ ~CloseToken(r)
      BY <1>6, <3>1 DEF FlightInv, DeviceInv, ClosingInv, CloseDevice, At
    <3>4. d \notin clash /\ CloseDevice(r) => Gone(d)'
      BY <1>0, <1>5, <2>3, <3>3 DEF Gone
    <3>5. LogoutDevice(r) => req[r].op = "logout" /\ req[r].found # {} /\ at = "closing"
      BY <1>1, <1>2, <1>6 DEF LogoutDevice, At
    <3>6. d \notin clash /\ Closer(r, d) => Closer(r, d)' \/ Gone(d)'
      BY <1>2, <1>3, <3>1, <3>4, <3>5 DEF Closer
    <3>7. d \notin clash /\ Kept(d) => req[r].op = "logout"
      BY <3>2, <3>3, <3>5 DEF Kept
    <3>8. d \notin clash =>
             /\ req'[r].at = "untoken" => info'[d] = NoInfo
             /\ req'[r].at = "undevice" => info'[d] = NoInfo /\ token'[d] = 0
             /\ req'[r].op = "logout" /\ req'[r].at = "closing" /\ req'[r].found = {}
                    => Gone(d)'
      BY <1>0, <1>2, <1>3, <3>2, <3>4, <3>5
    <3> QED
      BY <1>0, <1>1, <1>3, <1>4, <1>5, <2>1, <2>3, <3>1, <3>6, <3>7, <3>8, Removes
  <2> QED
    BY <2>2, <2>3
<1> QED
  BY <1>4, <1>7 DEF FlightInv

-----------------------------------------------------------------------------
\* A login or a refresh goes on.
LEMMA FlightOpens ==
    ASSUME FlightInv, SessionsInv', NEW r \in Requests,
           LoginDevice(r) \/ SessionInfo(r) \/ SessionExpire(r) \/ RefreshCheck(r) \/ RefreshToken(r)
    PROVE  FlightInv'
<1>0. /\ SessionsInv /\ Shaped /\ req[r] # Idle /\ req[r] \in Work /\ Shape(req[r])
      /\ UNCHANGED <<access, fails, known, clash>>
  BY DEF FlightInv, SessionsInv, Types, Shaped, LoginDevice, SessionInfo, SessionExpire, RefreshCheck,
         RefreshToken, At, redis, clients, history
<1>a. PICK x : x = Dev(r)
  OBVIOUS
<1>1. /\ x \in Devices /\ req[r].dev = x /\ req[r].touch = {x}
      /\ req[r].op \in {"login", "refresh"}
      /\ LoginDevice(r) => req[r].at = "device" /\ req[r].op = "login"
      /\ SessionInfo(r) => req[r].at = "info"
      /\ SessionExpire(r) => req[r].at = "expire"
      /\ RefreshCheck(r) => req[r].at = "check" /\ req[r].op = "refresh"
      /\ RefreshToken(r) => req[r].at = "token" /\ req[r].op = "refresh"
  BY <1>0, <1>a DEF LoginDevice, SessionInfo, SessionExpire, RefreshCheck, RefreshToken, At, Shape, Work, Dev,
                    SessionsInv, HasDevice, OnDevice
<1>2. PICK at : /\ Go(r, at)
                /\ \/ LoginDevice(r) /\ at = "info"
                   \/ SessionInfo(r) /\ at = "expire"
                   \/ SessionExpire(r) /\ at = "answer"
                   \/ RefreshCheck(r) /\ at = "token"
                   \/ RefreshToken(r) /\ at = "info"
  <2>1. /\ LoginDevice(r) => Go(r, "info")
        /\ SessionInfo(r) => Go(r, "expire")
        /\ SessionExpire(r) => Go(r, "answer")
        /\ RefreshCheck(r) => Go(r, "token")
        /\ RefreshToken(r) => Go(r, "info")
    BY DEF LoginDevice, SessionInfo, SessionExpire, RefreshCheck, RefreshToken
  <2> QED
    BY <2>1
<1>3. /\ req'[r] # Idle /\ req'[r].at = at /\ req'[r].op = req[r].op
      /\ req'[r].dev = req[r].dev /\ req'[r].touch = req[r].touch
      /\ req'[r].todo = req[r].todo /\ req'[r].gone = req[r].gone
      /\ req'[r].lost = req[r].lost /\ req'[r].found = req[r].found
      /\ Alone(r)
  BY <1>0, <1>2, GoFacts
<1>4. Shaped'
  BY <1>0, <1>1, <1>2, ShapeGoes
<1> DEFINE named == req[r].op = "login"
<1>5. /\ LoginDevice(r) => devices' = devices \cup {x} /\ UNCHANGED <<token, info, holders>>
      /\ SessionInfo(r) => info' = [info EXCEPT ![x] = Merged(x, named)]
                           /\ UNCHANGED <<token, devices, holders>>
      /\ SessionExpire(r) => info' = [info EXCEPT ![x] = Lasting(x)]
                             /\ UNCHANGED <<token, devices, holders>>
      /\ RefreshCheck(r) => holders' = [holders EXCEPT ![x] = @ \ {r}]
                            /\ UNCHANGED <<token, devices, info>>
      /\ RefreshToken(r) => /\ holders' = [holders EXCEPT ![x] = {r}]
                            /\ token' = [token EXCEPT ![x] = Life]
                            /\ UNCHANGED <<devices, info>>
  BY <1>a DEF LoginDevice, SessionInfo, SessionExpire, RefreshCheck, RefreshToken, SetInfo,
              ExpireInfo, Tokenize, redis, clients
<1>6. /\ Merged(x, named) # NoInfo /\ (named => Merged(x, named).named)
      /\ info[x] # NoInfo /\ info[x].named => Merged(x, named).named
  <2>a. named \in BOOLEAN
    BY DEF named
  <2>1. CASE info[x] = NoInfo
    <3>1. Merged(x, named) = [named |-> named, ttl |-> NoTtl]
      BY <2>1 DEF Merged
    <3>2. ASSUME NEW b \in BOOLEAN PROVE [named |-> b, ttl |-> NoTtl] \in Info
      BY SessionsAssumption DEF Info, NoTtl
    <3>3. Merged(x, named) \in Info
      BY <2>a, <3>1, <3>2
    <3>4. Merged(x, named).named = named
      BY <3>1
    <3> QED
      BY <2>1, <3>3, <3>4, SessionsAssumption
  <2>2. CASE info[x] # NoInfo
    <3>1. info[x] \in Info /\ (info[x].named \/ named) \in BOOLEAN
      BY <1>0, <1>1, <2>2 DEF SessionsInv, Types, Info
    <3>2. Merged(x, named) = [info[x] EXCEPT !.named = info[x].named \/ named]
      BY <2>2 DEF Merged
    <3>3. Merged(x, named) \in Info /\ Merged(x, named).named = (info[x].named \/ named)
      BY <3>1, <3>2 DEF Info
    <3> QED
      BY <3>3, SessionsAssumption
  <2> QED
    BY <2>1, <2>2
<1>7. /\ info[x] = NoInfo => Lasting(x) = NoInfo
      /\ info[x] # NoInfo => /\ Lasting(x) # NoInfo /\ Lasting(x).ttl = Life
                             /\ Lasting(x).named = info[x].named
  <2>1. ASSUME info[x] # NoInfo
        PROVE  Lasting(x) \in Info /\ Lasting(x).ttl = Life /\ Lasting(x).named = info[x].named
    <3>1. info[x] \in Info
      BY <1>0, <1>1, <2>1 DEF SessionsInv, Types
    <3> QED
      BY <2>1, <3>1, SessionsAssumption DEF Lasting, Info, NoTtl
  <2>2. info[x] = NoInfo => Lasting(x) = NoInfo
    BY DEF Lasting
  <2> QED
    BY <2>1, <2>2, SessionsAssumption
<1> HIDE DEF named
<1>9. ASSUME NEW d \in Devices \ {x} PROVE DeviceInv(d)'
  <2>1. ~In(r, d) /\ ~In(r, d)' /\ ~On(r, d)'
    BY <1>1, <1>3, <1>9 DEF In, On
  <2>2. Undisturbed(d)'
    BY <1>0, <1>3, <2>1, UndisturbedGoes
  <2>3. /\ token'[d] = token[d] /\ (d \in devices' <=> d \in devices) /\ info'[d] = info[d]
        /\ holders'[d] = holders[d]
    BY <1>0, <1>2, <1>5, <1>9 DEF SessionsInv, Types
  <2>4. ~Closer(r, d) /\ ~Closer(r, d)'
    BY <1>1, <1>3 DEF Closer
  <2> QED
    BY <1>0, <1>3, <1>4, <2>1, <2>2, <2>3, <2>4, Frame
<1>10. /\ In(r, x) /\ In(r, x)' /\ On(r, x) /\ On(r, x)' /\ Opens(req[r])
       /\ Life # 0 /\ Client # r
  BY <1>0, <1>1, <1>3, SessionsAssumption DEF In, On, Opens
<1>11. /\ Client \in holders'[x] => Client \in holders[x]
       /\ Kept(x) => Kept(x)'
       /\ x \in devices => x \in devices'
       /\ info[x] # NoInfo /\ info[x].named => info'[x] # NoInfo /\ info'[x].named
       /\ LoginDevice(r) => x \in devices'
       /\ SessionInfo(r) /\ named => info'[x] # NoInfo /\ info'[x].named
  <2>1. /\ SessionInfo(r) => info'[x] = Merged(x, named)
        /\ SessionExpire(r) => info'[x] = Lasting(x)
        /\ ~SessionInfo(r) /\ ~SessionExpire(r) => info' = info
        /\ RefreshToken(r) => token'[x] = Life
        /\ ~RefreshToken(r) => token' = token
        /\ x \in devices => x \in devices'
        /\ LoginDevice(r) => x \in devices'
        /\ Client \in holders'[x] => Client \in holders[x]
    BY <1>0, <1>1, <1>2, <1>5, <1>10 DEF SessionsInv, Types
  <2>2. info[x] # NoInfo /\ info[x].named => info'[x] # NoInfo /\ info'[x].named
    BY <1>6, <1>7, <2>1
  <2> QED
    BY <1>6, <1>10, <2>1, <2>2 DEF Kept
<1>12. Owned(x) => Owned(x)'
  <2> SUFFICES ASSUME Owned(x) PROVE Owned(x)'
    OBVIOUS
  <2>1. \A q \in Requests \ {r} : /\ IssuingFor(q, x)' <=> IssuingFor(q, x)
                                  /\ Unsaved(q, x)' <=> Unsaved(q, x)
    BY <1>3 DEF IssuingFor, Unsaved, On, Alone
  <2>2. CASE LoginDevice(r)
    <3>1. IssuingFor(r, x)' /\ Unsaved(r, x)'
      BY <1>0, <1>1, <1>2, <1>3, <1>10, <2>2 DEF IssuingFor, Unsaved
    <3> QED
      BY <1>5, <2>1, <2>2, <3>1 DEF Owned
  <2>3. CASE SessionInfo(r)
    <3>1. IssuingFor(r, x)' /\ Unsaved(r, x)'
      BY <1>0, <1>1, <1>2, <1>3, <1>10, <2>3 DEF IssuingFor, Unsaved
    <3> QED
      BY <1>5, <2>1, <2>3, <3>1 DEF Owned
  <2>6. CASE SessionExpire(r)
    <3>1. IssuingFor(r, x)' /\ (IssuingFor(r, x) <=> On(r, x))
      BY <1>0, <1>1, <1>2, <1>3, <1>10, <2>6 DEF IssuingFor
    <3>2. info'[x] # NoInfo => info'[x].ttl \in token[x] .. Life
      <4>1. info'[x] = Lasting(x) /\ token[x] \in 0 .. Life
        BY <1>0, <1>1, <1>5, <2>6 DEF SessionsInv, Types
      <4> QED
        BY <4>1, <1>7, SessionsAssumption
    <3> QED
      BY <1>5, <2>1, <2>6, <3>1, <3>2 DEF Owned
  <2>4. CASE RefreshCheck(r)
    <3>1. ~IssuingFor(r, x) /\ ~Unsaved(r, x)
      BY <1>1, <2>4 DEF IssuingFor, Unsaved
    <3>2. holders'[x] = holders[x] \ {r}
      BY <1>0, <1>1, <1>5, <2>4 DEF SessionsInv, Types
    <3> QED
      BY <1>5, <1>10, <2>1, <2>4, <3>1, <3>2 DEF Owned
  <2>5. CASE RefreshToken(r)
    <3>1. IssuingFor(r, x)' /\ Unsaved(r, x)'
      BY <1>0, <1>1, <1>2, <1>3, <1>10, <2>5 DEF IssuingFor, Unsaved
    <3>2. holders'[x] = {r} /\ token'[x] = Life
      BY <1>0, <1>1, <1>5, <2>5 DEF SessionsInv, Types
    <3> QED
      BY <1>10, <3>1, <3>2 DEF Owned
  <2> QED
    BY <2>2, <2>3, <2>4, <2>5, <2>6
<1>13. ASSUME req[r].op = "login", x \notin clash
       PROVE  /\ req'[r].at # "device" => x \in devices'
              /\ req'[r].at \in {"expire", "answer"} => info'[x] # NoInfo /\ info'[x].named
  <2>1. /\ SessionInfo(r) \/ SessionExpire(r) => x \in devices
        /\ SessionExpire(r) => info[x] # NoInfo /\ info[x].named
    BY <1>1, <1>10, <1>13 DEF FlightInv, DeviceInv, LoginInv
  <2>2. LoginDevice(r) => at = "info"
    BY <1>1, <1>2
  <2> QED
    BY <1>1, <1>2, <1>3, <1>11, <1>13, <2>1, <2>2 DEF named
<1>14. DeviceInv(x)'
  BY <1>0, <1>1, <1>3, <1>4, <1>10, <1>11, <1>12, <1>13, Opening
<1> QED
  BY <1>4, <1>9, <1>14 DEF FlightInv

\* A refresh that is refused, and a list that is answered.
LEMMA FlightAsks ==
    ASSUME FlightInv, SessionsInv', NEW r \in Requests, RefreshInvalid(r) \/ ListDone(r)
    PROVE  FlightInv'
<1>0. /\ SessionsInv /\ Shaped /\ req[r] # Idle /\ req[r] \in Work /\ Shape(req[r])
      /\ UNCHANGED <<token, devices, info, holders, access, fails>>
      /\ End(r, {}, known)
  BY DEF FlightInv, SessionsInv, Types, Shaped, RefreshInvalid, ListDone, At,
         redis, clients
<1>1. req[r].op \in {"list", "refresh"} /\ req[r].at \in {"check", "look"}
  BY <1>0 DEF RefreshInvalid, ListDone, At, Shape, Work
<1>2. req'[r] = Idle /\ Alone(r) /\ Shaped'
  BY <1>0, ShapeReplaced DEF End
<1>3. ASSUME NEW d \in Devices PROVE DeviceInv(d)'
  BY <1>0, <1>1, <1>2, UndisturbedEnds, Departs DEF IssuingFor, Unsaved
<1> QED
  BY <1>2, <1>3 DEF FlightInv

\* The client receives the tokens of a login or of a refresh.
LEMMA FlightAnswers ==
    ASSUME FlightInv, SessionsInv', NEW r \in Requests, Answer(r) PROVE FlightInv'
<1>a. PICK x \in Devices : x = Dev(r)
  BY DEF FlightInv, SessionsInv, HasDevice, OnDevice, Answer, At, Dev
<1> DEFINE state == IF req[r].op = "login" THEN [d \in Devices |-> "open"] ELSE known
<1>0. /\ SessionsInv /\ Shaped /\ req[r] # Idle /\ req[r] \in Work /\ Shape(req[r])
      /\ UNCHANGED <<token, devices, info, fails>>
      /\ End(r, {x}, state) /\ req[r].at = "answer" /\ req[r].dev = x
      /\ holders' = [holders EXCEPT ![x] = IF r \in holders[x] THEN (@ \ {r}) \cup {Client} ELSE @]
  BY <1>a DEF FlightInv, SessionsInv, Types, Shaped, Answer, At, redis, Dev, Has
<1>1. x \in Devices /\ req[r].op \in {"login", "refresh"} /\ req[r].touch = {x} /\ Client # r
  BY <1>0, SessionsAssumption DEF Shape, Work, SessionsInv, HasDevice, OnDevice
<1>2. state[x] = IF req[r].op = "login" THEN "open" ELSE known[x]
  BY <1>1
<1> HIDE DEF state
<1>3. req'[r] = Idle /\ Alone(r) /\ Shaped'
  BY <1>0, ShapeReplaced DEF End
<1>4. ASSUME NEW d \in Devices \ {x} PROVE DeviceInv(d)'
  <2>1. ~In(r, d) /\ ~In(r, d)' /\ ~On(r, d)' /\ ~Closer(r, d) /\ ~Closer(r, d)'
    BY <1>0, <1>1, <1>3, <1>4 DEF In, On, Closer
  <2>2. holders'[d] = holders[d]
    BY <1>0, <1>4 DEF SessionsInv, Types
  <2>3. Undisturbed(d)' /\ known'[d] = known[d] /\ (d \in clash' <=> d \in clash)
    BY <1>0, <1>4, <2>1, UndisturbedEnds
  <2> QED
    BY <1>0, <1>3, <2>1, <2>2, <2>3, Frame
<1>5. /\ Undisturbed(x)' /\ (x \in clash' => x \in clash)
      /\ x \in clash /\ x \notin clash' => \A q \in Requests \ {r} : ~In(q, x)
      /\ x \in clash => known'[x] = "unknown"
      /\ x \notin clash => known'[x] = IF req[r].op = "login" THEN "open" ELSE known[x]
  BY <1>0, <1>1, <1>2, UndisturbedEnds
<1>6. ASSUME x \in clash PROVE DeviceInv(x)'
  BY <1>0, <1>1, <1>3, <1>5, <1>6, Leaving, NothingPromised
<1>7. ASSUME x \notin clash PROVE DeviceInv(x)'
  <2>1. In(r, x) /\ On(r, x) /\ Opens(req[r])
    BY <1>0, <1>1 DEF In, On, Opens
  <2>2. ~Shutting(x) /\ (req[r].op = "login" => ~Serves("list", x))
    BY <1>7, <2>1, Exclusive
  <2>3. \A q \in Requests : /\ q # r => req'[q] = req[q] /\ (On(q, x)' <=> On(q, x))
                                        /\ (In(q, x)' <=> In(q, x))
                            /\ ~In(r, x)' /\ ~On(r, x)'
    BY <1>3 DEF In, On, Alone
  <2>4. ~Shutting(x)'
    BY <2>2, <2>3 DEF Shutting, Serves
  <2>5. ASSUME NEW q \in Requests, On(q, x)', req'[q].op # "list"
        PROVE  q # r /\ On(q, x) /\ req'[q] = req[q] /\ In(q, x)
    BY <1>0, <2>3, <2>5, OnIsIn
  <2>6. Owned(x) => Owned(x)'
    <3>1. holders'[x] = IF r \in holders[x] THEN (holders[x] \ {r}) \cup {Client} ELSE holders[x]
      BY <1>0, <1>1 DEF SessionsInv, Types
    <3>2. \A q \in Requests \ {r} : /\ IssuingFor(q, x) => IssuingFor(q, x)'
                                    /\ Unsaved(q, x) => Unsaved(q, x)'
      BY <2>3 DEF IssuingFor, Unsaved
    <3>3. ~Unsaved(r, x)
      BY <1>0 DEF Unsaved
    <3> QED
      BY <1>0, <1>1, <3>1, <3>2, <3>3 DEF Owned
  <2>7. Kept(x)' <=> Kept(x)
    BY <1>0 DEF Kept
  <2>8. req[r].op = "login" => Owned(x) /\ Kept(x)
    BY <1>0, <1>7, <2>1 DEF FlightInv, DeviceInv, LoginInv, Owned, Kept
  <2>9. known[x] = "open" => Owned(x) /\ Kept(x) /\ NotMissed(x)
    BY <2>2 DEF FlightInv, DeviceInv, OpenInv
  <2>10. known[x] = "closed" => req[r].op = "login"
    BY <1>1, <2>1 DEF FlightInv, DeviceInv, ClosedInv, Serves
  <2>11. req[r].op = "login" => NotMissed(x)'
    <3>1. ASSUME req[r].op = "login", NEW q \in Requests, In(q, x)', Lists(req'[q]) PROVE FALSE
      BY <2>2, <2>3, <3>1 DEF Lists, Serves, Shutting
    <3> QED
      BY <3>1 DEF NotMissed
  <2>12. NotMissed(x) => NotMissed(x)'
    BY <2>3 DEF NotMissed, Lists
  <2>13. ClosingInv(x)'
    <3>1. ASSUME NEW q \in Requests, On(q, x)', Closes(req'[q]) PROVE FALSE
      BY <2>2, <2>5, <3>1 DEF Closes, Shutting, Serves
    <3> QED
      BY <3>1 DEF ClosingInv
  <2>14. LoginInv(x)'
    <3> SUFFICES ASSUME NEW q \in Requests, On(q, x)', req'[q].op = "login"
                 PROVE  /\ Owned(x)'
                        /\ req'[q].at # "device" => x \in devices'
                        /\ req'[q].at \in {"expire", "answer"} => info'[x] # NoInfo /\ info'[x].named
      BY DEF LoginInv
    <3>1. On(q, x) /\ req'[q] = req[q]
      BY <2>5
    <3> QED
      BY <1>0, <1>7, <2>6, <3>1 DEF FlightInv, DeviceInv, LoginInv
  <2>15. ClosedInv(x)'
    BY <1>5, <1>7, <2>10 DEF ClosedInv
  <2>16. ShutInv(x)'
    BY <2>4 DEF ShutInv, Shutting
  <2>17. OpenInv(x)'
    BY <1>5, <1>7, <2>6, <2>7, <2>8, <2>9, <2>11, <2>12 DEF OpenInv
  <2> QED
    BY <1>5, <2>13, <2>14, <2>15, <2>16, <2>17 DEF DeviceInv
<1>8. DeviceInv(x)'
  BY <1>6, <1>7
<1> QED
  BY <1>3, <1>4, <1>8 DEF FlightInv

\* A request that closes sessions ends: it has closed them, or it raises.
LEMMA FlightEnds ==
    ASSUME FlightInv, SessionsInv', NEW r \in Requests,
           CloseDone(r) \/ \E s \in Session : CloseRaises(r, s)
    PROVE  FlightInv'
<1>0. /\ SessionsInv /\ Shaped /\ req[r] # Idle /\ req[r] \in Work /\ Shape(req[r])
      /\ UNCHANGED <<token, devices, info, holders, access, fails>> /\ Closing(r)
  BY DEF FlightInv, SessionsInv, Types, Shaped, CloseDone, CloseRaises, Closing, At,
         redis, clients
<1>1. /\ Closes(req[r]) /\ req[r].at \in {"closing", "look"}
      /\ req[r].at = "look" => req[r].todo = {} /\ req[r].op = "closeall"
      /\ req[r].op = "closeall" => req[r].touch = Devices
  BY <1>0 DEF Closing, At, Shape, Work, Closes
<1>2. PICK state :
         /\ End(r, req[r].touch, state)
         /\ \A d \in Devices : state[d] # "unknown" =>
              /\ state[d] = "closed" /\ req[r].found = {}
              /\ req[r].op = "logout" => d = req[r].dev
              /\ req[r].op # "logout" => known[d] # "unknown"
  <2>1. CASE CloseDone(r)
    <3>1. \A d \in Devices : Closed(r)[d] # "unknown" =>
              /\ Closed(r)[d] = "closed"
              /\ req[r].op = "logout" => d = req[r].dev
              /\ req[r].op # "logout" => known[d] # "unknown"
      BY DEF Closed, Dev
    <3> QED
      BY <2>1, <3>1 DEF CloseDone
  <2>2. CASE \E s \in Session : CloseRaises(r, s)
    <3> DEFINE state == [d \in Devices |-> "unknown"]
    <3>1. End(r, req[r].touch, state)
      BY <2>2 DEF CloseRaises
    <3>2. \A d \in Devices : state[d] = "unknown"
      OBVIOUS
    <3> HIDE DEF state
    <3> QED
      BY <3>1, <3>2
  <2> QED
    BY <2>1, <2>2
<1>3. req'[r] = Idle /\ Alone(r) /\ Shaped'
  BY <1>0, <1>2, ShapeReplaced DEF End
<1>4. ASSUME NEW d \in Devices, ~In(r, d) PROVE DeviceInv(d)'
  <2>1. ~In(r, d)' /\ ~On(r, d)' /\ ~Closer(r, d) /\ ~Closer(r, d)' /\ d \notin req[r].touch
    BY <1>0, <1>1, <1>3, <1>4 DEF In, On, Closer
  <2>2. Undisturbed(d)' /\ known'[d] = known[d] /\ (d \in clash' <=> d \in clash)
    BY <1>0, <1>2, <1>4, <2>1, UndisturbedEnds
  <2> QED
    BY <1>0, <1>3, <1>4, <2>1, <2>2, Frame
<1>5. ASSUME NEW d \in Devices, In(r, d) PROVE DeviceInv(d)'
  <2>1. d \in req[r].touch
    BY <1>5 DEF In
  <2>2. /\ Undisturbed(d)' /\ (d \in clash' => d \in clash)
        /\ d \in clash /\ d \notin clash' => \A q \in Requests \ {r} : ~In(q, d)
        /\ d \in clash => known'[d] = "unknown"
        /\ d \notin clash => known'[d] = state[d]
    BY <1>0, <1>2, <2>1, UndisturbedEnds
  <2>3. ClosingInv(d)' /\ LoginInv(d)'
    BY <1>0, <1>1, <1>3, <1>5, <2>2, Leaving
  <2>4. CASE known'[d] = "unknown"
    BY <2>2, <2>3, <2>4, NothingPromised
  <2>5. CASE known'[d] # "unknown"
    <3>1. /\ d \notin clash /\ known'[d] = "closed" /\ req[r].found = {}
          /\ req[r].op = "logout" => d = req[r].dev
          /\ req[r].op # "logout" => known[d] # "unknown"
      BY <1>2, <2>2, <2>5
    <3>2. ~Serves("refresh", d) /\ ~Serves("login", d)
      BY <1>1, <1>5, <3>1, Exclusive
    <3>3. \A q \in Requests : /\ q # r => req'[q] = req[q] /\ (On(q, d)' <=> On(q, d))
                                          /\ (In(q, d)' <=> In(q, d))
                              /\ ~In(r, d)' /\ ~On(r, d)'
      BY <1>3 DEF In, On, Alone
    <3>4. ~Serves("refresh", d)'
      BY <3>2, <3>3 DEF Serves
    <3>5. Serves("logout", d)' \/ Gone(d) \/ Midway(d)
      <4>1. CASE req[r].op = "logout"
        <5>1. On(r, d) /\ req[r].at = "closing"
          BY <1>0, <1>1, <3>1, <4>1 DEF On
        <5> QED
          BY <1>1, <3>1, <4>1, <5>1 DEF FlightInv, DeviceInv, ClosingInv
      <4>2. CASE req[r].op = "closeall" /\ Serves("logout", d)
        BY <3>3, <4>2 DEF Serves
      <4>3. CASE req[r].op = "closeall" /\ ~Serves("logout", d) /\ known[d] = "open"
        <5>1. Serves("closeall", d) /\ ~Listed(d)
          BY <1>0, <1>1, <1>5, <3>1, <4>3 DEF Serves, Listed
        <5> QED
          BY <4>3, <5>1 DEF FlightInv, DeviceInv, ShutInv
      <4>4. CASE req[r].op = "closeall" /\ ~Serves("logout", d) /\ known[d] = "closed"
        BY <3>2, <4>4 DEF FlightInv, DeviceInv, ClosedInv
      <4>5. known[d] \in {"open", "closed", "unknown"}
        BY <1>0 DEF SessionsInv, Types
      <4> QED
        BY <1>1, <3>1, <4>1, <4>2, <4>3, <4>4, <4>5 DEF Closes
    <3>6. Midway(d) => Midway(d)' /\ Shutting(d)'
      <4>1. ASSUME NEW q \in Requests, Closer(q, d) PROVE Closer(q, d)' /\ In(q, d)' /\ q # r
        <5>1. q # r
          BY <1>1, <4>1 DEF Closer
        <5>2. In(q, d)
          BY <1>0, <4>1, OnIsIn DEF Closer
        <5> QED
          BY <3>3, <4>1, <5>1, <5>2 DEF Closer
      <4> QED
        BY <3>3, <4>1 DEF Midway, Shutting, Serves, Closer
    <3>7. (Gone(d)' <=> Gone(d)) /\ (Gone(d) => Client \notin holders'[d])
      BY <1>0 DEF Gone, SessionsInv, Types
    <3>8. ClosedInv(d)'
      BY <3>4, <3>5, <3>6, <3>7 DEF ClosedInv, Shutting
    <3> QED
      BY <2>2, <2>3, <3>1, <3>8 DEF DeviceInv, ShutInv, OpenInv
  <2> QED
    BY <2>4, <2>5
<1> QED
  BY <1>3, <1>4, <1>5 DEF FlightInv

-----------------------------------------------------------------------------
\* A request dies.
LEMMA FlightFails ==
    ASSUME FlightInv, SessionsInv', NEW r \in Requests, Fail(r) PROVE FlightInv'
<1> DEFINE hurt == IF req[r].op = "list" THEN {} ELSE req[r].touch
           open == IF Opens(req[r]) THEN hurt ELSE {}
<1>0. /\ SessionsInv /\ Shaped /\ req[r] # Idle /\ req[r] \in Work /\ Shape(req[r])
      /\ UNCHANGED <<token, devices, info, access>> /\ req' = [req EXCEPT ![r] = Idle]
      /\ \A d \in Devices : /\ holders'[d] = holders[d] \ {r}
                            /\ known'[d] = IF d \in hurt THEN "unknown" ELSE known[d]
      /\ clash' = {d \in clash \cup open : InFlight(d) # {r}}
  BY DEF FlightInv, SessionsInv, Types, Shaped, Fail, redis
<1>1. req[r].op \in {"login", "refresh", "logout", "closeall", "list"} /\ Client # r
  BY <1>0, SessionsAssumption DEF Work
<1>2. req'[r] = Idle /\ Alone(r) /\ Shaped'
  BY <1>0, ShapeReplaced
<1>3. ASSUME NEW d \in Devices
      PROVE  /\ d \in hurt <=> In(r, d) /\ req[r].op # "list"
             /\ d \in open <=> In(r, d) /\ Opens(req[r])
             /\ InFlight(d) = {r} => In(r, d) /\ \A q \in Requests \ {r} : ~In(q, d)
  BY <1>0 DEF In, InFlight, Opens
<1> HIDE DEF hurt, open
<1>4. ASSUME NEW d \in Devices
      PROVE  /\ \A q \in Requests : In(q, d)' => q # r /\ In(q, d) /\ req'[q] = req[q]
             /\ d \in clash => known[d] = "unknown"
             /\ d \in clash' => d \in clash \/ d \in open
             /\ d \notin clash' => \/ d \notin clash /\ d \notin open
                                   \/ \A q \in Requests \ {r} : ~In(q, d)
  <2>1. \A q \in Requests : In(q, d)' => q # r /\ In(q, d) /\ req'[q] = req[q]
    BY <1>2 DEF In, Alone
  <2>2. d \in clash => known[d] = "unknown"
    BY DEF FlightInv, DeviceInv, Undisturbed
  <2> QED
    BY <1>0, <1>3, <2>1, <2>2
<1>5. ASSUME NEW d \in Devices PROVE Undisturbed(d)'
  <2>1. d \in clash' => known'[d] = "unknown"
    BY <1>0, <1>3, <1>4 DEF Opens
  <2>2. ASSUME d \notin clash', NEW p \in Requests, NEW q \in Requests, p # q, In(p, d)', In(q, d)'
        PROVE  ~Conflict(req'[p], req'[q])
    BY <1>4, <2>2 DEF FlightInv, DeviceInv, Undisturbed
  <2> QED
    BY <2>1, <2>2 DEF Undisturbed
<1>6. ASSUME NEW d \in Devices, ~In(r, d) PROVE DeviceInv(d)'
  <2>1. ~In(r, d)' /\ ~On(r, d)' /\ ~Closer(r, d)'
    BY <1>2 DEF In, On, Closer
  <2>2. ~Closer(r, d)
    BY <1>0, <1>6, OnIsIn DEF Closer
  <2>3. known'[d] = known[d] /\ (d \in clash' <=> d \in clash)
    BY <1>0, <1>3, <1>6
  <2> QED
    BY <1>0, <1>2, <1>5, <1>6, <2>1, <2>2, <2>3, Frame
<1>7. ASSUME NEW d \in Devices, In(r, d), req[r].op = "list" PROVE DeviceInv(d)'
  <2>1. known'[d] = known[d] /\ d \notin open
    BY <1>0, <1>3, <1>7 DEF Opens
  <2>2. ~IssuingFor(r, d) /\ ~Unsaved(r, d)
    BY <1>0, <1>7, IssuersOpen DEF Opens
  <2> QED
    BY <1>0, <1>2, <1>4, <1>5, <1>7, <2>1, <2>2, Departs
<1>8. ASSUME NEW d \in Devices, In(r, d), req[r].op # "list" PROVE DeviceInv(d)'
  <2>1. known'[d] = "unknown"
    BY <1>0, <1>3, <1>8
  <2>2. d \notin clash' => \/ d \notin clash /\ Closes(req[r]) /\ In(r, d)
                           \/ \A q \in Requests \ {r} : ~In(q, d)
    BY <1>1, <1>3, <1>4, <1>8 DEF Opens, Closes
  <2>3. ClosingInv(d)' /\ LoginInv(d)'
    BY <1>0, <1>2, <2>2, Leaving
  <2> QED
    BY <1>5, <2>1, <2>3, NothingPromised
<1> QED
  BY <1>2, <1>6, <1>7, <1>8 DEF FlightInv

\* An hour passes, while nobody issues a token.
LEMMA FlightTicks == ASSUME FlightInv, SessionsInv', Tick PROVE FlightInv'
<1> DEFINE late == {d \in Devices : token[d] = 1}
           stale == {d \in Devices : info[d] # NoInfo /\ info[d].ttl = 1}
<1>0. /\ SessionsInv /\ Shaped /\ UNCHANGED <<devices, req, fails, clash>>
      /\ \A r \in Requests : req[r] # Idle => req[r].at \notin {"device", "info", "expire", "answer"}
  BY DEF FlightInv, Tick, Issuing, At
<1>1. ASSUME NEW d \in Devices
      PROVE  /\ token'[d] = IF token[d] = 0 THEN 0 ELSE token[d] - 1
             /\ info'[d] = IF info[d] = NoInfo \/ d \in stale THEN NoInfo
                           ELSE [info[d] EXCEPT !.ttl = IF @ = NoTtl THEN @ ELSE @ - 1]
             /\ holders'[d] = IF d \in late THEN {} ELSE holders[d]
             /\ known'[d] = IF d \in late \cup stale THEN "unknown" ELSE known[d]
  BY DEF Tick
<1>2. \A d \in Devices : (d \in late <=> token[d] = 1)
                         /\ (d \in stale <=> info[d] # NoInfo /\ info[d].ttl = 1)
  OBVIOUS
<1> HIDE DEF late, stale
<1>3. Shaped'
  BY <1>0 DEF Shaped
<1>4. ASSUME NEW d \in Devices PROVE DeviceInv(d)'
  <2>0. DeviceInv(d) /\ token[d] \in Nat
    BY <1>0 DEF FlightInv, SessionsInv, Types
  <2>1. \A r \in Requests : (In(r, d)' <=> In(r, d)) /\ (On(r, d)' <=> On(r, d)) /\ req'[r] = req[r]
    BY <1>0 DEF In, On
  <2>2. (\A op : Serves(op, d)' <=> Serves(op, d)) /\ (Midway(d)' <=> Midway(d))
    BY <1>0 DEF Serves, In, Midway, Closer, On
  <2>3. Shutting(d)' <=> Shutting(d)
    BY <2>2 DEF Shutting
  <2>4. (NotMissed(d)' <=> NotMissed(d)) /\ (Listed(d)' <=> Listed(d))
    BY <1>0 DEF NotMissed, Listed, In
  <2>5. /\ token[d] = 0 => token'[d] = 0
        /\ info[d] = NoInfo => info'[d] = NoInfo
        /\ Gone(d) => Gone(d)'
    BY <1>0, <1>1 DEF Gone
  <2>6. Undisturbed(d)'
    <3>1. d \in clash' => known'[d] = "unknown"
      BY <1>0, <1>1, <2>0 DEF DeviceInv, Undisturbed
    <3>2. ASSUME d \notin clash', NEW p \in Requests, NEW q \in Requests, p # q, In(p, d)', In(q, d)'
          PROVE  ~Conflict(req'[p], req'[q])
      BY <1>0, <2>0, <2>1, <3>2 DEF DeviceInv, Undisturbed
    <3> QED
      BY <3>1, <3>2 DEF Undisturbed
  <2>7. ClosingInv(d)'
    <3> SUFFICES ASSUME d \notin clash', NEW q \in Requests, On(q, d)', Closes(req'[q])
                 PROVE  /\ req'[q].at = "untoken" => info'[d] = NoInfo
                        /\ req'[q].at = "undevice" => info'[d] = NoInfo /\ token'[d] = 0
                        /\ req'[q].op = "logout" /\ req'[q].at = "closing" /\ req'[q].found = {}
                               => Gone(d)'
      BY DEF ClosingInv
    <3>1. d \notin clash /\ On(q, d) /\ Closes(req[q])
      BY <1>0, <2>1
    <3> QED
      BY <2>0, <2>1, <2>5, <3>1 DEF DeviceInv, ClosingInv
  <2>8. LoginInv(d)'
    <3>1. ASSUME NEW q \in Requests, On(q, d)', req'[q].op = "login" PROVE FALSE
      BY <1>0, <2>1, <3>1 DEF On, Shaped, Shape
    <3> QED
      BY <3>1 DEF LoginInv
  <2>9. CASE d \in late \cup stale
    BY <1>1, <2>6, <2>7, <2>8, <2>9, NothingPromised
  <2>10. CASE d \notin late \cup stale
    <3>1. /\ token'[d] = IF token[d] = 0 THEN 0 ELSE token[d] - 1
          /\ token[d] # 1 /\ holders'[d] = holders[d] /\ known'[d] = known[d]
          /\ info[d] # NoInfo => info'[d] = [info[d] EXCEPT !.ttl = IF @ = NoTtl THEN @ ELSE @ - 1]
      BY <1>1, <1>2, <2>10
    <3>2. token[d] # 0 => token'[d] # 0 /\ token'[d] = token[d] - 1
      BY <2>0, <3>1
    <3>3. info[d] # NoInfo => /\ info'[d] # NoInfo /\ info'[d].named = info[d].named
                              /\ info[d].ttl \in 1 .. NoTtl
                              /\ info[d].ttl \in 1 .. Life => info'[d].ttl = info[d].ttl - 1
      <4> SUFFICES ASSUME info[d] # NoInfo
                   PROVE  /\ info'[d] # NoInfo /\ info'[d].named = info[d].named
                          /\ info[d].ttl \in 1 .. NoTtl
                          /\ info[d].ttl \in 1 .. Life => info'[d].ttl = info[d].ttl - 1
        OBVIOUS
      <4>1. info[d] \in Info /\ info[d].ttl # 1
        BY <1>0, <1>2, <2>10 DEF SessionsInv, Types
      <4> DEFINE left == IF info[d].ttl = NoTtl THEN info[d].ttl ELSE info[d].ttl - 1
      <4>2. left \in 1 .. NoTtl /\ (info[d].ttl \in 1 .. Life => left = info[d].ttl - 1)
        BY <4>1, SessionsAssumption DEF Info, NoTtl
      <4>3. info'[d] = [info[d] EXCEPT !.ttl = left]
        BY <3>1
      <4> HIDE DEF left
      <4>4. info'[d] \in Info /\ info'[d].ttl = left /\ info'[d].named = info[d].named
        BY <4>1, <4>2, <4>3 DEF Info
      <4> QED
        BY <4>1, <4>2, <4>4, SessionsAssumption DEF Info
    <3>4. Kept(d) => Kept(d)'
      BY <1>0, <3>2, <3>3 DEF Kept
    <3>5. \A r \in Requests : ~IssuingFor(r, d) /\ ~Unsaved(r, d)
      BY <1>0 DEF IssuingFor, Unsaved, On
    <3>6. Owned(d) => Owned(d)'
      <4> SUFFICES ASSUME Owned(d) PROVE Owned(d)'
        OBVIOUS
      <4>1. /\ token[d] # 0 /\ Client \in holders[d]
            /\ info[d] # NoInfo => info[d].ttl \in token[d] .. Life
        BY <3>5 DEF Owned
      <4>2. info'[d] # NoInfo => info'[d].ttl \in token'[d] .. Life
        BY <2>0, <2>5, <3>2, <3>3, <4>1, SessionsAssumption
      <4> QED
        BY <3>1, <3>2, <4>1, <4>2 DEF Owned
    <3>7. ClosedInv(d)'
      BY <2>0, <2>2, <2>3, <2>5, <3>1 DEF DeviceInv, ClosedInv
    <3>8. ShutInv(d)'
      BY <2>0, <2>2, <2>4, <2>5, <3>1, <3>4 DEF DeviceInv, ShutInv
    <3>9. OpenInv(d)'
      BY <2>0, <2>3, <2>4, <3>1, <3>4, <3>6 DEF DeviceInv, OpenInv
    <3> QED
      BY <2>6, <2>7, <2>8, <3>7, <3>8, <3>9 DEF DeviceInv
  <2> QED
    BY <2>9, <2>10
<1> QED
  BY <1>3, <1>4 DEF FlightInv

-----------------------------------------------------------------------------
\* A request comes.
LEMMA FlightLogins ==
    ASSUME FlightInv, SessionsInv', NEW r \in Requests, NEW x \in Devices,
           Login(r, x) \/ Refresh(r, x)
    PROVE  FlightInv'
<1>1. PICK j \in Work :
         /\ Begin(r, j) /\ j.dev = x /\ j.touch = {x} /\ Shape(j)
         /\ \/ Login(r, x) /\ j.op = "login" /\ j.at = "device"
            \/ Refresh(r, x) /\ j.op = "refresh" /\ j.at = "check"
  <2>1. CASE Login(r, x)
    <3> DEFINE j == NewWork("login", "device", x)
    <3>1. j \in Work /\ Begin(r, j)
      BY <2>1, NewWorkTyped DEF Login, Ats
    <3>2. j.dev = x /\ j.touch = {x} /\ j.op = "login" /\ j.at = "device"
      BY DEF NewWork
    <3> HIDE DEF j
    <3> QED
      BY <2>1, <3>1, <3>2 DEF Shape
  <2>2. CASE Refresh(r, x)
    <3> DEFINE j == NewWork("refresh", "check", x)
    <3>1. j \in Work /\ Begin(r, j)
      BY <2>2, NewWorkTyped DEF Refresh, Ats
    <3>2. j.dev = x /\ j.touch = {x} /\ j.op = "refresh" /\ j.at = "check"
      BY DEF NewWork
    <3> HIDE DEF j
    <3> QED
      BY <2>2, <3>1, <3>2 DEF Shape
  <2> QED
    BY <2>1, <2>2
<1>2. /\ SessionsInv /\ Shaped /\ req[r] = Idle /\ Client # r /\ Life # 0 /\ Opens(j)
      /\ UNCHANGED <<devices, info>>
      /\ Login(r, x) => token' = [token EXCEPT ![x] = Life] /\ holders' = [holders EXCEPT ![x] = {r}]
      /\ Refresh(r, x) => /\ Client \in holders[x] /\ token' = token
                          /\ holders' = [holders EXCEPT ![x] = @ \cup {r}]
  BY <1>1, SessionsAssumption DEF FlightInv, Login, Refresh, Begin, Tokenize, redis, Opens
<1>3. /\ \A d \in Devices \ {x} : token'[d] = token[d] /\ holders'[d] = holders[d]
      /\ Login(r, x) => token'[x] = Life /\ holders'[x] = {r}
      /\ Refresh(r, x) => token'[x] = token[x] /\ holders'[x] = holders[x] \cup {r}
  BY <1>1, <1>2 DEF SessionsInv, Types
<1>4. req'[r] = j /\ j # Idle /\ Alone(r)
  BY <1>1, UndisturbedBegins
<1>5. Shaped'
  BY <1>1, <1>2, <1>4 DEF Shaped, Alone
<1>6. ASSUME NEW d \in Devices \ {x} PROVE DeviceInv(d)'
  <2>1. ~In(r, d) /\ ~In(r, d)' /\ ~On(r, d)' /\ ~Closer(r, d) /\ ~Closer(r, d)'
    BY <1>1, <1>2, <1>4, <1>6 DEF In, On, Closer
  <2>2. Undisturbed(d)' /\ known'[d] = known[d] /\ (d \in clash' <=> d \in clash)
    BY <1>1, <1>6, UndisturbedBegins
  <2> QED
    BY <1>2, <1>3, <1>4, <1>5, <1>6, <2>1, <2>2, Frame
<1>7. /\ Undisturbed(x)'
      /\ x \in clash' => known'[x] = "unknown"
      /\ x \notin clash' => /\ x \notin clash /\ known'[x] = known[x]
                            /\ \A q \in Requests : In(q, x) => ~Conflict(j, req[q])
  BY <1>1, UndisturbedBegins
<1>8. ASSUME x \in clash' PROVE DeviceInv(x)'
  <2>1. ClosingInv(x)' /\ LoginInv(x)'
    BY <1>8 DEF ClosingInv, LoginInv
  <2> QED
    BY <1>7, <1>8, <2>1, NothingPromised
<1>9. ASSUME x \notin clash' PROVE DeviceInv(x)'
  <2>1. ~Shutting(x) /\ (j.op = "login" => ~Serves("list", x))
    BY <1>1, <1>2, <1>7, <1>9 DEF Shutting, Serves, Conflict, Opens, Closes
  <2>2. \A q \in Requests : q # r => req'[q] = req[q] /\ (On(q, x)' <=> On(q, x))
                                     /\ (In(q, x)' <=> In(q, x))
    BY <1>4 DEF In, On, Alone
  <2>3. In(r, x)' /\ On(r, x)'
    BY <1>1, <1>4 DEF In, On
  <2>4. ~Shutting(x)'
    BY <1>1, <1>4, <2>1, <2>2 DEF Shutting, Serves
  <2>5. ASSUME NEW q \in Requests, q # r, On(q, x)', req'[q].op # "list"
        PROVE  On(q, x) /\ req'[q] = req[q] /\ In(q, x)
    BY <1>2, <2>2, <2>5, OnIsIn
  <2>6. (j.op = "login" => Owned(x)') /\ (Owned(x) => Owned(x)')
    <3>1. j.op = "login" => IssuingFor(r, x)' /\ Unsaved(r, x)'
      BY <1>1, <1>4, <2>3 DEF IssuingFor, Unsaved
    <3>2. j.op = "login" => Owned(x)'
      BY <1>1, <1>2, <1>3, <3>1 DEF Owned
    <3>3. \A q \in Requests : /\ IssuingFor(q, x) => q # r /\ IssuingFor(q, x)'
                              /\ Unsaved(q, x) => q # r /\ Unsaved(q, x)'
      BY <1>2, <2>2 DEF IssuingFor, Unsaved, On
    <3>4. j.op = "refresh" /\ Owned(x) => Owned(x)'
      BY <1>1, <1>2, <1>3, <3>3 DEF Owned
    <3> QED
      BY <1>1, <3>2, <3>4
  <2>7. Kept(x) => Kept(x)'
    BY <1>1, <1>2, <1>3 DEF Kept
  <2>8. NotMissed(x) => NotMissed(x)'
    <3> SUFFICES ASSUME NotMissed(x), NEW q \in Requests, In(q, x)', Lists(req'[q])
                 PROVE  x \notin req'[q].gone /\ x \notin req'[q].lost
      BY DEF NotMissed
    <3>1. q # r
      BY <1>1, <1>4 DEF Lists
    <3> QED
      BY <2>2, <3>1 DEF NotMissed
  <2>9. ClosingInv(x)'
    <3>1. ASSUME NEW q \in Requests, On(q, x)', Closes(req'[q]) PROVE FALSE
      <4>1. q # r
        BY <1>1, <1>4, <3>1 DEF Closes
      <4> QED
        BY <2>1, <2>5, <3>1, <4>1 DEF Closes, Shutting, Serves
    <3> QED
      BY <3>1 DEF ClosingInv
  <2>10. LoginInv(x)'
    <3> SUFFICES ASSUME NEW q \in Requests, On(q, x)', req'[q].op = "login"
                 PROVE  /\ Owned(x)'
                        /\ req'[q].at # "device" => x \in devices'
                        /\ req'[q].at \in {"expire", "answer"} => info'[x] # NoInfo /\ info'[x].named
      BY DEF LoginInv
    <3>1. CASE q = r
      BY <1>1, <1>4, <2>6, <3>1
    <3>2. CASE q # r
      BY <1>2, <1>7, <1>9, <2>5, <2>6, <3>2 DEF FlightInv, DeviceInv, LoginInv
    <3> QED
      BY <3>1, <3>2
  <2>11. ClosedInv(x)'
    <3> SUFFICES ASSUME known[x] = "closed"
                 PROVE  /\ ~Serves("refresh", x)'
                        /\ Client \notin holders'[x]
                        /\ Serves("login", x)'
      BY <1>7, <1>9 DEF ClosedInv
    <3>1. ~Serves("refresh", x) /\ Client \notin holders[x]
      BY <2>1 DEF FlightInv, DeviceInv, ClosedInv
    <3>2. j.op = "login"
      BY <1>1, <1>2, <3>1
    <3> QED
      BY <1>1, <1>2, <1>3, <1>4, <2>2, <2>3, <3>1, <3>2 DEF Serves
  <2>12. ShutInv(x)'
    BY <2>4 DEF ShutInv, Shutting
  <2>13. OpenInv(x)'
    BY <1>1, <1>7, <1>9, <2>1, <2>6, <2>7, <2>8 DEF FlightInv, DeviceInv, OpenInv
  <2> QED
    BY <1>7, <2>9, <2>10, <2>11, <2>12, <2>13 DEF DeviceInv
<1>10. DeviceInv(x)'
  BY <1>8, <1>9
<1> QED
  BY <1>5, <1>6, <1>10 DEF FlightInv

\* A logout comes, and takes the token of its device.
LEMMA FlightLogouts ==
    ASSUME FlightInv, SessionsInv', NEW r \in Requests, NEW x \in Devices, NEW u \in Devices,
           Logout(r, x, u)
    PROVE  FlightInv'
<1>1. PICK j \in Work :
         /\ Begin(r, j) /\ j.dev = x /\ j.touch = {x, u} /\ j.op = "logout" /\ j.at = "remove"
         /\ Shape(j)
  <2> DEFINE n == NewWork("logout", "remove", x)
             here == {[dev |-> u, named |-> TRUE]}
             j == [n EXCEPT !.touch = {x, u}, !.found = here]
  <2>1. n \in Work /\ n.dev = x /\ n.op = "logout" /\ n.at = "remove"
    BY DEF NewWork, Work
  <2>2. here \in SUBSET Session /\ {x, u} \in SUBSET Devices /\ here # {} /\ \A s \in here : s.dev = u
    BY DEF Session
  <2>3. Begin(r, j)
    BY DEF Logout
  <2> HIDE DEF n, here
  <2>4. /\ j \in Work /\ j.dev = x /\ j.touch = {x, u} /\ j.op = "logout" /\ j.at = "remove"
        /\ j.found = here
    BY <2>1, <2>2 DEF Work
  <2> HIDE DEF j
  <2> QED
    BY <2>2, <2>3, <2>4 DEF Shape
<1>2. /\ SessionsInv /\ Shaped /\ req[r] = Idle /\ Closes(j)
      /\ UNCHANGED <<devices, info>>
      /\ token' = [token EXCEPT ![x] = 0] /\ holders' = [holders EXCEPT ![x] = {}]
  BY <1>1 DEF FlightInv, Logout, Begin, Untoken, Closes
<1>3. /\ \A d \in Devices \ {x} : token'[d] = token[d] /\ holders'[d] = holders[d]
      /\ token'[x] = 0
  BY <1>2 DEF SessionsInv, Types
<1>4. req'[r] = j /\ j # Idle /\ Alone(r)
  BY <1>1, UndisturbedBegins
<1>5. Shaped'
  BY <1>1, <1>2, <1>4 DEF Shaped, Alone
<1>6. ASSUME NEW d \in Devices \ {x, u} PROVE DeviceInv(d)'
  <2>1. ~In(r, d) /\ ~In(r, d)' /\ ~On(r, d)' /\ ~Closer(r, d) /\ ~Closer(r, d)'
    BY <1>1, <1>2, <1>4, <1>6 DEF In, On, Closer
  <2>2. Undisturbed(d)' /\ known'[d] = known[d] /\ (d \in clash' <=> d \in clash)
    BY <1>1, <1>6, UndisturbedBegins
  <2> QED
    BY <1>2, <1>3, <1>4, <1>5, <1>6, <2>1, <2>2, Frame
<1>7. ASSUME NEW d \in {x, u} PROVE DeviceInv(d)'
  <2>1. /\ Undisturbed(d)'
        /\ d \in clash' => known'[d] = "unknown"
        /\ d \notin clash' => /\ d \notin clash /\ known'[d] = known[d]
                              /\ \A q \in Requests : In(q, d) => ~Conflict(j, req[q])
    BY <1>1, UndisturbedBegins
  <2>2. \A q \in Requests : q # r => req'[q] = req[q] /\ (On(q, d)' <=> On(q, d))
                                     /\ (In(q, d)' <=> In(q, d))
    BY <1>4 DEF In, On, Alone
  <2>3. Serves("logout", d)' /\ Shutting(d)'
    BY <1>1, <1>4 DEF Serves, Shutting, In
  <2>4. d \notin clash' => ~Serves("login", d) /\ ~Serves("refresh", d)
    BY <1>2, <2>1 DEF Serves, Conflict, Opens, Closes
  <2>5. ASSUME NEW q \in Requests, q # r, On(q, d)', req'[q].op # "list"
        PROVE  On(q, d) /\ req'[q] = req[q] /\ In(q, d)
    BY <1>2, <2>2, <2>5, OnIsIn
  <2>6. ClosingInv(d)'
    <3> SUFFICES ASSUME d \notin clash', NEW q \in Requests, On(q, d)', Closes(req'[q])
                 PROVE  /\ req'[q].at = "untoken" => info'[d] = NoInfo
                        /\ req'[q].at = "undevice" => info'[d] = NoInfo /\ token'[d] = 0
                        /\ req'[q].op = "logout" /\ req'[q].at = "closing" /\ req'[q].found = {}
                               => Gone(d)'
      BY DEF ClosingInv
    <3>1. CASE q = r
      BY <1>1, <1>4, <3>1
    <3>2. CASE q # r
      <4>1. On(q, d) /\ req'[q] = req[q] /\ d \notin clash /\ DeviceInv(d)
        BY <2>1, <2>5, <3>2 DEF Closes, FlightInv
      <4>2. token'[d] \in {token[d], 0} /\ (Gone(d) => Gone(d)')
        BY <1>2, <1>3 DEF Gone
      <4> QED
        BY <1>2, <4>1, <4>2 DEF DeviceInv, ClosingInv
    <3> QED
      BY <3>1, <3>2
  <2>7. LoginInv(d)'
    <3>1. ASSUME d \notin clash', NEW q \in Requests, On(q, d)', req'[q].op = "login" PROVE FALSE
      <4>1. q # r
        BY <1>1, <1>4, <3>1
      <4> QED
        BY <2>4, <2>5, <3>1, <4>1 DEF Serves
    <3> QED
      BY <3>1 DEF LoginInv
  <2>8. CASE d \in clash'
    BY <2>1, <2>6, <2>7, <2>8, NothingPromised
  <2>9. CASE d \notin clash'
    <3>1. ~Serves("refresh", d)'
      BY <1>1, <1>4, <2>2, <2>4, <2>9 DEF Serves
    <3>2. ClosedInv(d)' /\ ShutInv(d)' /\ OpenInv(d)'
      BY <2>3, <3>1 DEF ClosedInv, ShutInv, OpenInv
    <3> QED
      BY <2>1, <2>6, <2>7, <3>2 DEF DeviceInv
  <2> QED
    BY <2>8, <2>9
<1> QED
  BY <1>5, <1>6, <1>7 DEF FlightInv

\* A list of the sessions comes, to show or to close them.
LEMMA FlightSessions ==
    ASSUME FlightInv, SessionsInv', NEW r \in Requests, ListSessions(r) \/ CloseAllSessions(r)
    PROVE  FlightInv'
<1>1. PICK j \in Work :
         /\ Begin(r, j) /\ j.touch = Devices /\ j.op \in {"list", "closeall"} /\ j.at = "update"
         /\ j.gone = {} /\ j.lost = {} /\ Shape(j)
  <2>1. PICK op \in {"list", "closeall"} : Sessions(r, op)
    BY DEF ListSessions, CloseAllSessions
  <2> DEFINE j == [NewWork(op, "update", NoDevice) EXCEPT !.touch = Devices, !.todo = devices]
  <2>2. Begin(r, j)
    BY <2>1 DEF Sessions
  <2>3. /\ j \in Work /\ j.touch = Devices /\ j.op = op /\ j.at = "update"
        /\ j.gone = {} /\ j.lost = {}
    BY DEF NewWork, Work, FlightInv, SessionsInv, Types
  <2> HIDE DEF j
  <2> QED
    BY <2>2, <2>3 DEF Shape
<1>2. /\ SessionsInv /\ Shaped /\ req[r] = Idle /\ UNCHANGED <<token, devices, info, holders>>
  BY <1>1 DEF FlightInv, ListSessions, CloseAllSessions, Sessions, Begin, redis, clients
<1>3. req'[r] = j /\ j # Idle /\ Alone(r)
  BY <1>1, <1>2, IdleIsNoWork DEF Begin, SessionsInv, Types, Alone
<1>4. Shaped'
  BY <1>1, <1>2, <1>3 DEF Shaped, Alone
<1>5. ASSUME NEW d \in Devices PROVE DeviceInv(d)'
  <2>0. DeviceInv(d)
    BY DEF FlightInv
  <2>1. /\ Undisturbed(d)'
        /\ d \in clash' => known'[d] = "unknown"
        /\ d \notin clash' => /\ d \notin clash /\ known'[d] = known[d]
                              /\ \A q \in Requests : In(q, d) => ~Conflict(j, req[q])
    BY <1>1, UndisturbedBegins
  <2>2. \A q \in Requests : q # r => req'[q] = req[q] /\ (On(q, d)' <=> On(q, d))
                                     /\ (In(q, d)' <=> In(q, d))
    BY <1>3 DEF In, On, Alone
  <2>3. In(r, d)' /\ ~In(r, d)
    BY <1>1, <1>2, <1>3 DEF In
  <2>4. \A op : op # j.op => (Serves(op, d)' <=> Serves(op, d))
    BY <1>3, <2>2, <2>3 DEF Serves
  <2>5. ASSUME NEW q \in Requests, q # r, On(q, d)', req'[q].op # "list"
        PROVE  On(q, d) /\ req'[q] = req[q] /\ In(q, d)
    BY <1>2, <2>2, <2>5, OnIsIn
  <2>6. d \notin clash' => ~Serves("login", d)
    BY <1>1, <2>1 DEF Serves, Conflict, Opens, Closes
  <2>7. (Gone(d)' <=> Gone(d)) /\ (Kept(d)' <=> Kept(d)) /\ (Midway(d) => Midway(d)')
    <3>1. \A q \in Requests : Closer(q, d) => q # r /\ Closer(q, d)'
      BY <1>2, <2>2 DEF Closer, On
    <3> QED
      BY <1>2, <3>1 DEF Gone, Kept, Midway
  <2>8. ClosingInv(d)'
    <3> SUFFICES ASSUME d \notin clash', NEW q \in Requests, On(q, d)', Closes(req'[q])
                 PROVE  /\ req'[q].at = "untoken" => info[d] = NoInfo
                        /\ req'[q].at = "undevice" => info[d] = NoInfo /\ token[d] = 0
                        /\ req'[q].op = "logout" /\ req'[q].at = "closing" /\ req'[q].found = {}
                               => Gone(d)
      BY <1>2, <2>7 DEF ClosingInv
    <3>1. CASE q = r
      BY <1>1, <1>3, <3>1
    <3>2. CASE q # r
      BY <2>0, <2>1, <2>5, <3>2 DEF DeviceInv, ClosingInv, Closes
    <3> QED
      BY <3>1, <3>2
  <2>9. LoginInv(d)'
    <3>1. ASSUME d \notin clash', NEW q \in Requests, On(q, d)', req'[q].op = "login" PROVE FALSE
      <4>1. q # r
        BY <1>1, <1>3, <3>1
      <4> QED
        BY <2>5, <2>6, <3>1, <4>1 DEF Serves
    <3> QED
      BY <3>1 DEF LoginInv
  <2>10. CASE d \in clash'
    BY <2>1, <2>8, <2>9, <2>10, NothingPromised
  <2>11. CASE d \notin clash'
    <3>1. known'[d] = known[d] /\ ~Serves("login", d)
      BY <2>1, <2>6, <2>11
    <3>2. Shutting(d)' <=> Shutting(d) \/ j.op = "closeall"
      BY <1>1, <1>3, <2>3, <2>4 DEF Shutting, Serves
    <3>3. NotMissed(d) => NotMissed(d)'
      BY <1>1, <1>3, <2>2 DEF NotMissed
    <3>4. Listed(d) => Listed(d)'
      BY <1>1, <1>3 DEF Listed, Alone
    <3>5. ~Serves("closeall", d) => Listed(d)
      BY <1>2 DEF Listed, Serves, In, Shaped, Shape
    <3>6. Owned(d) => Owned(d)'
      <4>1. \A q \in Requests : /\ IssuingFor(q, d) => q # r /\ IssuingFor(q, d)'
                                /\ Unsaved(q, d) => q # r /\ Unsaved(q, d)'
        BY <1>2, <2>2 DEF IssuingFor, Unsaved, On
      <4> QED
        BY <1>2, <4>1 DEF Owned
    <3>7. ClosedInv(d)'
      BY <1>1, <1>2, <2>0, <2>4, <2>7, <3>1, <3>2 DEF DeviceInv, ClosedInv
    <3>8. ShutInv(d)'
      <4> SUFFICES ASSUME known[d] = "open", ~Serves("logout", d), Serves("closeall", d)'
                   PROVE  (Kept(d) /\ NotMissed(d)' /\ Listed(d)') \/ Midway(d)' \/ Gone(d)
        BY <1>1, <2>4, <2>7, <3>1 DEF ShutInv
      <4>1. CASE Serves("closeall", d)
        BY <2>0, <2>7, <3>3, <3>4, <4>1 DEF DeviceInv, ShutInv
      <4>2. CASE ~Serves("closeall", d)
        BY <2>0, <3>3, <3>4, <3>5, <4>2 DEF DeviceInv, OpenInv, Shutting
      <4> QED
        BY <4>1, <4>2
    <3>9. OpenInv(d)'
      BY <2>0, <2>7, <3>1, <3>2, <3>3, <3>6 DEF DeviceInv, OpenInv
    <3> QED
      BY <2>1, <2>8, <2>9, <3>7, <3>8, <3>9 DEF DeviceInv
  <2> QED
    BY <2>10, <2>11
<1> QED
  BY <1>4, <1>5 DEF FlightInv

-----------------------------------------------------------------------------
LEMMA InitFlight == Init => FlightInv
<1> SUFFICES ASSUME Init PROVE FlightInv
  OBVIOUS
<1>1. /\ \A r \in Requests : req[r] = Idle
      /\ \A d \in Devices : /\ token[d] = 0 /\ d \notin devices /\ info[d] = NoInfo
                            /\ holders[d] = {} /\ known[d] = "closed" /\ d \notin clash
  BY DEF Init
<1>2. ASSUME NEW d \in Devices PROVE DeviceInv(d)
  <2>1. \A r \in Requests : ~In(r, d) /\ ~On(r, d)
    BY <1>1 DEF In, On
  <2>2. \A op : ~Serves(op, d)
    BY <2>1 DEF Serves
  <2>3. Gone(d)
    BY <1>1 DEF Gone
  <2>4. Undisturbed(d) /\ ClosingInv(d) /\ LoginInv(d)
    BY <1>1, <2>1 DEF Undisturbed, ClosingInv, LoginInv
  <2>5. ClosedInv(d) /\ ShutInv(d) /\ OpenInv(d)
    BY <1>1, <2>2, <2>3 DEF ClosedInv, ShutInv, OpenInv
  <2> QED
    BY <2>4, <2>5 DEF DeviceInv
<1> QED
  BY <1>1, <1>2, InitInv DEF FlightInv, Shaped

LEMMA StepFlight == FlightInv /\ [Next]_vars => FlightInv'
<1> SUFFICES ASSUME FlightInv, [Next]_vars PROVE FlightInv'
  OBVIOUS
<1>1. SessionsInv'
  BY StepInv DEF FlightInv
<1>2. CASE UNCHANGED vars
  <2>1. UNCHANGED <<token, devices, info, req, holders, known, clash>>
    BY <1>2 DEF vars, redis, clients, history
  <2>2. Shaped'
    BY <2>1 DEF FlightInv, Shaped
  <2>3. ASSUME NEW d \in Devices PROVE DeviceInv(d)'
    BY <2>1 DEF FlightInv, DeviceInv, Undisturbed, ClosingInv, ClosedInv, ShutInv, LoginInv, OpenInv,
                In, On, Serves, Shutting, Gone, Kept, Midway, Closer, NotMissed, Listed,
                Owned, IssuingFor, Unsaved
  <2> QED
    BY <1>1, <2>2, <2>3 DEF FlightInv
<1>3. ASSUME NEW r \in Requests, Handle(r) PROVE FlightInv'
  <2>1. ASSUME NEW d \in Devices,
               Login(r, d) \/ Refresh(r, d) \/ \E u \in Devices : Logout(r, d, u)
        PROVE  FlightInv'
    BY <1>1, <2>1, FlightLogins, FlightLogouts
  <2>2. ASSUME NEW d \in Devices,
               Exists(r, d) \/ DropDevice(r, d) \/ ForgetInfo(r, d) \/ LookAt(r, d)
        PROVE  FlightInv'
    BY <1>1, <2>2, FlightReads, FlightDrops
  <2>3. CASE LoginDevice(r) \/ SessionInfo(r) \/ SessionExpire(r) \/ RefreshCheck(r) \/ RefreshToken(r)
    BY <1>1, <2>3, FlightOpens
  <2>4. CASE LogoutDevice(r) \/ CloseToken(r) \/ CloseDevice(r)
    BY <1>1, <2>4, FlightRemoves
  <2>5. CASE Answer(r)
    BY <1>1, <2>5, FlightAnswers
  <2>6. CASE RefreshInvalid(r) \/ ListDone(r)
    BY <1>1, <2>6, FlightAsks
  <2>7. CASE CloseDone(r)
    BY <1>1, <2>7, FlightEnds
  <2>8. CASE ListSessions(r) \/ CloseAllSessions(r)
    BY <1>1, <2>8, FlightSessions
  <2>9. CASE ListAgain(r)
    BY <1>1, <2>9, FlightReads
  <2>10. ASSUME NEW s \in Session, CloseInfo(r, s) \/ CloseRaises(r, s) PROVE FlightInv'
    BY <1>1, <2>10, FlightCloses, FlightEnds
  <2>11. CASE Fail(r)
    BY <1>1, <2>11, FlightFails
  <2> QED
    BY <1>3, <2>1, <2>2, <2>3, <2>4, <2>5, <2>6, <2>7, <2>8, <2>9, <2>10, <2>11 DEF Handle
<1> QED
  BY <1>1, <1>2, <1>3, FlightTicks DEF Next

LEMMA FlightInvariant == Spec => []FlightInv
BY InitFlight, StepFlight, PTL DEF Spec

\* A session that a login opened is there, whole, until it is closed or expires:
\* no other login, refresh or list takes its token, its device or its info away,
\* and no conflicting request was in flight.
\* (token_service.py:63-90, 99-117, auth_service.py:35-50)
THEOREM OpenSessionsAreWhole == Spec => []OpenIsWhole
<1>1. FlightInv => OpenIsWhole
  <2> SUFFICES ASSUME FlightInv, NEW d \in Devices, known[d] = "open", Quiet(d)
               PROVE  /\ Client \in holders[d] /\ d \in devices
                      /\ info[d] # NoInfo /\ info[d].named
                      /\ info[d].ttl \in token[d] .. Life
    BY DEF OpenIsWhole
  <2>1. \A r \in Requests : ~In(r, d)
    BY DEF Quiet, InFlight, In
  <2>2. \A r \in Requests : ~IssuingFor(r, d) /\ ~Unsaved(r, d)
    BY <2>1, IssuersOpen DEF FlightInv
  <2>3. ~Shutting(d)
    BY <2>1 DEF Shutting, Serves
  <2>4. Owned(d) /\ Kept(d)
    BY <2>3 DEF FlightInv, DeviceInv, OpenInv
  <2> QED
    BY <2>2, <2>4 DEF Owned, Kept
<1> QED
  BY <1>1, FlightInvariant, PTL

\* A session that a logout or a close of all has closed leaves no token, no
\* device and no info in Redis, whatever else closed or listed it meanwhile.
\* (auth_routes.py:41-49, auth_service.py:53-57, 83-87)
THEOREM ClosedSessionsAreGone == Spec => []ClosedIsGone
<1>1. FlightInv => ClosedIsGone
  <2> SUFFICES ASSUME FlightInv, NEW d \in Devices, known[d] = "closed", Quiet(d)
               PROVE  Gone(d)
    BY DEF ClosedIsGone, Gone
  <2>1. \A r \in Requests : ~In(r, d)
    BY DEF Quiet, InFlight, In
  <2>2. ~Serves("login", d) /\ ~Serves("logout", d)
    BY <2>1 DEF Serves
  <2>3. ~Midway(d)
    BY <2>1, OnIsIn DEF FlightInv, Midway, Closer
  <2> QED
    BY <2>2, <2>3 DEF FlightInv, DeviceInv, ClosedInv
<1> QED
  BY <1>1, FlightInvariant, PTL

-----------------------------------------------------------------------------
\* A key without a ttl is one that a request is about to give it, or that one left
\* behind when it died.
LEMMA InfosGetTheirTtl ==
    ASSUME SessionsInv, SessionsInv', InfosExpire, [Next]_vars PROVE InfosExpire'
<1> SUFFICES ASSUME NEW d \in Devices, info'[d] # NoInfo, info'[d].ttl = NoTtl, fails' = 0
             PROVE  \E r \in Requests : At(r, "expire")' /\ Dev(r)' = d
  <2>1. fails' \in Nat
    BY DEF SessionsInv, Types
  <2> QED
    BY <2>1 DEF InfosExpire
<1>0. info[d] # NoInfo => info[d] \in Info
  BY DEF SessionsInv, Types
<1>1. CASE UNCHANGED vars
  BY <1>1 DEF vars, redis, InfosExpire, At, Dev
<1>2. CASE Tick
  <2>1. UNCHANGED <<req, fails>> /\ info[d] # NoInfo
        /\ info'[d] = [info[d] EXCEPT !.ttl = IF @ = NoTtl THEN @ ELSE @ - 1]
    BY <1>2 DEF Tick
  <2>2. info'[d].ttl = IF info[d].ttl = NoTtl THEN info[d].ttl ELSE info[d].ttl - 1
    BY <1>0, <2>1 DEF Info
  <2>3. info[d].ttl = NoTtl
    BY <1>0, <2>1, <2>2, SessionsAssumption DEF Info, NoTtl
  <2> QED
    BY <2>1, <2>3 DEF InfosExpire, At, Dev
<1>3. ASSUME NEW r \in Requests, Handle(r) PROVE \E q \in Requests : At(q, "expire")' /\ Dev(q)' = d
  <2>1. ~Fail(r) /\ fails = 0
    <3>1. Fail(r) => fails' = fails + 1
      BY DEF Fail
    <3>2. Fail(r) \/ fails' = fails
      BY <1>3 DEF Handle, Login, Refresh, Logout, Exists, DropDevice, ForgetInfo, LookAt,
         LoginDevice, SessionInfo, SessionExpire, Answer, RefreshCheck, RefreshInvalid,
         RefreshToken, LogoutDevice, ListSessions, CloseAllSessions, Sessions, ListAgain,
         ListDone, CloseInfo, CloseRaises, CloseToken, CloseDevice, CloseDone, Begin
    <3>3. fails \in Nat
      BY DEF SessionsInv, Types
    <3> QED
      BY <3>1, <3>2, <3>3
  <2>2. Alone(r)
    BY <1>3, <2>1 DEF Handle, Login, Refresh, Logout, Exists, DropDevice, ForgetInfo, LookAt,
       LoginDevice, SessionInfo, SessionExpire, Answer, RefreshCheck, RefreshInvalid,
       RefreshToken, LogoutDevice, ListSessions, CloseAllSessions, Sessions, ListAgain,
       ListDone, CloseInfo, CloseRaises, CloseToken, CloseDevice, CloseDone, Begin, End, Go,
       Alone, SessionsInv, Types
  <2>3. At(r, "expire") => SessionExpire(r)
    BY <1>3, <2>1 DEF Handle, Login, Refresh, Logout, Exists, DropDevice, ForgetInfo, LookAt,
       LoginDevice, SessionInfo, SessionExpire, Answer, RefreshCheck, RefreshInvalid,
       RefreshToken, LogoutDevice, ListSessions, CloseAllSessions, Sessions, ListAgain,
       ListDone, CloseInfo, CloseRaises, CloseToken, CloseDevice, CloseDone, Begin, At, Closing
  <2>4. SessionInfo(r) \/ SessionExpire(r) \/ info'[d] = info[d] \/ info'[d] = NoInfo
    BY <1>3, <2>1 DEF Handle, Login, Refresh, Logout, Exists, DropDevice, ForgetInfo, LookAt,
       LoginDevice, Answer, RefreshCheck, RefreshInvalid, RefreshToken, LogoutDevice,
       ListSessions, CloseAllSessions, Sessions, ListAgain, ListDone, CloseInfo, CloseRaises,
       CloseToken, CloseDevice, CloseDone, Uninfo, redis, SessionsInv, Types
  <2>5. CASE SessionExpire(r)
    <3>1. Dev(r) \in Devices /\ info' = [info EXCEPT ![Dev(r)] = Lasting(Dev(r))] /\ At(r, "expire")
      BY <2>5 DEF SessionExpire, ExpireInfo, SessionsInv, HasDevice, OnDevice, At, Dev
    <3>2. d # Dev(r)
      <4>1. ASSUME d = Dev(r) PROVE FALSE
        <5>1. info'[d] = Lasting(d)
          BY <3>1, <4>1 DEF SessionsInv, Types
        <5>2. info[d] # NoInfo /\ Lasting(d) = [info[d] EXCEPT !.ttl = Life]
          BY <5>1 DEF Lasting
        <5>3. info'[d].ttl = Life
          BY <1>0, <5>1, <5>2 DEF Info
        <5> QED
          BY <5>3, SessionsAssumption DEF NoTtl
      <4> QED
        BY <4>1
    <3>3. info'[d] = info[d]
      BY <3>1, <3>2 DEF SessionsInv, Types
    <3>4. PICK q \in Requests : At(q, "expire") /\ Dev(q) = d
      BY <2>1, <3>3 DEF InfosExpire
    <3>5. q # r
      BY <3>2, <3>4
    <3> QED
      BY <2>2, <3>4, <3>5 DEF Alone, At, Dev
  <2>6. CASE SessionInfo(r) /\ d = Dev(r)
    <3>1. /\ req' = [req EXCEPT ![r].at = "expire"] /\ req[r] # Idle /\ req[r].dev = d
          /\ req[r] \in Work
      BY <2>6 DEF SessionInfo, Go, At, Dev, SessionsInv, Types
    <3>2. req'[r] # Idle /\ req'[r].at = "expire" /\ req'[r].dev = d
      BY <3>1, IdleIsNoWork DEF SessionsInv, Types, Work, Idle
    <3> QED
      BY <3>2 DEF At, Dev
  <2>7. CASE ~SessionExpire(r) /\ ~(SessionInfo(r) /\ d = Dev(r))
    <3>1. info'[d] = info[d]
      <4>1. SessionInfo(r) => info'[d] = info[d]
        BY <2>7 DEF SessionInfo, SetInfo, SessionsInv, Types
      <4> QED
        BY <2>4, <2>7, <4>1
    <3>2. PICK q \in Requests : At(q, "expire") /\ Dev(q) = d
      BY <2>1, <3>1 DEF InfosExpire
    <3>3. q # r
      BY <2>3, <2>7, <3>2
    <3> QED
      BY <2>2, <3>2, <3>3 DEF Alone, At, Dev
  <2> QED
    BY <2>5, <2>6, <2>7
<1> QED
  BY <1>1, <1>2, <1>3 DEF Next

\* Every key of a token has a time to live of at most Life, a token that is gone is
\* nobody's, and an info that Redis would keep for ever is one that a request is
\* about to give its ttl, or one whose request died before it did.
\* (storage.py:88-153, token_service.py:63-90)
THEOREM SessionsTyped == Spec => []TypeOK
<1>1. Spec => []SessionsInv
  BY InitInv, StepInv, PTL DEF Spec
<1>2. Init => InfosExpire
  BY DEF Init, InfosExpire
<1>3. SessionsInv /\ SessionsInv' /\ InfosExpire /\ [Next]_vars => InfosExpire'
  BY InfosGetTheirTtl
<1>4. SessionsInv /\ InfosExpire => TypeOK
  BY DEF SessionsInv, TypeOK
<1> QED
  BY <1>1, <1>2, <1>3, <1>4, PTL DEF Spec

=============================================================================
