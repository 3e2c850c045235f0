------------------------ MODULE WebsocketSenderProofs ------------------------
(***************************************************************************)
(* Theorems about WebsocketSender, for every number of users, connections  *)
(* and messages and any number of crashes.                                 *)
(***************************************************************************)
EXTENDS WebsocketSender, TLAPS

\* No registration has a number that was not given yet.
NumbersGiven == \A c \in Conns : entered[c] <= entries

\* Only a connection with a valid token is served.
ServedAreUsers == \A c \in Conns : Served(c) => UserOf[c] \in Users

\* The dictionary, the handlers and the numbers of the registrations agree.
RegistryInv ==
    /\ TypeOK
    /\ NoStaleEntry
    /\ AloneIsRegistered
    /\ NewestWins
    /\ NumbersGiven
    /\ ServedAreUsers

\* The invariant holds before the first start.
LEMMA InitRegistry == Init => RegistryInv
<1> SUFFICES ASSUME Init PROVE RegistryInv
  OBVIOUS
<1> USE WebsocketAssumption
<1>1. TypeOK
  <2>1. up \in BOOLEAN
    BY DEF Init
  <2>2. losses \in Nat /\ entries \in Nat /\ entered \in [Conns -> Nat]
    BY DEF Init
  <2>3. /\ wsConnections \in [Users -> Conns \cup {NoConn}]
        /\ stage \in [Conns -> Stage] /\ consumer \in Consumer
    BY DEF Init, Nobody, Stage, Consumer
  <2>4. /\ inbox \subseteq Messages /\ open \subseteq Conns /\ queue \subseteq Messages
        /\ published \subseteq Messages /\ received \subseteq Messages
        /\ overlapped \subseteq Users
    BY DEF Init
  <2> QED
    BY <2>1, <2>2, <2>3, <2>4 DEF TypeOK
<1>2. NoStaleEntry /\ NewestWins
  <2>1. \A u \in Users, c \in Conns : wsConnections[u] # c
    BY DEF Init, Nobody
  <2> QED
    BY <2>1 DEF NoStaleEntry, NewestWins
<1>3. AloneIsRegistered /\ ServedAreUsers
  <2>1. \A c \in Conns : ~Served(c)
    BY DEF Init, Served
  <2> QED
    BY <2>1 DEF AloneIsRegistered, ServedAreUsers
<1>4. NumbersGiven
  <2>1. entries = 0 /\ \A c \in Conns : entered[c] = 0
    BY DEF Init
  <2>2. \A c \in Conns : entered[c] <= entries
    <3> TAKE c \in Conns
    <3>1. entered[c] = 0 /\ entries = 0 /\ 0 \in Nat
      BY <2>1
    <3> QED
      BY <3>1
  <2> QED
    BY <2>2 DEF NumbersGiven
<1> QED
  BY <1>1, <1>2, <1>3, <1>4 DEF RegistryInv

\* Every step of the handlers and of the environment keeps the types.
LEMMA RegistryTypes == ASSUME TypeOK, Next PROVE TypeOK'
<1> USE WebsocketAssumption DEF worker, environment, history
<1>1. up' \in BOOLEAN
  BY DEF TypeOK, Next, Start, Connect, Handle, Register, Refuse, Unregister, Close,
         Callback, Push, Send, Drop, Publish, Expire, LoseBroker, Crash, Die, GiveUp, Consume
<1>2. losses' \in Nat /\ entries' \in Nat /\ entered' \in [Conns -> Nat]
  BY DEF TypeOK, Next, Start, Connect, Handle, Register, Refuse, Unregister, Close,
         Callback, Push, Send, Drop, Publish, Expire, LoseBroker, Crash, Die, GiveUp, Consume
<1>3. /\ wsConnections' \in [Users -> Conns \cup {NoConn}] /\ stage' \in [Conns -> Stage]
      /\ consumer' \in Consumer
  BY DEF TypeOK, Next, Start, Connect, Handle, Register, Refuse, Unregister, Close,
         Callback, Push, Send, Drop, Publish, Expire, LoseBroker, Crash, Die, GiveUp, Consume, Stage,
         Enter, Remove, Nobody, Consumer
<1>4. /\ inbox' \subseteq Messages /\ open' \subseteq Conns /\ queue' \subseteq Messages
      /\ published' \subseteq Messages /\ received' \subseteq Messages
      /\ overlapped' \subseteq Users
  BY DEF TypeOK, Next, Start, Connect, Handle, Register, Refuse, Unregister, Close,
         Callback, Push, Send, Drop, Publish, Expire, LoseBroker, Crash, Die, GiveUp, Consume
<1> QED
  BY <1>1, <1>2, <1>3, <1>4 DEF TypeOK

\* A connection that registers takes the entry of its user.
LEMMA RegisterStep ==
    ASSUME RegistryInv, NEW c \in Conns, Register(c)
    PROVE  /\ NoStaleEntry' /\ AloneIsRegistered' /\ NewestWins'
           /\ NumbersGiven' /\ ServedAreUsers'
<1> USE WebsocketAssumption DEF RegistryInv, Served
<1>1. /\ stage[c] = "waiting" /\ UserOf[c] \in Users
      /\ stage' = [stage EXCEPT ![c] = "served"]
      /\ wsConnections' = [wsConnections EXCEPT ![UserOf[c]] = c]
      /\ entered' = [entered EXCEPT ![c] = entries + 1]
      /\ entries' = entries + 1
      /\ overlapped \subseteq overlapped'
  BY DEF Register, Enter
<1>2. /\ wsConnections \in [Users -> Conns \cup {NoConn}] /\ stage \in [Conns -> Stage]
      /\ entered \in [Conns -> Nat] /\ entries \in Nat
  BY DEF TypeOK
<1>3. \A d \in Conns : d # c => stage'[d] = stage[d] /\ entered'[d] = entered[d]
  BY <1>1, <1>2
<1>4. \A u \in Users : u # UserOf[c] => wsConnections'[u] = wsConnections[u]
  BY <1>1, <1>2
<1>5. stage'[c] = "served" /\ wsConnections'[UserOf[c]] = c /\ entered'[c] = entries + 1
  BY <1>1, <1>2
<1>6. NoStaleEntry'
  BY <1>1, <1>3, <1>4, <1>5 DEF NoStaleEntry
<1>7. AloneIsRegistered'
  <2> SUFFICES ASSUME NEW d \in Conns, Served(d)', UserOf[d] \notin overlapped'
               PROVE  wsConnections'[UserOf[d]] = d
    BY DEF AloneIsRegistered
  <2>1. CASE d = c
    BY <1>5, <2>1
  <2>2. CASE d # c
    <3>1. Served(d)
      BY <1>3, <2>2
    <3>2. wsConnections[UserOf[d]] = d
      BY <1>1, <3>1 DEF AloneIsRegistered
    <3>3. UserOf[d] # UserOf[c]
      BY <3>1 DEF Register
    <3>4. UserOf[d] \in Users
      BY <3>1 DEF ServedAreUsers
    <3> QED
      BY <1>4, <3>2, <3>3, <3>4
  <2> QED
    BY <2>1, <2>2
<1>8. NewestWins'
  <2> SUFFICES ASSUME NEW u \in Users, NEW e \in Conns, NEW d \in Conns,
                      wsConnections'[u] = e, Served(d)', UserOf[d] = u, d # e
               PROVE  entered'[d] < entered'[e]
    BY DEF NewestWins
  <2>1. CASE u = UserOf[c]
    <3>1. e = c /\ entered[d] <= entries /\ entered[d] \in Nat
      BY <1>2, <1>5, <2>1 DEF NumbersGiven
    <3> QED
      BY <1>2, <1>3, <1>5, <3>1
  <2>2. CASE u # UserOf[c]
    <3>1. wsConnections[u] = e /\ d # c
      BY <1>4, <2>2
    <3>2. e # c
      BY <2>2, <3>1 DEF NoStaleEntry
    <3> QED
      BY <1>3, <3>1, <3>2 DEF NewestWins
  <2> QED
    BY <2>1, <2>2
<1>9. NumbersGiven'
  <2> SUFFICES ASSUME NEW d \in Conns PROVE entered'[d] <= entries'
    BY DEF NumbersGiven
  <2>1. entered[d] <= entries /\ entered[d] \in Nat
    BY <1>2 DEF NumbersGiven
  <2> QED
    BY <1>1, <1>2, <1>3, <1>5, <2>1
<1>10. ServedAreUsers'
  BY <1>1, <1>3 DEF ServedAreUsers
<1> QED
  BY <1>6, <1>7, <1>8, <1>9, <1>10

\* A handler that ends removes the entry of its user, whoever holds it.
LEMMA UnregisterStep ==
    ASSUME RegistryInv, NEW c \in Conns, Unregister(c)
    PROVE  /\ NoStaleEntry' /\ AloneIsRegistered' /\ NewestWins'
           /\ NumbersGiven' /\ ServedAreUsers'
<1> USE WebsocketAssumption DEF RegistryInv, Served, environment, history
<1>1. /\ stage[c] = "served"
      /\ stage' = [stage EXCEPT ![c] = "done"]
      /\ wsConnections' = [wsConnections EXCEPT ![UserOf[c]] = NoConn]
      /\ UNCHANGED <<entered, entries, overlapped>>
  BY DEF Unregister, Remove
<1>2. wsConnections \in [Users -> Conns \cup {NoConn}] /\ stage \in [Conns -> Stage]
  BY DEF TypeOK
<1>3. \A d \in Conns : Served(d)' => Served(d) /\ d # c
  BY <1>1, <1>2
<1>4. \A u \in Users, d \in Conns :
          wsConnections'[u] = d => wsConnections[u] = d /\ u # UserOf[c]
  BY <1>1, <1>2
<1>5. NoStaleEntry'
  BY <1>1, <1>2, <1>4 DEF NoStaleEntry
<1>6. AloneIsRegistered'
  <2> SUFFICES ASSUME NEW d \in Conns, Served(d)', UserOf[d] \notin overlapped
               PROVE  wsConnections'[UserOf[d]] = d
    BY <1>1 DEF AloneIsRegistered
  <2>1. wsConnections[UserOf[d]] = d /\ d # c
    BY <1>3 DEF AloneIsRegistered
  <2>2. UserOf[d] # UserOf[c]
    BY <1>1, <2>1 DEF AloneIsRegistered
  <2> QED
    BY <1>1, <1>2, <2>1, <2>2
<1>7. NewestWins'
  BY <1>1, <1>3, <1>4 DEF NewestWins
<1>8. NumbersGiven'
  BY <1>1 DEF NumbersGiven
<1>9. ServedAreUsers'
  BY <1>3 DEF ServedAreUsers
<1> QED
  BY <1>5, <1>6, <1>7, <1>8, <1>9

\* Whatever the handlers, the callbacks and the crashes do, the dictionary, the
\* handlers and the numbers of the registrations agree.
THEOREM RegistryInvariant == Spec => []RegistryInv
<1>1. RegistryInv /\ [Next]_vars => RegistryInv'
  <2> SUFFICES ASSUME RegistryInv, [Next]_vars PROVE RegistryInv'
    OBVIOUS
  <2> DEFINE Agree == /\ NoStaleEntry /\ AloneIsRegistered /\ NewestWins
                   /\ NumbersGiven /\ ServedAreUsers
  <2> USE WebsocketAssumption DEF worker, environment, history
  <2>a. ASSUME UNCHANGED <<wsConnections, overlapped, entered, entries>>,
               \A c \in Conns : Served(c)' <=> Served(c)
        PROVE  Agree'
    BY <2>a DEF RegistryInv, NoStaleEntry, AloneIsRegistered, NewestWins, NumbersGiven,
               ServedAreUsers
  <2>b. stage \in [Conns -> Stage]
    BY DEF RegistryInv, TypeOK
  <2>1. CASE Next
    <3>1. TypeOK'
      BY <2>1, RegistryTypes DEF RegistryInv
    <3>2. ASSUME NEW c \in Conns, Connect(c) \/ Refuse(c) PROVE Agree'
      <4>1. \A d \in Conns : Served(d)' <=> Served(d)
        BY <2>b, <3>2 DEF Connect, Refuse, Served
      <4> QED
        BY <2>a, <3>2, <4>1 DEF Connect, Refuse
    <3>3. ASSUME NEW c \in Conns, Register(c) PROVE Agree'
      BY <3>3, RegisterStep
    <3>4. ASSUME NEW c \in Conns, Unregister(c) PROVE Agree'
      BY <3>4, UnregisterStep
    <3>5. ASSUME Crash \/ GiveUp PROVE Agree'
      <4>1. /\ wsConnections' = [u \in Users |-> NoConn]
            /\ \A c \in Conns : ~Served(c)'
            /\ UNCHANGED <<entered, entries>>
        BY <2>b, <3>5 DEF Crash, GiveUp, Die, Nobody, Served
      <4> QED
        BY <4>1 DEF RegistryInv, NoStaleEntry, AloneIsRegistered, NewestWins, NumbersGiven,
                    ServedAreUsers
    <3>6. ASSUME UNCHANGED <<wsConnections, stage, overlapped, entered, entries>>
          PROVE  Agree'
      BY <2>a, <3>6 DEF Served
    <3>7. Agree'
      BY <2>1, <3>2, <3>3, <3>4, <3>5, <3>6
         DEF Next, Start, Handle, Close, Callback, Push, Send, Drop, Publish,
             Expire, LoseBroker, Consume
    <3> QED
      BY <3>1, <3>7 DEF RegistryInv
  <2>2. CASE UNCHANGED vars
    <3>1. up' \in BOOLEAN
      BY <2>2 DEF vars, RegistryInv, TypeOK
    <3>2. losses' \in Nat /\ entries' \in Nat /\ entered' \in [Conns -> Nat]
      BY <2>2 DEF vars, RegistryInv, TypeOK
    <3>3. TypeOK'
      BY <2>2, <3>1, <3>2 DEF vars, RegistryInv, TypeOK
    <3>4. Agree'
      BY <2>2, <2>a DEF vars, Served
    <3> QED
      BY <3>3, <3>4 DEF RegistryInv
  <2> QED
    BY <2>1, <2>2
<1> QED
  BY <1>1, InitRegistry, PTL DEF Spec

\* No message is sent to a connection that was given up, or to another user's.
THEOREM EntriesAreFresh == Spec => []NoStaleEntry
<1>1. RegistryInv => NoStaleEntry
  BY DEF RegistryInv
<1> QED
  BY <1>1, RegistryInvariant, PTL

\* A user who never had two connections at once is reachable on the one he has.
THEOREM AloneIsReachable == Spec => []AloneIsRegistered
<1>1. RegistryInv => AloneIsRegistered
  BY DEF RegistryInv
<1> QED
  BY <1>1, RegistryInvariant, PTL

\* Of several connections of a user the entry is the one that came last.
THEOREM EntryIsNewest == Spec => []NewestWins
<1>1. RegistryInv => NewestWins
  BY DEF RegistryInv
<1> QED
  BY <1>1, RegistryInvariant, PTL

\* The type invariant of the worker. (main.py:22-47)
THEOREM WorkerTyped == Spec => []TypeOK
<1>1. RegistryInv => TypeOK
  BY DEF RegistryInv
<1> QED
  BY <1>1, RegistryInvariant, PTL

\* A message that can be parsed is dropped although its user has an open
\* connection only if he had two at once: whoever was always alone is in the
\* dictionary, and his message reaches him. (main.py:29-34, 46-47)
THEOREM DropsAreExplained == Spec => DropsExplained
<1> DEFINE Explained ==
      \A m \in Messages \ Malformed :
          Drop(m) /\ (\E c \in open : Served(c) /\ UserOf[c] = Receiver[m])
              => Receiver[m] \in overlapped
<1>1. RegistryInv => Explained
  <2> SUFFICES ASSUME RegistryInv, NEW m \in Messages \ Malformed, Drop(m),
                      NEW c \in open, Served(c), UserOf[c] = Receiver[m],
                      Receiver[m] \notin overlapped
               PROVE  FALSE
    OBVIOUS
  <2>1. c \in Conns
    BY DEF RegistryInv, TypeOK
  <2>2. wsConnections[Receiver[m]] = c
    BY <2>1 DEF RegistryInv, AloneIsRegistered
  <2>3. Reaches(m, c)
    BY <2>2 DEF Reaches
  <2> QED
    BY <2>1, <2>3 DEF Drop
<1>2. RegistryInv /\ [Next]_vars => [Explained]_vars
  BY <1>1
<1> QED
  BY <1>2, RegistryInvariant, PTL DEF Spec, DropsExplained

=============================================================================
