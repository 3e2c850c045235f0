--------------------------- MODULE WebsocketSender ---------------------------
(***************************************************************************)
(* The websocket worker (service_notice/websocket_sender/src/main.py): one *)
(* asyncio process that serves the websockets of the users, keeps the last *)
(* connection of each user in the dictionary ws_connections, and sends the *)
(* messages of the queue "websocket" to those connections.                 *)
(*                                                                         *)
(* Coroutines interleave at their awaits only: what lies between two of    *)
(* them is one action.                                                     *)
(***************************************************************************)
EXTENDS Naturals

CONSTANTS
    Conns,          \* websocket connections, each used once
    Users,          \* user ids
    NoConn,         \* "no connection is registered"
    NoUser,         \* the user of a token that get_user_id refuses
    UserOf,         \* UserOf[c]: the user whose token c sends
    Messages,       \* message ids
    Receiver,       \* Receiver[m]: the user_id of the message
    Malformed,      \* messages that models.WebsocketNotification refuses
    MaxLosses       \* bound of the crashes and of the lost broker connections

ASSUME WebsocketAssumption ==
    /\ NoConn \notin Conns
    /\ NoUser \notin Users
    /\ UserOf \in [Conns -> Users \cup {NoUser}]
    /\ Receiver \in [Messages -> Users]
    /\ Malformed \subseteq Messages
    /\ MaxLosses \in Nat

VARIABLES
    \* the worker
    up,             \* the process runs
    consumer,       \* what became of its consumer of the queue
    wsConnections,  \* the dictionary ws_connections
    stage,          \* stage[c]: where the handler of the connection is
    inbox,          \* messages that RabbitMQ pushed and no callback has seen
    \* the environment
    open,           \* connections whose websocket is open
    queue,          \* the messages in the queue "websocket"
    losses,         \* how often the process or its connection was lost
    \* the history
    published,      \* messages that the ETL published
    received,       \* messages that a user received
    overlapped,     \* users that had two registered connections at once
    entered,        \* entered[c]: the number of the registration of c
    entries         \* how many registrations there were

worker == <<up, consumer, wsConnections, stage, inbox>>
environment == <<open, queue, losses>>
history == <<published, received, overlapped, entered, entries>>
vars == <<worker, environment, history>>

Stage == {"new", "waiting", "served", "done"}
Consumer == {"off", "connecting", "on", "lost"}

TypeOK ==
    /\ up \in BOOLEAN
    /\ consumer \in Consumer
    /\ wsConnections \in [Users -> Conns \cup {NoConn}]
    /\ stage \in [Conns -> Stage]
    /\ inbox \subseteq Messages
    /\ open \subseteq Conns
    /\ queue \subseteq Messages
    /\ losses \in Nat
    /\ published \subseteq Messages
    /\ received \subseteq Messages
    /\ overlapped \subseteq Users
    /\ entered \in [Conns -> Nat]
    /\ entries \in Nat

Nobody == [u \in Users |-> NoConn]

Init ==
    /\ up = FALSE
    /\ consumer = "off"
    /\ wsConnections = Nobody
    /\ stage = [c \in Conns |-> "new"]
    /\ inbox = {}
    /\ open = {}
    /\ queue = {}
    /\ losses = 0
    /\ published = {}
    /\ received = {}
    /\ overlapped = {}
    /\ entered = [c \in Conns |-> 0]
    /\ entries = 0

Served(c) == stage[c] = "served"

-----------------------------------------------------------------------------
(***************************************************************************)
(* handler, one coroutine for each connection.                             *)
(***************************************************************************)

\* A client connects, and its handler waits for the token.
Connect(c) ==
    /\ up
    /\ stage[c] = "new"
    /\ stage' = [stage EXCEPT ![c] = "waiting"]
    /\ open' = open \cup {c}
    /\ UNCHANGED <<up, consumer, wsConnections, inbox, queue, losses, history>>

\* Slip: the first connection of a user keeps its place.
EnterIfAbsent(u, c) ==
    IF wsConnections[u] = NoConn THEN [wsConnections EXCEPT ![u] = c] ELSE wsConnections
\* Slip: the user's id is stored instead of the connection.
EnterUser(u, c) == [wsConnections EXCEPT ![u] = u]
\* Slip: the assignment makes a local name, the dictionary stays as it is.
EnterLocally(u, c) == wsConnections
\* ws_connections[user_id] = ws
Enter(u, c) == [wsConnections EXCEPT ![u] = c]

\* The token is valid: the connection replaces the one of the same user. The
\* client may have closed the websocket after it sent the token.
Register(c) ==
    /\ stage[c] = "waiting"
    /\ UserOf[c] \in Users
    /\ stage' = [stage EXCEPT ![c] = "served"]
    /\ wsConnections' = Enter(UserOf[c], c)
    /\ overlapped' = IF \E d \in Conns : Served(d) /\ UserOf[d] = UserOf[c]
                     THEN overlapped \cup {UserOf[c]}
                     ELSE overlapped
    /\ entered' = [entered EXCEPT ![c] = entries + 1]
    /\ entries' = entries + 1
    /\ UNCHANGED <<up, consumer, inbox, environment, published, received>>

\* The token is refused, or the client closes before it sends one.
Refuse(c) ==
    /\ stage[c] = "waiting"
    /\ c \notin open \/ UserOf[c] = NoUser
    /\ stage' = [stage EXCEPT ![c] = "done"]
    /\ open' = open \ {c}
    /\ UNCHANGED <<up, consumer, wsConnections, inbox, queue, losses, history>>

\* The client closes the websocket, or it is lost: the handler learns of it
\* when it runs again.
Close(c) ==
    /\ c \in open
    /\ open' = open \ {c}
    /\ UNCHANGED <<worker, queue, losses, history>>

\* Slip: the entry of a user stays.
RemoveNothing(u) == wsConnections
\* del ws_connections[user_id], whoever's connection the entry holds. If a
\* connection of the same user was quicker, this is a KeyError in a coroutine
\* that ends here anyway.
Remove(u) == [wsConnections EXCEPT ![u] = NoConn]

\* wait_closed returns, and the finally clause runs.
Unregister(c) ==
    /\ Served(c)
    /\ c \notin open
    /\ stage' = [stage EXCEPT ![c] = "done"]
    /\ wsConnections' = Remove(UserOf[c])
    /\ UNCHANGED <<up, consumer, inbox, environment, history>>

-----------------------------------------------------------------------------
(***************************************************************************)
(* process_notifications and send_by_websocket.                            *)
(***************************************************************************)

\* main: the process serves websockets, and connects to RabbitMQ meanwhile.
Start ==
    /\ ~up
    /\ up' = TRUE
    /\ consumer' = "connecting"
    /\ UNCHANGED <<wsConnections, stage, inbox, environment, history>>

\* process_notifications: the callback is registered.
Consume ==
    /\ consumer = "connecting"
    /\ consumer' = "on"
    /\ UNCHANGED <<up, wsConnections, stage, inbox, environment, history>>

\* The end of the process: its connections and its inbox are gone.
Die ==
    /\ up' = FALSE
    /\ consumer' = "off"
    /\ wsConnections' = Nobody
    /\ stage' = [c \in Conns |-> IF stage[c] = "new" THEN "new" ELSE "done"]
    /\ inbox' = {}
    /\ open' = {}
    /\ UNCHANGED <<queue, history>>

\* RabbitMQ does not answer for a minute: backoff raises, and main ends.
GiveUp ==
    /\ consumer = "connecting"
    /\ Die
    /\ UNCHANGED losses

\* Slip: the messages are to be acknowledged, and nobody does.
PushUnacked(m) ==
    /\ consumer = "on"
    /\ m \in queue
    /\ inbox' = inbox \cup {m}
    /\ UNCHANGED <<up, consumer, wsConnections, stage, environment, history>>
\* RabbitMQ pushes a message. no_ack=True: it forgets it at once.
Push(m) ==
    /\ consumer = "on"
    /\ m \in queue
    /\ queue' = queue \ {m}
    /\ inbox' = inbox \cup {m}
    /\ UNCHANGED <<up, consumer, wsConnections, stage, open, losses, history>>

\* The connection that a message is sent to, and that it can be sent to.
Reaches(m, c) ==
    /\ m \notin Malformed
    /\ wsConnections[Receiver[m]] = c
    /\ c \in open

\* The callback finds an open connection and sends.
Send(m) ==
    /\ up
    /\ m \in inbox
    /\ \E c \in Conns : Reaches(m, c)
    /\ inbox' = inbox \ {m}
    /\ received' = received \cup {m}
    /\ UNCHANGED <<up, consumer, wsConnections, stage, environment, published,
                   overlapped, entered, entries>>

\* The callback cannot parse the message, finds no connection, or send raises
\* because the connection is closed: the message is gone.
Drop(m) ==
    /\ up
    /\ m \in inbox
    /\ ~\E c \in Conns : Reaches(m, c)
    /\ inbox' = inbox \ {m}
    /\ UNCHANGED <<up, consumer, wsConnections, stage, environment, history>>

-----------------------------------------------------------------------------
(***************************************************************************)
(* The environment.                                                        *)
(***************************************************************************)

\* The ETL publishes a message for a user.
Publish(m) ==
    /\ m \notin published
    /\ published' = published \cup {m}
    /\ queue' = queue \cup {m}
    /\ UNCHANGED <<worker, open, losses, received, overlapped, entered, entries>>

\* A message in the queue expires.
Expire(m) ==
    /\ m \in queue
    /\ queue' = queue \ {m}
    /\ UNCHANGED <<worker, open, losses, history>>

\* The connection to RabbitMQ breaks. aio_pika.connect does not reconnect, and
\* the coroutine goes on waiting for a future that nothing completes.
LoseBroker ==
    /\ consumer = "on"
    /\ losses < MaxLosses
    /\ losses' = losses + 1
    /\ consumer' = "lost"
    /\ UNCHANGED <<up, wsConnections, stage, inbox, open, queue, history>>

\* The process is killed.
Crash ==
    /\ up
    /\ losses < MaxLosses
    /\ losses' = losses + 1
    /\ Die

\* What the event loop of the process does.
Handle(c) == Register(c) \/ Refuse(c) \/ Unregister(c)
Callback(m) == Push(m) \/ Send(m) \/ Drop(m)

Next ==
    \/ Start \/ Consume \/ GiveUp
    \/ \E c \in Conns : Connect(c) \/ Handle(c) \/ Close(c)
    \/ \E m \in Messages : Callback(m) \/ Publish(m) \/ Expire(m)
    \/ LoseBroker
    \/ Crash

Spec == Init /\ [][Next]_vars

\* The event loop runs every coroutine that can run, and RabbitMQ pushes what
\* a live consumer is waiting for.
FairSpec ==
    /\ Spec
    /\ \A c \in Conns : WF_vars(Unregister(c))
    /\ \A m \in Messages : WF_vars(Callback(m))

-----------------------------------------------------------------------------
(***************************************************************************)
(* What the worker promises.                                               *)
(***************************************************************************)

\* An entry of the dictionary belongs to its user, and its handler has not
\* ended: no message is ever sent to a connection that was given up.
NoStaleEntry ==
    \A u \in Users, c \in Conns :
        wsConnections[u] = c => UserOf[c] = u /\ Served(c)

\* A user with one connection at a time is registered as long as his handler
\* runs. Only a second connection of his own can lose the entry: when the
\* first one ends, its finally clause removes the entry of the second.
AloneIsRegistered ==
    \A c \in Conns :
        Served(c) /\ UserOf[c] \notin overlapped => wsConnections[UserOf[c]] = c

\* Of several connections of a user the entry is the one that came last.
NewestWins ==
    \A u \in Users, c, d \in Conns :
        wsConnections[u] = c /\ Served(d) /\ UserOf[d] = u /\ d # c
            => entered[d] < entered[c]

\* A message is dropped although its user has an open connection only if he
\* has had two at once, and nothing but the parser drops it otherwise.
DropsExplained ==
    [][\A m \in Messages \ Malformed :
            Drop(m) /\ (\E c \in open : Served(c) /\ UserOf[c] = Receiver[m])
                => Receiver[m] \in overlapped]_vars

\* The entry of a closed connection goes away, whichever message, crash or
\* second connection comes between.
ClosedIsRemoved ==
    \A u \in Users, c \in Conns :
        (wsConnections[u] = c /\ c \notin open) ~> wsConnections[u] # c

\* While the consumer is alive, no message stays in the queue or the inbox.
QueueDrains ==
    <>[](consumer = "on") =>
        \A m \in Messages : (m \in published) ~> (m \notin queue \cup inbox)

=============================================================================
