----------------------------- MODULE PublishApi -----------------------------
(***************************************************************************)
(* The publish API (service_notice/api/src) and the queue "notice" of      *)
(* RabbitMQ behind it: POST /publish/ publishes the notice and waits for   *)
(* the broker to confirm it; a RuntimeError, which aio_pika raises for a   *)
(* connection or channel that is closed, leads to a new connection and to  *)
(* a second publish.                                                       *)
(*                                                                         *)
(* The queue is durable and its messages are not persistent. The name that *)
(* create_queue keeps stays right, since nobody deletes the queue.         *)
(***************************************************************************)
EXTENDS Naturals, FiniteSets

CONSTANTS
    Notices,        \* notices that callers post
    Callers,        \* callers, each of which waits for its answer
    NoNotice,       \* "no notice"
    MaxFaults       \* bound of the failures of the API and of RabbitMQ

ASSUME ApiAssumption == NoNotice \notin Notices /\ MaxFaults \in Nat

VARIABLES
    \* RabbitMQ
    brokerUp,       \* it runs
    queue,          \* queue[n]: the copies of n in the queue
    \* the API
    apiUp,          \* its process runs
    open,           \* self.connection is open
    call,           \* call[c]: the request of c
    \* the environment
    faults,         \* how often something failed
    \* the history
    left,           \* notices that the ETL took from the queue or a restart lost
    posts,          \* posts[n]: how often n reached the queue
    repeats,        \* repeats[n]: events that let n be posted once more
    outage          \* notices whose call met a failure of RabbitMQ

apiVars == <<brokerUp, queue, apiUp, open, call, faults>>
apiHistory == <<left, posts, repeats, outage>>

\* What is left of a call: a publish, the reconnect, the publish after it; then
\* the answer 200 or 500, or the end of the TCP connection. And whether the
\* notice has reached the queue.
Call ==
    [notice : Notices, sent : BOOLEAN,
     at : {"publish", "connect", "again", "ok", "error", "cut"}]
NoCall == [notice |-> NoNotice]

ApiTypeOK ==
    /\ brokerUp \in BOOLEAN /\ apiUp \in BOOLEAN /\ open \in BOOLEAN
    /\ queue \in [Notices -> Nat]
    /\ call \in [Callers -> Call \cup {NoCall}]
    /\ faults \in 0 .. MaxFaults
    /\ left \subseteq Notices /\ outage \subseteq Notices
    /\ posts \in [Notices -> Nat] /\ repeats \in [Notices -> Nat]

\* startup_event: the process starts with a connection.
ApiInit ==
    /\ brokerUp = TRUE /\ apiUp = TRUE /\ open = TRUE
    /\ queue = [n \in Notices |-> 0]
    /\ call = [c \in Callers |-> NoCall]
    /\ faults = 0
    /\ left = {} /\ outage = {}
    /\ posts = [n \in Notices |-> 0]
    /\ repeats = [n \in Notices |-> 0]

Active(c) == call[c] # NoCall /\ call[c].at \in {"publish", "connect", "again"}
Publishing(c) == call[c] # NoCall /\ call[c].at \in {"publish", "again"}
Calling == {call[c].notice : c \in {d \in Callers : Active(d)}}

Fault == faults < MaxFaults /\ faults' = faults + 1

\* The notice of the call reaches the queue.
Deliver(n) ==
    /\ queue' = [queue EXCEPT ![n] = @ + 1]
    /\ posts' = [posts EXCEPT ![n] = @ + 1]

NewCall(n) == [notice |-> n, sent |-> FALSE, at |-> "publish"]

-----------------------------------------------------------------------------
\* The broker confirms the message: 200.
PublishOk(c) ==
    /\ Publishing(c) /\ open
    /\ Deliver(call[c].notice)
    /\ call' = [call EXCEPT ![c].at = "ok", ![c].sent = TRUE]
    /\ UNCHANGED <<brokerUp, apiUp, open, faults, left, repeats, outage>>

\* Slip: the handler has no except clause for a RuntimeError.
AfterRuntimeErrorNone(c) == "error"
\* A RuntimeError of the first publish leads to a reconnect; one of the second
\* publish leaves the handler: 500.
AfterRuntimeError(c) == IF call[c].at = "publish" THEN "connect" ELSE "error"

\* The connection is known to be closed.
PublishClosed(c) ==
    /\ Publishing(c) /\ ~open
    /\ call' = [call EXCEPT ![c].at = AfterRuntimeError(c)]
    /\ UNCHANGED <<brokerUp, queue, apiUp, open, faults, apiHistory>>

\* Slip: an exception of the publish is answered like a confirmed message.
OtherErrorOk == "ok"
\* Any other exception of a publish is answered by 500.
OtherError == "error"

\* The connection breaks during the publish: the message is in the queue or
\* not, and the exception is a RuntimeError or another one.
PublishBreaks(c) ==
    /\ Publishing(c) /\ open
    /\ Fault
    /\ open' = FALSE
    /\ outage' = outage \cup Calling
    /\ \E at \in {AfterRuntimeError(c), OtherError} :
         \/ /\ call' = [call EXCEPT ![c].at = at]
            /\ UNCHANGED <<queue, posts, repeats>>
         \/ /\ call' = [call EXCEPT ![c].at = at, ![c].sent = TRUE]
            /\ Deliver(call[c].notice)
            /\ repeats' = IF at = "connect"
                          THEN [repeats EXCEPT ![call[c].notice] = @ + 1]
                          ELSE repeats
    /\ UNCHANGED <<brokerUp, apiUp, left>>

\* connect_broker: a new connection replaces the old one.
Connect(c) ==
    /\ Active(c) /\ call[c].at = "connect" /\ brokerUp
    /\ open' = TRUE
    /\ call' = [call EXCEPT ![c].at = "again"]
    /\ UNCHANGED <<brokerUp, queue, apiUp, faults, apiHistory>>

\* backoff gives up after a minute, and its exception leaves the handler: 500.
ConnectFails(c) ==
    /\ Active(c) /\ call[c].at = "connect" /\ ~brokerUp
    /\ call' = [call EXCEPT ![c].at = "error"]
    /\ UNCHANGED <<brokerUp, queue, apiUp, open, faults, apiHistory>>

-----------------------------------------------------------------------------
\* The process of the API dies: nobody who waits gets an answer.
ApiDies ==
    /\ apiUp
    /\ Fault
    /\ apiUp' = FALSE /\ open' = FALSE
    /\ call' = [c \in Callers |->
                  IF call[c] = NoCall THEN NoCall ELSE [call[c] EXCEPT !.at = "cut"]]
    /\ UNCHANGED <<brokerUp, queue, apiHistory>>

\* An operator starts it again; without a broker the start ends in SystemExit.
ApiStarts ==
    /\ ~apiUp /\ brokerUp
    /\ apiUp' = TRUE /\ open' = TRUE
    /\ UNCHANGED <<brokerUp, queue, call, faults, apiHistory>>

\* RabbitMQ stops, with all messages that are not persistent ...
BrokerStops ==
    /\ brokerUp
    /\ Fault
    /\ brokerUp' = FALSE /\ open' = FALSE
    /\ queue' = [n \in Notices |-> 0]
    /\ left' = left \cup {n \in Notices : queue[n] > 0}
    /\ outage' = outage \cup Calling
    /\ UNCHANGED <<apiUp, call, posts, repeats>>

\* ... and starts again (docker-compose.yaml: restart always).
BrokerStarts ==
    /\ ~brokerUp
    /\ brokerUp' = TRUE
    /\ UNCHANGED <<queue, apiUp, open, call, faults, apiHistory>>

\* The ETL takes a notice.
Consume(n) ==
    /\ queue[n] > 0
    /\ queue' = [queue EXCEPT ![n] = @ - 1]
    /\ left' = left \cup {n}
    /\ UNCHANGED <<brokerUp, apiUp, open, call, faults, posts, repeats, outage>>

ApiHandles(c) ==
    PublishOk(c) \/ PublishClosed(c) \/ PublishBreaks(c) \/ Connect(c) \/ ConnectFails(c)

ApiNext ==
    \/ \E c \in Callers : ApiHandles(c)
    \/ ApiDies \/ ApiStarts \/ BrokerStops \/ BrokerStarts
    \/ \E n \in Notices : Consume(n)

=============================================================================
