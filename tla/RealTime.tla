------------------------------- MODULE RealTime -------------------------------
(***************************************************************************)
(* Live updates: RedisPubSubBridge of app/core/redis_pubsub.py,            *)
(* WebSocketManager of app/core/websocket_manager.py, and the endpoint     *)
(* websocket_gateway of app/api/v1/websocket.py, on several server         *)
(* processes (Workers) that share one Redis.                               *)
(*                                                                         *)
(* The manager's lock is never held across an await, and its two maps are  *)
(* written together under it: `registered' is _socket_channels, and        *)
(* _subscriptions its inverse, Subscribers.                                *)
(***************************************************************************)
EXTENDS Naturals, Sequences, FiniteSets

CONSTANTS
    Workers, Sockets, Channels,
    Messages,      \* one for each call of publish
    WorkerOf,      \* the process that accepts a socket
    ChannelOf,     \* the channel a message is published to
    None,
    MaxFailures    \* bound on outages of Redis, lost answers and shutdowns

ASSUME SocketsHaveWorkers == WorkerOf \in [Sockets -> Workers]
ASSUME MessagesHaveChannels == ChannelOf \in [Messages -> Channels]
ASSUME NoneIsNoWorker == None \notin Workers
ASSUME FailuresAreBounded == MaxFailures \in Nat

VARIABLES
    online,        \* Redis is reachable
    subscribed,    \* workers whose psubscribe connection Redis serves
    stream,        \* what Redis has sent to a worker and its reader has not read
    client,        \* workers with a _redis client
    connected,     \* workers with _is_connected
    reader,        \* the task _reader_loop of a worker
    pc, at,        \* calls of publish: how far they are, on which worker
    lost,          \* messages that Redis took, but the call raised
    local,         \* messages broadcast without Redis
    gateway,       \* how far the endpoint is with a socket
    registered,    \* channels of a socket
    sends,         \* send_json in progress: message, by whom, socket
    received,      \* what has been sent to a socket
    failures

redis == <<online, subscribed, stream>>
bridges == <<client, connected, reader>>
calls == <<pc, at, lost, local>>
sockets == <<gateway, registered>>
vars == <<redis, bridges, calls, sockets, sends, received, failures>>

-----------------------------------------------------------------------------
ReaderStates == {"off", "none", "listening", "dead"}

CallStates == {"unsent", "publishing", "sending", "done"}

GatewayStates == {"new", "open", "dropped", "ended"}

TypeOK ==
    /\ online \in BOOLEAN
    /\ subscribed \in SUBSET Workers
    /\ stream \in [Workers -> Seq(Messages)]
    /\ client \in SUBSET Workers
    /\ connected \in SUBSET Workers
    /\ reader \in [Workers -> ReaderStates]
    /\ pc \in [Messages -> CallStates]
    /\ at \in [Messages -> Workers \cup {None}]
    /\ lost \in SUBSET Messages
    /\ local \in SUBSET Messages
    /\ gateway \in [Sockets -> GatewayStates]
    /\ registered \in [Sockets -> SUBSET Channels]
    /\ sends \in SUBSET (Messages \X {"reader", "publish"} \X Sockets)
    /\ received \in [Sockets -> Seq(Messages)]
    /\ failures \in 0 .. MaxFailures

Init ==
    /\ online \in BOOLEAN
    /\ subscribed = {}
    /\ stream = [w \in Workers |-> <<>>]
    /\ client = {} /\ connected = {}
    /\ reader = [w \in Workers |-> "off"]
    /\ pc = [m \in Messages |-> "unsent"]
    /\ at = [m \in Messages |-> None]
    /\ lost = {} /\ local = {}
    /\ gateway = [s \in Sockets |-> "new"]
    /\ registered = [s \in Sockets |-> {}]
    /\ sends = {}
    /\ received = [s \in Sockets |-> <<>>]
    /\ failures = 0

\* The members of _subscriptions[channel] on a worker.
Subscribers(w, channel) == {s \in Sockets : WorkerOf[s] = w /\ channel \in registered[s]}

-----------------------------------------------------------------------------
(* The server process: lifespan, start and stop of the bridge *)

\* Redis answers the ping and the subscription.
StartOnline(w) ==
    /\ reader[w] = "off"
    /\ online
    /\ client' = client \cup {w} /\ connected' = connected \cup {w}
    /\ subscribed' = subscribed \cup {w}
    /\ reader' = [reader EXCEPT ![w] = "listening"]
    /\ UNCHANGED <<online, stream, calls, sockets, sends, received, failures>>

\* Redis does not answer: no client and no reader.
StartOffline(w) ==
    /\ reader[w] = "off"
    /\ ~online
    /\ reader' = [reader EXCEPT ![w] = "none"]
    /\ UNCHANGED <<redis, client, connected, calls, sockets, sends, received, failures>>

\* Redis answers the ping and then fails: a client, but no reader.
StartHalf(w) ==
    /\ reader[w] = "off"
    /\ online
    /\ failures < MaxFailures
    /\ failures' = failures + 1
    /\ client' = client \cup {w}
    /\ reader' = [reader EXCEPT ![w] = "none"]
    /\ UNCHANGED <<redis, connected, calls, sockets, sends, received>>

\* At shutdown, when the connections are closed and the requests answered, the reader
\* is cancelled whatever it is at.
Stop(w) ==
    /\ reader[w] # "off"
    /\ \A s \in Sockets : WorkerOf[s] = w => gateway[s] \in {"new", "ended"}
    /\ \A m \in Messages : at[m] = w => pc[m] = "done"
    /\ failures < MaxFailures
    /\ failures' = failures + 1
    /\ reader' = [reader EXCEPT ![w] = "off"]
    /\ client' = client \ {w} /\ connected' = connected \ {w}
    /\ subscribed' = subscribed \ {w}
    /\ stream' = [stream EXCEPT ![w] = <<>>]
    /\ sends' = {send \in sends : WorkerOf[send[3]] # w}
    /\ UNCHANGED <<online, calls, sockets, received>>

-----------------------------------------------------------------------------
(* Publication *)

\* Redis hands a message to every worker it serves.
Accept(m) ==
    stream' = [w \in Workers |-> IF w \in subscribed THEN Append(stream[w], m) ELSE stream[w]]

\* broadcast_local: the subscribers of this moment, each sent to on its own.
BroadcastLocal(m, by, w) ==
    sends' = sends \cup {<<m, by, s>> : s \in Subscribers(w, ChannelOf[m])}

Fallback(m, w) ==
    /\ BroadcastLocal(m, "publish", w)
    /\ local' = local \cup {m}
    /\ pc' = [pc EXCEPT ![m] = "sending"]

\* A handler publishes: the client is made if there is none and Redis answers.
Publish(m, w) ==
    LET made   == online /\ w \notin client
        usable == made \/ (w \in client /\ w \in connected)
    IN  /\ pc[m] = "unsent"
        /\ reader[w] # "off"
        /\ at' = [at EXCEPT ![m] = w]
        /\ client' = IF made THEN client \cup {w} ELSE client
        /\ connected' = IF made THEN connected \cup {w}
                        ELSE IF w \in client THEN connected ELSE connected \ {w}
        /\ IF usable THEN pc' = [pc EXCEPT ![m] = "publishing"] /\ UNCHANGED <<local, sends>>
                     ELSE Fallback(m, w)
        /\ UNCHANGED <<redis, reader, lost, sockets, received, failures>>

\* Fault: no return after Redis took the message.
PublishTwice(m) ==
    /\ pc[m] = "publishing" /\ online
    /\ Accept(m)
    /\ Fallback(m, at[m])
    /\ UNCHANGED <<online, subscribed, bridges, at, lost, sockets, received, failures>>

PublishOk(m) ==
    /\ pc[m] = "publishing" /\ online
    /\ Accept(m)
    /\ pc' = [pc EXCEPT ![m] = "done"]
    /\ UNCHANGED <<online, subscribed, bridges, at, lost, local, sockets, sends, received,
                   failures>>

\* Redis cannot be reached.
PublishError(m) ==
    /\ pc[m] = "publishing" /\ ~online
    /\ connected' = connected \ {at[m]}
    /\ Fallback(m, at[m])
    /\ UNCHANGED <<redis, client, reader, at, lost, sockets, received, failures>>

\* Redis takes the message, but its answer is lost.
PublishLost(m) ==
    /\ pc[m] = "publishing" /\ online
    /\ failures < MaxFailures
    /\ failures' = failures + 1
    /\ Accept(m)
    /\ lost' = lost \cup {m}
    /\ connected' = connected \ {at[m]}
    /\ Fallback(m, at[m])
    /\ UNCHANGED <<online, subscribed, client, reader, at, sockets, received>>

\* gather has awaited every send.
PublishReturn(m) ==
    /\ pc[m] = "sending"
    /\ \A s \in Sockets : <<m, "publish", s>> \notin sends
    /\ pc' = [pc EXCEPT ![m] = "done"]
    /\ UNCHANGED <<redis, bridges, at, lost, local, sockets, sends, received, failures>>

-----------------------------------------------------------------------------
(* The reader task *)

\* Fault: the broadcast is a task of its own, which the loop does not await.
ReaderAlwaysReady(w) == TRUE

\* The loop awaits the broadcast of a message before it listens for the next.
ReaderReady(w) ==
    \A m \in Messages, s \in Sockets : WorkerOf[s] = w => <<m, "reader", s>> \notin sends

ReaderTakes(w) ==
    /\ reader[w] = "listening"
    /\ ReaderReady(w)
    /\ stream[w] # <<>>
    /\ BroadcastLocal(Head(stream[w]), "reader", w)
    /\ stream' = [stream EXCEPT ![w] = Tail(@)]
    /\ UNCHANGED <<online, subscribed, bridges, calls, sockets, received, failures>>

\* Fault: the worker goes on publishing to Redis.
ReaderDies(w) ==
    /\ reader[w] = "listening" /\ w \notin subscribed
    /\ ReaderReady(w)
    /\ reader' = [reader EXCEPT ![w] = "dead"]
    /\ stream' = [stream EXCEPT ![w] = <<>>]
    /\ UNCHANGED <<online, subscribed, client, connected, calls, sockets, sends, received,
                   failures>>

\* listen raises, and the loop ends.
ReaderFails(w) ==
    /\ reader[w] = "listening" /\ w \notin subscribed
    /\ ReaderReady(w)
    /\ reader' = [reader EXCEPT ![w] = "dead"]
    /\ connected' = connected \ {w}
    /\ stream' = [stream EXCEPT ![w] = <<>>]
    /\ UNCHANGED <<online, subscribed, client, calls, sockets, sends, received, failures>>

\* Or the Redis library connects and subscribes again before it raises.
ReaderReconnects(w) ==
    /\ reader[w] = "listening" /\ w \notin subscribed
    /\ ReaderReady(w)
    /\ online
    /\ subscribed' = subscribed \cup {w}
    /\ stream' = [stream EXCEPT ![w] = <<>>]
    /\ UNCHANGED <<online, bridges, calls, sockets, sends, received, failures>>

Outage ==
    /\ online
    /\ failures < MaxFailures
    /\ failures' = failures + 1
    /\ online' = FALSE /\ subscribed' = {}
    /\ UNCHANGED <<stream, bridges, calls, sockets, sends, received>>

Recovery ==
    /\ ~online
    /\ online' = TRUE
    /\ UNCHANGED <<subscribed, stream, bridges, calls, sockets, sends, received, failures>>

-----------------------------------------------------------------------------
(* Sockets *)

\* The handshake succeeds; the gateway is rejected without a trace otherwise.
Connect(s, channels) ==
    /\ gateway[s] = "new"
    /\ reader[WorkerOf[s]] # "off"
    /\ gateway' = [gateway EXCEPT ![s] = "open"]
    /\ registered' = [registered EXCEPT ![s] = channels]
    /\ UNCHANGED <<redis, bridges, calls, sends, received, failures>>

\* The client goes away; the receive loop has not noticed.
Drop(s) ==
    /\ gateway[s] = "open"
    /\ gateway' = [gateway EXCEPT ![s] = "dropped"]
    /\ UNCHANGED <<redis, bridges, calls, registered, sends, received, failures>>

\* Fault: no finally; only a failed send evicts the socket.
GatewayForgets(s) ==
    /\ gateway[s] = "dropped"
    /\ gateway' = [gateway EXCEPT ![s] = "ended"]
    /\ UNCHANGED <<redis, bridges, calls, registered, sends, received, failures>>

\* The receive loop raises; finally evicts the socket.
GatewayEnds(s) ==
    /\ gateway[s] = "dropped"
    /\ gateway' = [gateway EXCEPT ![s] = "ended"]
    /\ registered' = [registered EXCEPT ![s] = {}]
    /\ UNCHANGED <<redis, bridges, calls, sends, received, failures>>

Send(m, by, s) ==
    /\ <<m, by, s>> \in sends
    /\ gateway[s] \in {"open", "dropped"}
    /\ received' = [received EXCEPT ![s] = Append(@, m)]
    /\ sends' = sends \ {<<m, by, s>>}
    /\ UNCHANGED <<redis, bridges, calls, sockets, failures>>

\* Fault: the exception of one send leaves gather and the reader loop.
SendBreaksReader(m, by, s) ==
    /\ <<m, by, s>> \in sends
    /\ gateway[s] \in {"dropped", "ended"}
    /\ registered' = [registered EXCEPT ![s] = {}]
    /\ sends' = sends \ {<<m, by, s>>}
    /\ reader' = [reader EXCEPT ![WorkerOf[s]] = IF by = "reader" THEN "dead" ELSE @]
    /\ connected' = IF by = "reader" THEN connected \ {WorkerOf[s]} ELSE connected
    /\ UNCHANGED <<redis, client, calls, gateway, received, failures>>

\* Fault: the socket is evicted, and the send to it tried again.
SendRetries(m, by, s) ==
    /\ <<m, by, s>> \in sends
    /\ gateway[s] \in {"dropped", "ended"}
    /\ registered' = [registered EXCEPT ![s] = {}]
    /\ UNCHANGED <<redis, bridges, calls, gateway, sends, received, failures>>

\* A broken pipe evicts the socket, and no other.
SendFails(m, by, s) ==
    /\ <<m, by, s>> \in sends
    /\ gateway[s] \in {"dropped", "ended"}
    /\ registered' = [registered EXCEPT ![s] = {}]
    /\ sends' = sends \ {<<m, by, s>>}
    /\ UNCHANGED <<redis, bridges, calls, gateway, received, failures>>

-----------------------------------------------------------------------------
Answer(m) == PublishOk(m) \/ PublishError(m) \/ PublishLost(m)

Listen(w) == ReaderTakes(w) \/ ReaderFails(w) \/ ReaderReconnects(w)

Transmit(m, by, s) == Send(m, by, s) \/ SendFails(m, by, s)

Transmits(s) == \E m \in Messages, by \in {"reader", "publish"} : Transmit(m, by, s)

WorkerNext(w) ==
    \/ StartOnline(w) \/ StartOffline(w) \/ StartHalf(w) \/ Stop(w)
    \/ Listen(w)
    \/ \E m \in Messages : Publish(m, w)

SocketNext(s) ==
    \/ \E channels \in SUBSET Channels \ {{}} : Connect(s, channels)
    \/ Drop(s) \/ GatewayEnds(s) \/ Transmits(s)

Next ==
    \/ \E w \in Workers : WorkerNext(w)
    \/ \E m \in Messages : Answer(m) \/ PublishReturn(m)
    \/ \E s \in Sockets : SocketNext(s)
    \/ Outage \/ Recovery

Spec == Init /\ [][Next]_vars

(* Fairness.  Tasks that can run do, and no client keeps a send waiting for     *)
(* ever: its connection takes the data or breaks.  Redis owes no answer: the    *)
(* client has a timeout for connecting and none for what comes after.           *)
Fairness ==
    /\ \A m \in Messages : WF_vars(PublishReturn(m))
    /\ \A w \in Workers : WF_vars(Listen(w))
    /\ \A s \in Sockets : WF_vars(Transmits(s))

FairSpec == Spec /\ Fairness

-----------------------------------------------------------------------------
Before(s, m1, m2) ==
    \E i, j \in DOMAIN received[s] : i < j /\ received[s][i] = m1 /\ received[s][j] = m2

\* A socket is sent an event once: not by the reader and the publisher both, unless
\* the answer of Redis was lost.
OnceUnlessLost ==
    \A s \in Sockets, m \in Messages \ lost :
       \A i, j \in DOMAIN received[s] :
          received[s][i] = m /\ received[s][j] = m => i = j

\* All sockets, on all workers, see the events that went through Redis in one order.
SameOrder ==
    \A s1, s2 \in Sockets : \A m1, m2 \in Messages \ local :
       m1 # m2 => ~(Before(s1, m1, m2) /\ Before(s2, m2, m1))

\* A worker whose reader loop has ended keeps its events for its own sockets, which would
\* miss them.  (One that never had a reader may not: README, section 6.)
DeafWorkersStayLocal == \A w \in Workers : reader[w] = "dead" => w \notin connected

\* However eviction by a broadcast and the end of the endpoint race, a socket that has
\* gone is not kept in the registry.
EndedSocketsAreForgotten ==
    \A s \in Sockets : gateway[s] \in {"new", "ended"} => registered[s] = {}

\* Events that reach a worker are sent to its subscribers, though other sockets break
\* meanwhile: again and again all that was received has been passed on.
SubscribersAreServed == []<>(sends = {} /\ \A w \in subscribed : stream[w] = <<>>)

\* A publish that falls back on local sockets returns to its handler, whichever of them
\* break or are evicted meanwhile.  One that waits for Redis may wait for ever.
FallbackReturns == \A m \in Messages : pc[m] = "sending" ~> pc[m] = "done"

-----------------------------------------------------------------------------
(* The inductive invariant behind OnceUnlessLost, DeafWorkersStayLocal and   *)
(* EndedSocketsAreForgotten.                                                 *)

InStream(w, m) == \E i \in DOMAIN stream[w] : stream[w][i] = m

Got(s, m) == \E i \in DOMAIN received[s] : received[s][i] = m

\* A reader has a client, so that publish does not make another.
ReadersHaveClients == \A w \in Workers : reader[w] \in {"listening", "dead"} => w \in client

\* A call before its answer has left no trace, and no other worker answers for it.
CallsOK ==
    \A m \in Messages :
       /\ pc[m] # "unsent" => at[m] \in Workers
       /\ pc[m] \in {"unsent", "publishing"} =>
             /\ m \notin lost \cup local
             /\ \A w \in Workers : ~InStream(w, m)
             /\ \A s \in Sockets : ~Got(s, m)
       /\ \A by \in {"reader", "publish"}, s \in Sockets : <<m, by, s>> \in sends =>
             /\ pc[m] \in {"sending", "done"}
             /\ by = "publish" => m \in local

\* An event is on its way to a socket in one place at most, and gone when sent.
OnTheWayOnce ==
    \A m \in Messages \ lost :
       /\ m \in local => \A w \in Workers : ~InStream(w, m)
       /\ \A w \in Workers : \A i, j \in DOMAIN stream[w] :
             stream[w][i] = m /\ stream[w][j] = m => i = j
       /\ \A s \in Sockets :
             /\ InStream(WorkerOf[s], m) => <<m, "reader", s>> \notin sends /\ ~Got(s, m)
             /\ m \in local => <<m, "reader", s>> \notin sends
             /\ Got(s, m) => \A by \in {"reader", "publish"} : <<m, by, s>> \notin sends

IInv ==
    /\ TypeOK
    /\ ReadersHaveClients /\ DeafWorkersStayLocal /\ EndedSocketsAreForgotten
    /\ CallsOK /\ OnTheWayOnce /\ OnceUnlessLost
=============================================================================
