---------------------------- MODULE TcpTransport ----------------------------
(***************************************************************************)
(* TcpTransport (src/transport/tcp_transport.cpp): an IO thread that       *)
(* establishes one connection after another and serves each, callers of    *)
(* send() and disconnect() on other threads, and the thread that starts    *)
(* and stops the transport.  A frame is two units of data, so that a write *)
(* can be cut short; the send queue is the units not yet written.          *)
(*                                                                         *)
(* Every wait of the IO thread is bounded by a timeout and ends in the     *)
(* same code as a wake-up does, so the wake pipe only shortens waits and   *)
(* is left out.                                                            *)
(***************************************************************************)
EXTENDS Integers, Sequences

CONSTANTS Initiator,   \* cfg_.initiator
          Senders,     \* threads that call send()
          Capacity,    \* units the kernel's send buffer takes
          MaxFrames, MaxConns   \* bounds on the frames and connections

ASSUME TransportConstants ==
    /\ Initiator \in BOOLEAN
    /\ Capacity \in Nat \ {0} /\ MaxFrames \in Nat /\ MaxConns \in Nat

VARIABLES running, connected, disconnect_requested,
          conn,         \* conn_fd_: the number of the connection, or 0
          send_queue,
          io,           \* where the IO thread is; "none" when there is none to join
          control,      \* where start() or stop() is
          pc, frame,    \* the senders, and the frame each is sending
          hangup,       \* a disconnect() under way: the connection it was called on
          stream,       \* what the kernel took, for each connection
          unread,       \* units of it the peer has not read yet
          conns, frames \* how many of each there have been

thread == <<io, control, running>>
callers == <<pc, frame, frames, hangup>>
vars == <<running, connected, disconnect_requested, conn, send_queue, io, control, pc, frame,
          hangup, stream, unread, conns, frames>>

NoCall == -1

Init ==
    /\ running = FALSE /\ connected = FALSE /\ disconnect_requested = FALSE
    /\ conn = 0 /\ send_queue = <<>>
    /\ io = "none" /\ control = "idle"
    /\ pc = [t \in Senders |-> "idle"] /\ frame = [t \in Senders |-> 0]
    /\ hangup = NoCall
    /\ stream = [k \in 1 .. MaxConns |-> <<>>]
    /\ unread = 0 /\ conns = 0 /\ frames = 0

Units(f) == <<[frame |-> f, part |-> 1], [frame |-> f, part |-> 2]>>

\* ::send takes the first n units of data, as many as it has room for or fewer.
Written(data, n) ==
    /\ n <= Len(data) /\ unread + n <= Capacity
    /\ stream' = [stream EXCEPT ![conn] = @ \o SubSeq(data, 1, n)]
    /\ unread' = unread + n

Rest(data, n) == SubSeq(data, n + 1, Len(data))

----------------------------------------------------------------------------
(* start() and stop(), which are not called concurrently. *)

StartCas ==
    /\ control = "idle" /\ ~running
    /\ running' = TRUE
    /\ control' = "armed"
    /\ UNCHANGED <<connected, disconnect_requested, conn, send_queue, io, callers, stream,
                   unread, conns>>

\* Faulty variant: the flag stays up while the old thread is joined.
StartDisarm_not ==
    /\ control = "armed"
    /\ control' = "joining"
    /\ UNCHANGED <<running, connected, disconnect_requested, conn, send_queue, io, callers,
                   stream, unread, conns>>

\* The flag goes down again until a thread left over from stop() is joined.
StartDisarm ==
    /\ control = "armed"
    /\ running' = FALSE
    /\ control' = "joining"
    /\ UNCHANGED <<connected, disconnect_requested, conn, send_queue, io, callers, stream,
                   unread, conns>>

\* With the target resolved and the wake pipe made, the thread is spawned.
StartSpawn ==
    /\ control = "joining" /\ io \in {"none", "exited"}
    /\ \/ running' = TRUE /\ io' = "outer"
       \/ running' = FALSE /\ io' = "none"
    /\ control' = "idle"
    /\ UNCHANGED <<connected, disconnect_requested, conn, send_queue, callers, stream, unread,
                   conns>>

Stop ==
    /\ control = "idle"
    /\ running' = FALSE
    /\ control' = IF io = "none" THEN "idle" ELSE "stopping"
    /\ UNCHANGED <<connected, disconnect_requested, conn, send_queue, io, callers, stream,
                   unread, conns>>

StopJoin ==
    /\ control = "stopping" /\ io = "exited"
    /\ io' = "none"
    /\ control' = "idle"
    /\ UNCHANGED <<running, connected, disconnect_requested, conn, send_queue, callers, stream,
                   unread, conns>>

\* stop() from a callback on the IO thread does not join.
StopFromCallback ==
    /\ io \in {"on_connected", "on_data", "on_disconnected"}
    /\ running' = FALSE
    /\ UNCHANGED <<connected, disconnect_requested, conn, send_queue, io, control, callers,
                   stream, unread, conns>>

----------------------------------------------------------------------------
(* The IO thread: run_initiator or run_acceptor around run_event_loop. *)

IoExit ==
    /\ io = "outer" /\ ~running
    /\ io' = "exited"
    /\ UNCHANGED <<running, connected, disconnect_requested, conn, send_queue, control, callers,
                   stream, unread, conns>>

\* bind, listen or the poll of the listening socket fails.
ListenFails ==
    /\ ~Initiator /\ io = "outer" /\ running
    /\ io' = "exited"
    /\ UNCHANGED <<running, connected, disconnect_requested, conn, send_queue, control, callers,
                   stream, unread, conns>>

\* A connection attempt, or an accept(), fails.
ConnectFails ==
    /\ io = "outer" /\ running
    /\ io' = "backoff"
    /\ UNCHANGED <<running, connected, disconnect_requested, conn, send_queue, control, callers,
                   stream, unread, conns>>

\* interruptible_sleep.
Backoff ==
    /\ io = "backoff"
    /\ io' = "outer"
    /\ UNCHANGED <<running, connected, disconnect_requested, conn, send_queue, control, callers,
                   stream, unread, conns>>

adopt_connection ==
    /\ io = "outer" /\ running /\ conns < MaxConns
    /\ io' = "on_connected"
    /\ conns' = conns + 1 /\ conn' = conns + 1
    /\ connected' = TRUE
    /\ send_queue' = <<>> /\ disconnect_requested' = FALSE
    /\ unread' = 0
    /\ UNCHANGED <<running, control, callers, stream>>

\* The callback returns; handle_recv goes on until the input runs dry, or ends.
CallbackDone ==
    /\ \/ io = "on_connected" /\ io' = "loop"
       \/ io = "on_data" /\ io' \in {"flush", "close"}
       \/ io = "on_disconnected" /\ io' = IF Initiator THEN "backoff" ELSE "outer"
    /\ UNCHANGED <<running, connected, disconnect_requested, conn, send_queue, control, callers,
                   stream, unread, conns>>

\* Faulty variant: the loop does not look at the request.
LoopTop_deaf ==
    /\ io = "loop"
    /\ io' = IF running THEN "wait" ELSE "close"
    /\ UNCHANGED <<running, connected, disconnect_requested, conn, send_queue, control, callers,
                   stream, unread, conns>>

LoopTop ==
    /\ io = "loop"
    /\ io' = IF running /\ ~disconnect_requested THEN "wait" ELSE "close"
    /\ UNCHANGED <<running, connected, disconnect_requested, conn, send_queue, control, callers,
                   stream, unread, conns>>

\* epoll_wait returns: on a timeout, a wake-up or writability the queue is
\* flushed; input is handed to on_data; a hangup, an error, the end of the input
\* or a wake-up by stop() closes the connection.
EpollWait ==
    /\ io = "wait"
    /\ io' \in {"flush", "on_data", "close"}
    /\ UNCHANGED <<running, connected, disconnect_requested, conn, send_queue, control, callers,
                   stream, unread, conns>>

\* Faulty variant: nothing is flushed.
handle_send_not ==
    /\ io = "flush"
    /\ io' = "loop"
    /\ UNCHANGED <<running, connected, disconnect_requested, conn, send_queue, control, callers,
                   stream, unread, conns>>

\* As much of the queue as the kernel takes; with room left it takes something.
handle_send ==
    /\ io = "flush"
    /\ io' = "loop"
    /\ \E n \in 0 .. Capacity :
           /\ Written(send_queue, n)
           /\ n = 0 => send_queue = <<>> \/ unread = Capacity
           /\ send_queue' = Rest(send_queue, n)
    /\ UNCHANGED <<running, connected, disconnect_requested, conn, control, callers, conns>>

SendFails ==
    /\ io = "flush" /\ send_queue # <<>>
    /\ io' = "close"
    /\ UNCHANGED <<running, connected, disconnect_requested, conn, send_queue, control, callers,
                   stream, unread, conns>>

\* close_connection under send_mutex_ ...
close_connection ==
    /\ io = "close"
    /\ io' = "shut"
    /\ conn' = 0
    /\ send_queue' = <<>> /\ disconnect_requested' = FALSE
    /\ UNCHANGED <<running, connected, control, callers, stream, unread, conns>>

\* ... and after it.
Shutdown ==
    /\ io = "shut"
    /\ io' = "on_disconnected"
    /\ connected' = FALSE
    /\ UNCHANGED <<running, disconnect_requested, conn, send_queue, control, callers, stream,
                   unread, conns>>

----------------------------------------------------------------------------
(* send() and disconnect(), from any thread. *)

SendCheck(t) ==
    /\ pc[t] = "idle" /\ connected /\ frames < MaxFrames
    /\ pc' = [pc EXCEPT ![t] = "lock"]
    /\ frame' = [frame EXCEPT ![t] = frames + 1] /\ frames' = frames + 1
    /\ UNCHANGED <<connected, disconnect_requested, conn, send_queue, thread, hangup, stream,
                   unread, conns>>

\* Faulty variant: a direct write is tried although data is queued.
SendLocked_overtakes(t) ==
    /\ pc[t] = "lock"
    /\ pc' = [pc EXCEPT ![t] = "idle"]
    /\ IF conn = 0 THEN UNCHANGED <<send_queue, stream, unread>>
       ELSE \E n \in 0 .. 2 : /\ Written(Units(frame[t]), n)
                              /\ send_queue' = send_queue \o Rest(Units(frame[t]), n)
    /\ UNCHANGED <<connected, disconnect_requested, conn, thread, frame, frames, hangup, conns>>

\* Under send_mutex_: a direct write when nothing is queued, the rest queued.
SendLocked(t) ==
    /\ pc[t] = "lock"
    /\ pc' = [pc EXCEPT ![t] = "idle"]
    /\ \/ /\ conn # 0 /\ send_queue = <<>>
          /\ \E n \in 0 .. 2 : /\ Written(Units(frame[t]), n)
                               /\ send_queue' = Rest(Units(frame[t]), n)
       \/ /\ conn # 0 /\ send_queue # <<>>
          /\ send_queue' = send_queue \o Units(frame[t])
          /\ UNCHANGED <<stream, unread>>
       \/ /\ conn = 0 \/ send_queue = <<>>   \* refused, or the direct write fails
          /\ UNCHANGED <<send_queue, stream, unread>>
    /\ UNCHANGED <<connected, disconnect_requested, conn, thread, frame, frames, hangup, conns>>

\* disconnect() is called ...
DisconnectCalled ==
    /\ hangup = NoCall
    /\ hangup' = conn
    /\ UNCHANGED <<connected, disconnect_requested, conn, send_queue, thread, pc, frame, frames,
                   stream, unread, conns>>

\* ... and gets send_mutex_.
disconnect ==
    /\ hangup # NoCall
    /\ hangup' = NoCall
    /\ disconnect_requested' = (disconnect_requested \/ conn # 0)
    /\ UNCHANGED <<connected, conn, send_queue, thread, pc, frame, frames, stream, unread, conns>>

\* The peer's side of the kernel takes data off the send buffer.
PeerReads ==
    /\ conn # 0 /\ unread > 0
    /\ unread' = unread - 1
    /\ UNCHANGED <<connected, disconnect_requested, conn, send_queue, thread, callers, stream,
                   conns>>

IoThread ==
    \/ IoExit
    \/ ConnectFails
    \/ Backoff
    \/ adopt_connection
    \/ CallbackDone
    \/ LoopTop
    \/ EpollWait
    \/ handle_send
    \/ SendFails
    \/ close_connection
    \/ Shutdown

Lifecycle ==
    \/ StartDisarm
    \/ StartSpawn
    \/ StopJoin

Next ==
    \/ StartCas
    \/ Stop
    \/ StopFromCallback
    \/ Lifecycle
    \/ ListenFails
    \/ IoThread
    \/ \E t \in Senders : SendCheck(t) \/ SendLocked(t)
    \/ DisconnectCalled
    \/ disconnect
    \/ PeerReads

\* The IO thread runs, a lifecycle call that has begun goes on, the peer reads.
Spec ==
    /\ Init
    /\ [][Next]_vars
    /\ WF_vars(IoThread)
    /\ WF_vars(Lifecycle)
    /\ WF_vars(PeerReads)

----------------------------------------------------------------------------
\* Every variable keeps its type: the kernel is never handed more than it has room
\* for, and conn_fd_ is the latest connection or none.
TypeOK ==
    /\ {running, connected, disconnect_requested} \subseteq BOOLEAN
    /\ conn \in 0 .. conns /\ conns \in 0 .. MaxConns /\ unread \in 0 .. Capacity
    /\ io \in {"none", "outer", "backoff", "on_connected", "loop", "wait", "on_data", "flush",
               "close", "shut", "on_disconnected", "exited"}
    /\ control \in {"idle", "armed", "joining", "stopping"}
    /\ hangup \in {NoCall} \cup 0 .. conns

IsFrames(s) ==
    \A i \in 1 .. Len(s) :
        /\ s[i].part = IF i % 2 = 1 THEN 1 ELSE 2
        /\ i % 2 = 0 => s[i].frame = s[i - 1].frame

\* What goes down each connection is a sequence of whole frames, with at most the
\* last one cut off by the end of the connection: frames of different threads
\* are not mixed, the queue is not overtaken, and a new connection does not start
\* with what was left of the previous one.
FramesIntact ==
    \A k \in 1 .. MaxConns : IsFrames(stream[k] \o (IF k = conn THEN send_queue ELSE <<>>))

\* close_connection: "a later disconnect() is a no-op that cannot raise the flag
\* for the next connection".  A call made on one connection ends no other.  It
\* does not hold for a call that waits for send_mutex_ while conn is replaced.
DisconnectHitsItsConnection ==
    [][(~disconnect_requested /\ disconnect_requested') => hangup \in {0, conn}]_vars

\* What is queued is written, or the connection ends, while the peer reads.
QueueDrains ==
    \A k \in 1 .. MaxConns :
        (conn = k /\ send_queue # <<>>) ~> (conn # k \/ send_queue = <<>>)

\* A requested disconnect happens.
DisconnectHappens == disconnect_requested ~> ~disconnect_requested

\* start() and stop() return, also when a thread is left from a stop() that was
\* called on it.
LifecycleReturns == (control # "idle") ~> (control = "idle")
=============================================================================
