-------------------------- MODULE EngineLifecycle --------------------------
(***************************************************************************)
(* Engine (src/engine.cpp) with its SessionManager: who owns a connection, *)
(* and which thread joins the IO thread of which transport.  The threads   *)
(* are the application's, the engine's timer and one IO thread for each    *)
(* connection, named after it.  User callbacks run on the timer and on the *)
(* IO threads and may call back into the engine; the application's calls   *)
(* come from one thread.                                                   *)
(*                                                                         *)
(* A connection is a transport and its session.  An action is what happens *)
(* between two points where another thread may come in: a section under    *)
(* conn_mutex_, audit_mtx_ or the manager's mutex, or a join.              *)
(***************************************************************************)
EXTENDS Integers

CONSTANTS Conns,       \* the connections add_session is called with
          Ids,         \* the SessionIDs
          Setups       \* who has which id, which threads call stop(), and whether
                       \* callbacks remove other sessions than their own

Threads == Conns \cup {"app", "timer"}

ASSUME EngineConstants ==
    /\ {"app", "timer", "none"} \cap Conns = {}
    /\ Setups \subseteq
           [id : [Conns -> Ids], stoppers : SUBSET Threads, foreign : BOOLEAN]

None == "none"

VARIABLES setup,
          running, connections, reap_list, quarantine,
          registry,      \* SessionManager::sessions_
          audit,         \* the log a session points to: "null", "live" or "destroyed"
          io, flag,      \* each transport: its IO thread and its running_
          tick, snap,    \* the timer thread, and the sessions its pass has yet to visit
          joinable,      \* of timer_thread_
          pc,            \* where each thread is in a call of the engine
          arg, todo,     \* ... the connection, the connections it holds
          sid, back,     \* ... the id it removes, where drain_reap_list returns to
          fresh,         \* connections not added yet
          stopped        \* history: the application's stop() has returned

lists == <<connections, reap_list, quarantine>>
timerVars == <<tick, snap, joinable>>
transport == <<io, flag>>
history == <<fresh, stopped>>
calls == <<pc, arg, todo, sid, back>>
vars == <<setup, running, connections, reap_list, quarantine, registry, audit, io,
          flag, tick, snap, joinable, pc, arg, todo, sid, back, fresh, stopped>>

Init ==
    /\ setup \in Setups
    /\ running = FALSE /\ connections = {} /\ reap_list = {} /\ quarantine = {}
    /\ registry = [i \in Ids |-> None]
    /\ audit = [c \in Conns |-> "null"]
    /\ io = [c \in Conns |-> "none"] /\ flag = [c \in Conns |-> FALSE]
    /\ tick = "none" /\ snap = {} /\ joinable = FALSE
    /\ pc = [p \in Threads |-> "idle"] /\ arg = [p \in Threads |-> None]
    /\ todo = [p \in Threads |-> {}] /\ sid = [p \in Threads |-> None]
    /\ back = [p \in Threads |-> "idle"]
    /\ fresh = Conns /\ stopped = FALSE

At(p, from, to) == pc[p] = from /\ pc' = [pc EXCEPT ![p] = to]

\* User code on thread p calls the engine, about a session with id i: the
\* application's, or a callback of p's session, or one of a session that was live
\* when on_timer visited it.
Calls(p, i) ==
    /\ pc[p] = "idle"
    /\ \/ p = "app" /\ UNCHANGED <<io, tick, snap>>
       \/ /\ p \in Conns /\ io[p] = "loop"
          /\ i = setup.id[p] \/ setup.foreign
          /\ io' = [io EXCEPT ![p] = "called"]
          /\ UNCHANGED <<tick, snap>>
       \/ /\ p = "timer" /\ tick = "pass"
          /\ \E c \in snap : /\ i = setup.id[c] \/ setup.foreign
                            /\ io[c] # "none" /\ snap' = snap \ {c}
          /\ tick' = "called"
          /\ UNCHANGED io

AppIdle == pc["app"] = "idle"

\* The connections the engine's lists keep alive, and those a thread's locals do.
Parked == connections \cup reap_list \cup quarantine
Registered(c) == \E i \in Ids : registry[i] = c
Local(p) == todo[p] \cup ({arg[p]} \ {None})

----------------------------------------------------------------------------
(* ITransport::start and stop, as the engine uses them. *)

\* stop() from another thread: the flag goes down, and a thread there is is joined.
StopTransport(p, c, then) ==
    /\ flag' = [flag EXCEPT ![c] = FALSE]
    /\ IF io[c] = "none"
       THEN pc' = [pc EXCEPT ![p] = then] /\ arg' = [arg EXCEPT ![p] = None] /\ UNCHANGED back
       ELSE /\ pc' = [pc EXCEPT ![p] = "join"] /\ arg' = [arg EXCEPT ![p] = c]
            /\ back' = [back EXCEPT ![p] = then]

Join(p) ==
    /\ pc[p] = "join" /\ io[arg[p]] = "exited"
    /\ io' = [io EXCEPT ![arg[p]] = "none"]
    /\ pc' = [pc EXCEPT ![p] = back[p]] /\ back' = [back EXCEPT ![p] = "idle"]
    /\ arg' = [arg EXCEPT ![p] = None]
    /\ UNCHANGED <<setup, running, lists, registry, audit, flag, timerVars, todo, sid,
                   history>>

StartTransport(c) ==
    /\ flag' = [flag EXCEPT ![c] = TRUE]
    /\ io' = [io EXCEPT ![c] = "loop"]

\* The application's thread, done with a started transport, will let go of it ...
Releases(c, then) ==
    /\ pc' = [pc EXCEPT !["app"] = "release"] /\ arg' = [arg EXCEPT !["app"] = c]
    /\ back' = [back EXCEPT !["app"] = then]

\* ... and stops it, in the transport's destructor, if nobody else owns it.
Release ==
    LET c == arg["app"]
        kept == c \in Parked \/ \E p \in Threads \ {"app"} : c \in Local(p)
    IN  /\ pc["app"] = "release"
        /\ IF kept
           THEN /\ pc' = [pc EXCEPT !["app"] = back["app"]]
                /\ arg' = [arg EXCEPT !["app"] = None]
                /\ back' = [back EXCEPT !["app"] = "idle"]
                /\ UNCHANGED flag
           ELSE StopTransport("app", c, back["app"])
        /\ UNCHANGED <<setup, running, lists, registry, audit, io, timerVars, todo, sid, history>>

----------------------------------------------------------------------------
(* The IO thread of a connection. *)

\* The callback from which the engine was called returns.
IoReturn(c) ==
    /\ io[c] = "called" /\ pc[c] = "idle"
    /\ io' = [io EXCEPT ![c] = IF flag[c] THEN "loop" ELSE "exited"]
    /\ UNCHANGED <<setup, running, lists, registry, audit, flag, timerVars, calls, history>>

IoExit(c) ==
    /\ io[c] = "loop" /\ ~flag[c]
    /\ io' = [io EXCEPT ![c] = "exited"]
    /\ UNCHANGED <<setup, running, lists, registry, audit, flag, timerVars, calls, history>>

\* An acceptor that cannot listen gives up, with the flag still up.
IoGivesUp(c) ==
    /\ io[c] = "loop" /\ flag[c]
    /\ io' = [io EXCEPT ![c] = "exited"]
    /\ UNCHANGED <<setup, running, lists, registry, audit, flag, timerVars, calls, history>>

----------------------------------------------------------------------------
(* Engine::remove_session. *)

\* Under conn_mutex_ ...
RemoveErase(p, i) ==
    /\ Calls(p, i)
    /\ At(p, "idle", "remove")
    /\ LET found == {c \in connections : setup.id[c] = i}
       IN  \/ \E c \in found : /\ connections' = connections \ {c}
                               /\ arg' = [arg EXCEPT ![p] = c]
           \/ found = {} /\ UNCHANGED <<connections, arg>>
    /\ sid' = [sid EXCEPT ![p] = i]
    /\ UNCHANGED <<setup, running, reap_list, quarantine, registry, audit, flag, joinable,
                   todo, back, history>>

\* Faulty variant: the connection's own IO thread is treated like any other.
RemoveRegistry_joins(p) ==
    /\ pc[p] = "remove"
    /\ registry' = [registry EXCEPT ![sid[p]] = None]
    /\ sid' = [sid EXCEPT ![p] = None]
    /\ IF arg[p] = None
       THEN /\ pc' = [pc EXCEPT ![p] = "idle"]
            /\ UNCHANGED <<flag, arg, back>>
       ELSE StopTransport(p, arg[p], "idle")
    /\ UNCHANGED <<setup, running, lists, audit, io, timerVars, todo, history>>

\* ... then SessionManager::remove, by id, and the transport is stopped ...
RemoveRegistry(p) ==
    /\ pc[p] = "remove"
    /\ registry' = [registry EXCEPT ![sid[p]] = None]
    /\ sid' = [sid EXCEPT ![p] = None]
    /\ IF arg[p] \in {None, p}
       THEN /\ pc' = [pc EXCEPT ![p] = IF arg[p] = p THEN "park" ELSE "idle"]
            /\ UNCHANGED <<flag, arg, back>>
       ELSE StopTransport(p, arg[p], "idle")
    /\ UNCHANGED <<setup, running, lists, audit, io, timerVars, todo, history>>

\* Faulty variant: the last reference is dropped on the IO thread.
RemovePark_drops(p) ==
    /\ At(p, "park", "idle")
    /\ audit' = [audit EXCEPT ![p] = "null"]
    /\ UNCHANGED reap_list
    /\ arg' = [arg EXCEPT ![p] = None]
    /\ UNCHANGED <<setup, running, connections, quarantine, registry, transport,
                   timerVars, todo, sid, back, history>>

\* ... or, on the connection's own IO thread, left to the timer.
RemovePark(p) ==
    /\ At(p, "park", "idle")
    /\ audit' = [audit EXCEPT ![p] = "null"]
    /\ reap_list' = reap_list \cup {p}
    /\ arg' = [arg EXCEPT ![p] = None]
    /\ UNCHANGED <<setup, running, connections, quarantine, registry, transport,
                   timerVars, todo, sid, back, history>>

----------------------------------------------------------------------------
(* Engine::drain_reap_list, on the timer thread and at the end of stop(). *)

ReapSwap(p) ==
    /\ At(p, "reap", "reap_loop")
    /\ todo' = [todo EXCEPT ![p] = reap_list]
    /\ reap_list' = {}
    /\ UNCHANGED <<setup, running, connections, quarantine, registry, audit, transport,
                   timerVars, arg, sid, back, history>>

ReapOwn(p) ==
    /\ pc[p] = "reap_loop" /\ p \in todo[p]
    /\ audit' = [audit EXCEPT ![p] = "null"]
    /\ flag' = [flag EXCEPT ![p] = FALSE]
    /\ quarantine' = quarantine \cup {p}
    /\ todo' = [todo EXCEPT ![p] = @ \ {p}]
    /\ UNCHANGED <<setup, running, connections, reap_list, registry, io, timerVars, pc,
                   arg, sid, back, history>>

ReapOther(p) ==
    /\ pc[p] = "reap_loop"
    /\ \E c \in todo[p] \ {p} :
           /\ StopTransport(p, c, "reap_loop")
           /\ todo' = [todo EXCEPT ![p] = @ \ {c}]
    /\ UNCHANGED <<setup, running, lists, registry, audit, io, timerVars, sid, history>>

\* stopped is about a stop() that had the timer to itself.
ReapDone(p) ==
    /\ At(p, "reap_loop", "idle") /\ todo[p] = {}
    /\ stopped' = (stopped \/ p = "app")
    /\ UNCHANGED <<setup, running, lists, registry, audit, transport, timerVars, arg, todo,
                   sid, back, fresh>>

----------------------------------------------------------------------------
(* Engine::stop. *)

\* A callback does not call it while the application starts transports.
StopExchange(p) ==
    /\ p \in setup.stoppers /\ running /\ \E i \in Ids : Calls(p, i)
    /\ pc["app"] \notin {"start_loop", "release", "add", "add_start"}
    /\ running' = FALSE
    /\ At(p, "idle", "stop")
    /\ UNCHANGED <<setup, lists, registry, audit, flag, joinable, arg, todo, sid,
                   back, history>>

\* The timer thread is joined, or detached when a callback calls stop(); after the
\* logout pass the connections are taken under conn_mutex_.
StopTake(p) ==
    /\ At(p, "stop", "stop_loop")
    /\ joinable' = FALSE
    /\ IF p = "app" THEN tick = "done" /\ tick' = "none" ELSE UNCHANGED tick
    /\ todo' = [todo EXCEPT ![p] = connections]
    /\ connections' = {}
    /\ UNCHANGED <<setup, running, reap_list, quarantine, registry, audit, transport, snap,
                   arg, sid, back, history>>

StopOwn(p) ==
    /\ pc[p] = "stop_loop" /\ p \in todo[p]
    /\ flag' = [flag EXCEPT ![p] = FALSE]
    /\ reap_list' = reap_list \cup {p}
    /\ todo' = [todo EXCEPT ![p] = @ \ {p}]
    /\ UNCHANGED <<setup, running, connections, quarantine, registry, audit, io, timerVars,
                   pc, arg, sid, back, history>>

\* Faulty variant: the transport is told to stop and not joined.
StopOther_signals(p) ==
    /\ pc[p] = "stop_loop"
    /\ \E c \in todo[p] \ {p} :
           /\ flag' = [flag EXCEPT ![c] = FALSE]
           /\ todo' = [todo EXCEPT ![p] = @ \ {c}]
    /\ UNCHANGED <<setup, running, lists, registry, audit, io, timerVars, pc, arg,
                   sid, back, history>>

StopOther(p) ==
    /\ pc[p] = "stop_loop"
    /\ \E c \in todo[p] \ {p} :
           /\ StopTransport(p, c, "stop_loop")
           /\ todo' = [todo EXCEPT ![p] = @ \ {c}]
    /\ UNCHANGED <<setup, running, lists, registry, audit, io, timerVars, sid, history>>

StopDone(p) ==
    /\ At(p, "stop_loop", "reap") /\ todo[p] = {}
    /\ UNCHANGED <<setup, running, lists, registry, audit, transport, timerVars, arg, todo,
                   sid, back, history>>

----------------------------------------------------------------------------
(* The timer thread. *)

\* for_each takes its snapshot; on_timer visits the sessions in it ...
TimerPass ==
    /\ tick = "sleep"
    /\ tick' = "pass"
    /\ snap' = {registry[i] : i \in Ids} \ {None}
    /\ UNCHANGED <<setup, running, lists, registry, audit, transport, joinable, calls, history>>

\* ... and, on one, a callback that called the engine returns.
TimerReturn ==
    /\ tick = "called" /\ pc["timer"] = "idle"
    /\ tick' = "pass"
    /\ UNCHANGED <<setup, running, lists, registry, audit, transport, snap, joinable, calls,
                   history>>

\* Faulty variant: the timer does not drain the reap list.
TimerReap_skips ==
    /\ tick = "pass"
    /\ tick' = "reap" /\ snap' = {}
    /\ At("timer", "idle", "idle")
    /\ UNCHANGED <<setup, running, lists, registry, audit, transport, joinable, arg, todo, sid,
                   back, history>>

TimerReap ==
    /\ tick = "pass"
    /\ tick' = "reap" /\ snap' = {}
    /\ At("timer", "idle", "reap")
    /\ UNCHANGED <<setup, running, lists, registry, audit, transport, joinable, arg, todo, sid,
                   back, history>>

\* The end of an iteration; a detached thread is gone when it ends.
TimerLoop ==
    /\ tick = "reap" /\ pc["timer"] = "idle"
    /\ tick' = IF running THEN "sleep" ELSE IF joinable THEN "done" ELSE "none"
    /\ UNCHANGED <<setup, running, lists, registry, audit, transport, snap, joinable,
                   calls, history>>

----------------------------------------------------------------------------
(* The application's thread: start, add_session and set_audit_log. *)

\* The timer thread is spawned and the transports are taken under conn_mutex_.  The
\* engine is not started again before a stop() on another thread has returned and
\* a timer thread it detached has ended.
Start ==
    /\ AppIdle /\ ~running
    /\ tick = "none" /\ \A p \in setup.stoppers : pc[p] = "idle"
    /\ running' = TRUE /\ tick' = "sleep" /\ joinable' = TRUE
    /\ At("app", "idle", "start_loop")
    /\ todo' = [todo EXCEPT !["app"] = connections]
    /\ stopped' = FALSE
    /\ UNCHANGED <<setup, lists, registry, audit, transport, snap, arg, sid, back,
                   fresh>>

\* ... and started outside it; a failure is ignored.
StartNext ==
    /\ pc["app"] = "start_loop"
    /\ \E c \in todo["app"] :
           /\ \/ StartTransport(c) /\ Releases(c, "start_loop")
              \/ UNCHANGED <<transport, pc, arg, back>>
           /\ todo' = [todo EXCEPT !["app"] = @ \ {c}]
    /\ UNCHANGED <<setup, running, lists, registry, audit, timerVars, sid, history>>

StartDone ==
    /\ At("app", "start_loop", "idle") /\ todo["app"] = {}
    /\ UNCHANGED <<setup, running, lists, registry, audit, transport, timerVars, arg, todo,
                   sid, back, history>>

\* Under audit_mtx_: register, never replacing a session, and capture the log.
AddRegister(c) ==
    /\ AppIdle /\ c \in fresh /\ registry[setup.id[c]] = None
    /\ At("app", "idle", "add")
    /\ fresh' = fresh \ {c}
    /\ registry' = [registry EXCEPT ![setup.id[c]] = c]
    /\ audit' = [audit EXCEPT ![c] = "live"]
    /\ arg' = [arg EXCEPT !["app"] = c]
    /\ UNCHANGED <<setup, running, lists, transport, timerVars, todo, sid, back,
                   stopped>>

\* Under conn_mutex_.
AddConnect ==
    /\ At("app", "add", IF running THEN "add_start" ELSE "idle")
    /\ connections' = connections \cup {arg["app"]}
    /\ arg' = IF running THEN arg ELSE [arg EXCEPT !["app"] = None]
    /\ UNCHANGED <<setup, running, reap_list, quarantine, registry, audit, transport,
                   timerVars, todo, sid, back, history>>

AddStart ==
    /\ pc["app"] = "add_start"
    /\ \/ /\ StartTransport(arg["app"]) /\ Releases(arg["app"], "idle")
          /\ UNCHANGED connections
       \/ /\ At("app", "add_start", "add_undo")
          /\ connections' = connections \ {arg["app"]}
          /\ UNCHANGED <<transport, arg, back>>
    /\ UNCHANGED <<setup, running, reap_list, quarantine, registry, audit, timerVars, todo, sid,
                   history>>

AddUndo ==
    /\ At("app", "add_undo", "idle")
    /\ registry' = [registry EXCEPT ![setup.id[arg["app"]]] = None]
    /\ arg' = [arg EXCEPT !["app"] = None]
    /\ UNCHANGED <<setup, running, lists, audit, transport, timerVars, todo, sid, back,
                   history>>

\* Faulty variant: the live sessions are not re-wired.
SetAuditLog_forgets ==
    /\ AppIdle
    /\ audit' = [c \in Conns |-> IF audit[c] = "live" THEN "destroyed" ELSE audit[c]]
    /\ UNCHANGED <<setup, running, lists, registry, transport, timerVars, calls, history>>

\* Under audit_mtx_: the registered sessions are re-wired, the old log is destroyed.
SetAuditLog ==
    /\ AppIdle
    /\ audit' = [c \in Conns |-> IF Registered(c) THEN "live"
                                ELSE IF audit[c] = "live" THEN "destroyed" ELSE audit[c]]
    /\ UNCHANGED <<setup, running, lists, registry, transport, timerVars, calls, history>>

----------------------------------------------------------------------------
\* What a thread does inside a call of the engine.
InCall(p) ==
    \/ Join(p)
    \/ RemoveRegistry(p)
    \/ RemovePark(p)
    \/ ReapSwap(p)
    \/ ReapOwn(p)
    \/ ReapOther(p)
    \/ ReapDone(p)
    \/ StopTake(p)
    \/ StopOwn(p)
    \/ StopOther(p)
    \/ StopDone(p)

AppInCall ==
    \/ StartNext
    \/ StartDone
    \/ AddConnect
    \/ AddStart
    \/ Release
    \/ AddUndo

Timer ==
    \/ TimerPass
    \/ TimerReturn
    \/ TimerReap
    \/ TimerLoop

IoThread(c) ==
    \/ IoReturn(c)
    \/ IoExit(c)

\* A thread goes on with what it has begun.
Runs(p) ==
    \/ InCall(p)
    \/ p = "app" /\ AppInCall
    \/ p = "timer" /\ Timer
    \/ p \in Conns /\ IoThread(p)

Next ==
    \/ \E p \in Threads :
           \/ Runs(p)
           \/ StopExchange(p)
           \/ \E i \in Ids : RemoveErase(p, i)
    \/ \E c \in Conns : AddRegister(c) \/ IoGivesUp(c)
    \/ Start
    \/ SetAuditLog

\* The engine's own threads run, and callbacks return; nobody has to call the engine,
\* and the application's thread may pause for ever, in a call or between two.
Spec ==
    /\ Init
    /\ [][Next]_vars
    /\ \A p \in Threads \ {"app"} : WF_vars(Runs(p))

----------------------------------------------------------------------------
\* No transport with a thread to join loses its last owner: its destructor would
\* run where it cannot join and ~thread would end the process.
ThreadsOwned ==
    \A c \in Conns : io[c] # "none" =>
        c \in Parked \cup UNION {Local(p) : p \in Threads}

\* Only the application calls stop(), and no SessionID is added a second time.
ByContract ==
    /\ setup.stoppers = {"app"}
    /\ \A c, d \in Conns : setup.id[c] = setup.id[d] => c = d

\* engine.hpp: stop() will "join the timer thread and every transport IO thread".
\* When the application's stop() has returned, an IO thread is left only if its
\* session was removed on an IO thread meanwhile.
StopJoins ==
    stopped /\ setup.stoppers = {"app"} =>
        /\ tick = "none"
        /\ \A c \in Conns : io[c] = "none" \/ c \in reap_list \/ \E d \in Conns : arg[d] = c

\* remove_session came before add_session had connected c: c is not registered.
RemovedTooEarly(c) == setup.foreign /\ c \in connections /\ ~Registered(c)

\* No session whose IO thread runs points to a destroyed audit log, unless it is
\* being removed, or another's callback removed it while it was being added.
AuditLogAlive ==
    ByContract => \A c \in Conns :
        io[c] = "loop" =>
            \/ audit[c] # "destroyed"
            \/ \E p \in Threads : c \in Local(p)
            \/ RemovedTooEarly(c)

\* p waits to join q: an IO thread, or the timer thread.
Awaits(p, q) ==
    \/ pc[p] = "join" /\ q = arg[p]
    \/ pc[p] = "stop" /\ p = "app" /\ q = "timer"

\* A callback on c's IO thread waits in remove_session for another's.
RemovesForeign(c) == pc[c] = "join" /\ back[c] = "idle" /\ arg[c] # c

\* No threads wait for each other's end, nor one for its own, unless a callback on
\* one IO thread removes another's session while a callback on another does so too
\* or calls stop(): every other join ends, and with it the call it is part of.
NoJoinCycle ==
    \A S \in (SUBSET Threads) \ {{}} :
        (\A p \in S : \E q \in S : Awaits(p, q)) =>
            \E c, d \in S \cap Conns :
                c # d /\ RemovesForeign(c) /\ (RemovesForeign(d) \/ d \in setup.stoppers)

\* A session removed on its own IO thread is joined while the engine runs.
ParkedIsReaped ==
    \A c \in Conns : (c \in reap_list) ~> (io[c] = "none" \/ c \in quarantine \/ ~running)
=============================================================================
