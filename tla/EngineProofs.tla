---------------------------- MODULE EngineProofs ----------------------------
(***************************************************************************)
(* The invariants of EngineLifecycle, for any number of connections and    *)
(* any choice of ids, of the threads that call stop() and of what the      *)
(* callbacks remove.  IInv follows the owners of a connection; JoinInv who *)
(* may wait for whom; StopInv what the application's stop() leaves; and    *)
(* AuditInv which sessions set_audit_log reaches.                          *)
(***************************************************************************)
EXTENDS EngineLifecycle, TLAPS

\* Where a thread is between two connections, and where it has none in hand.
Between == {"idle", "reap", "reap_loop", "stop", "stop_loop", "start_loop"}
Bare == {"idle", "remove", "park", "reap", "stop", "add", "add_start", "add_undo"}
Places == Between \cup Bare \cup {"join", "release"}

PcTypes ==
    /\ setup \in Setups
    /\ pc \in [Threads -> Places] /\ back \in [Threads -> Places]
    /\ arg \in [Threads -> Conns \cup {None}]
    /\ todo \in [Threads -> SUBSET Conns]

Types ==
    /\ PcTypes
    /\ io \in [Conns -> {"none", "loop", "called", "exited"}]
    /\ connections \subseteq Conns /\ reap_list \subseteq Conns /\ quarantine \subseteq Conns
    /\ fresh \subseteq Conns

Inside(p) == pc[p] \in {"join", "release"}

\* What a thread holds at each point of its call.
HandOk(p) ==
    /\ pc[p] \in Between => arg[p] = None
    /\ pc[p] \in Bare \/ (Inside(p) /\ back[p] = "idle") => todo[p] = {}
    /\ Inside(p) => /\ back[p] \in {"idle", "reap_loop", "stop_loop", "start_loop"}
                    /\ arg[p] \in Conns
    /\ pc[p] = "park" => p \in Conns /\ arg[p] = p
    /\ pc[p] = "stop" => p \in setup.stoppers

HandsOk == \A p \in Threads : HandOk(p)

Adding == pc["app"] \in {"add", "add_start", "add_undo"}
Starting == pc["app"] = "start_loop" \/ (Inside("app") /\ back["app"] = "start_loop")

\* What the application is about to start has no thread.
UnstartedOk ==
    /\ Adding => arg["app"] \in Conns /\ io[arg["app"]] = "none"
    /\ pc["app"] = "add_start" => running
    /\ Starting => \A c \in todo["app"] : io[c] = "none"

\* What is in connections while the engine is stopped has none either.
StoppedOk ==
    ~running /\ (\A p \in Threads : pc[p] # "stop") =>
        \A c \in connections : io[c] = "none" /\ (Starting => c \notin todo["app"])

FreshOk ==
    \A c \in fresh :
        /\ io[c] = "none" /\ c \notin connections \cup reap_list
        /\ \A p \in Threads : c \notin Local(p)

\* The inductive invariant: why every place that overwrites a thread's locals finds
\* them empty, and why a transport dropped from start()'s list has no thread.
IInv == Types /\ HandsOk /\ UnstartedOk /\ StoppedOk /\ FreshOk /\ ThreadsOwned

----------------------------------------------------------------------------
(* Who joins whom, and what stop() leaves. *)

\* A thread inside stop(); on an IO thread, drain_reap_list is part of it.
Stopping(p) ==
    \/ pc[p] \in {"stop", "stop_loop", "reap", "reap_loop"}
    \/ pc[p] = "join" /\ back[p] \in {"stop_loop", "reap_loop"}

\* An IO thread in a call of the engine, and the one of them that may be in stop().
JoinOk(c) ==
    /\ pc[c] \in {"idle", "remove", "park", "join", "stop", "stop_loop", "reap", "reap_loop"}
    /\ pc[c] # "idle" => io[c] = "called"
    /\ pc[c] = "join" => arg[c] # c /\ back[c] \in {"idle", "stop_loop", "reap_loop"}
    /\ Stopping(c) => /\ c \in setup.stoppers /\ ~running
                      /\ \A d \in Conns : Stopping(d) => d = c

JoinInv == \A c \in Conns : JoinOk(c)

\* Where the application's stop() is, when nobody else calls it.
StopInv ==
    setup.stoppers = {"app"} =>
        /\ quarantine = {}
        /\ tick \in {"none", "done", "sleep"} => pc["timer"] = "idle"
        /\ pc["app"] = "release" => back["app"] \in {"idle", "start_loop"}
        /\ Stopping("app") => ~running /\ (pc["app"] = "stop" \/ tick = "none")
        /\ stopped => /\ ~running /\ tick = "none" /\ pc["app"] \in {"idle", "remove", "add"}
                      /\ pc["app"] = "remove" /\ arg["app"] # None => io[arg["app"]] = "none"

----------------------------------------------------------------------------
(* Which sessions set_audit_log reaches. *)

RegistryTypes ==
    /\ registry \in [Ids -> Conns \cup {None}]
    /\ audit \in [Conns -> {"null", "live", "destroyed"}]
    /\ sid \in [Threads -> Ids \cup {None}]
    /\ snap \subseteq Conns

\* The application has registered c and not yet connected it.
Added(c) == pc["app"] = "add" /\ arg["app"] = c

\* The thread p is between erasing a connection and SessionManager::remove.
RemoveOk(p) ==
    pc[p] = "remove" =>
        /\ sid[p] \in Ids
        /\ arg[p] # None => /\ arg[p] \notin connections /\ ~Added(arg[p])
                            /\ setup.id[arg[p]] = sid[p]
        /\ ~setup.foreign =>
               \A c \in Conns : setup.id[c] = sid[p] =>
                   c \notin connections /\ (p # "app" => c \notin fresh /\ ~Added(c))

RegistryOk ==
    /\ \A i \in Ids : registry[i] # None => registry[i] \notin fresh /\ setup.id[registry[i]] = i
    /\ pc["app"] \in {"add", "add_undo"} => arg["app"] \notin connections
    /\ \A p \in Threads : RemoveOk(p)
    /\ \A c \in Conns : pc[c] = "park" => c \notin connections /\ ~Added(c) /\ ~Registered(c)

\* A session that set_audit_log does not reach was removed before it was connected.
Wired(c) == IF Registered(c) THEN audit[c] = "live" ELSE setup.foreign

WiredOk ==
    /\ \A c \in Conns : c \in connections \/ Added(c) => Wired(c)
    /\ \A c \in reap_list : ~Registered(c) /\ audit[c] = "null"

AuditInv == RegistryTypes /\ (ByContract => RegistryOk /\ WiredOk)

----------------------------------------------------------------------------
(* What every action keeps. *)

\* A step that moves no IO thread and that of c at most while c is in no call.
LEMMA JoinQuiet ==
    ASSUME JoinInv, NEW c \in Conns, UNCHANGED <<setup, running>>,
           \A d \in Conns : pc'[d] = pc[d] /\ arg'[d] = arg[d] /\ back'[d] = back[d],
           pc[c] # "idle" => io'[c] = io[c]
    PROVE  JoinOk(c)'
  BY DEF JoinInv, JoinOk, Stopping

\* No IO thread joins itself, and at most one of them is in stop().
LEMMA JoinKept ==
    ASSUME IInv, JoinInv, Types', Next, NEW c \in Conns
    PROVE  JoinOk(c)'
<1>1. ASSUME NEW p \in Threads, Join(p) PROVE JoinOk(c)'
  BY <1>1, EngineConstants DEF Join, JoinInv, JoinOk, Stopping, None
<1>2. ASSUME NEW p \in Threads, RemoveRegistry(p) PROVE JoinOk(c)'
  BY <1>2 DEF RemoveRegistry, StopTransport, Types, PcTypes, JoinInv, JoinOk, Stopping,
     Threads
<1>3. ASSUME NEW p \in Threads, RemovePark(p) \/ ReapSwap(p) PROVE JoinOk(c)'
  <2>1. CASE RemovePark(p)
    BY <2>1, ZenonT(30) DEF RemovePark, At, Types, PcTypes, JoinInv, JoinOk, Stopping, Threads,
       transport
  <2>2. CASE ReapSwap(p)
    BY <2>2, ZenonT(60) DEF ReapSwap, At, Types, PcTypes, JoinInv, JoinOk, Stopping, Threads,
       transport
  <2> QED
    BY <1>3, <2>1, <2>2, Zenon
<1>4. ASSUME NEW p \in Threads, ReapOwn(p) \/ StopOwn(p) PROVE JoinOk(c)'
  <2>1. CASE ReapOwn(p)
    BY <2>1, ZenonT(30) DEF ReapOwn, JoinInv, JoinOk, Stopping
  <2>2. CASE StopOwn(p)
    BY <2>2, ZenonT(30) DEF StopOwn, JoinInv, JoinOk, Stopping
  <2> QED
    BY <1>4, <2>1, <2>2, Zenon
<1>5. ASSUME NEW p \in Threads, ReapOther(p) \/ StopOther(p) PROVE JoinOk(c)'
  <2>1. CASE ReapOther(p)
    BY <2>1 DEF ReapOther, StopTransport, Types, PcTypes, HandsOk, JoinInv, JoinOk, Stopping,
       Threads
  <2>2. CASE StopOther(p)
    BY <2>2 DEF StopOther, StopTransport, Types, PcTypes, HandsOk, JoinInv, JoinOk, Stopping,
       Threads
  <2> QED
    BY <1>5, <2>1, <2>2, Zenon
<1>6. ASSUME NEW p \in Threads, ReapDone(p) \/ StopDone(p) PROVE JoinOk(c)'
  <2>1. CASE ReapDone(p)
    BY <2>1, ZenonT(30) DEF ReapDone, At, Types, PcTypes, JoinInv, JoinOk, Stopping, Threads,
       transport
  <2>2. CASE StopDone(p)
    BY <2>2 DEF StopDone, At, Types, PcTypes, JoinInv, JoinOk, Stopping, Threads, transport
  <2> QED
    BY <1>6, <2>1, <2>2, Zenon
<1>7. ASSUME NEW p \in Threads, StopTake(p) PROVE JoinOk(c)'
  BY <1>7 DEF StopTake, At, JoinInv, JoinOk, Stopping, transport
<1>8. CASE StartNext
  BY <1>8 DEF StartNext, StartTransport, Releases, UnstartedOk, Starting, IInv, Types,
     PcTypes, JoinInv, JoinOk, Stopping, Threads, transport
<1>9. CASE AddStart
  BY <1>9 DEF AddStart, At, StartTransport, Releases, UnstartedOk, Adding, IInv, Types,
     PcTypes, JoinInv, JoinOk, Stopping, Threads, transport
<1>10. CASE StartDone \/ AddConnect \/ AddUndo
  <2>1. /\ \A d \in Conns : pc'[d] = pc[d] /\ arg'[d] = arg[d] /\ back'[d] = back[d]
        /\ io' = io /\ UNCHANGED <<setup, running>>
    BY <1>10, EngineConstants, Zenon DEF StartDone, At, AddConnect, AddUndo, IInv, Types, PcTypes,
       Threads, transport
  <2> QED
    BY <2>1, JoinQuiet, Zenon
<1>11. CASE Release
  <2>1. /\ \A d \in Conns : pc'[d] = pc[d] /\ arg'[d] = arg[d] /\ back'[d] = back[d]
        /\ io' = io /\ UNCHANGED <<setup, running>>
    BY <1>11, EngineConstants DEF Release, StopTransport, IInv, Types, PcTypes, Threads,
       transport
  <2> QED
    BY <2>1, JoinQuiet, Zenon
<1>12. CASE Timer
  <2>1. /\ \A d \in Conns : pc'[d] = pc[d] /\ arg'[d] = arg[d] /\ back'[d] = back[d]
        /\ io' = io /\ UNCHANGED <<setup, running>>
    BY <1>12, EngineConstants, Zenon DEF Timer, TimerPass, TimerReturn, TimerReap, TimerLoop, At,
       IInv, Types, PcTypes, Threads, transport, calls
  <2> QED
    BY <2>1, JoinQuiet, Zenon
<1>13. ASSUME NEW d \in Conns, IoThread(d) \/ IoGivesUp(d) PROVE JoinOk(c)'
  <2>1. CASE IoReturn(d)
    BY <2>1, ZenonT(30) DEF IoReturn, Types, JoinInv, JoinOk, Stopping, calls
  <2>2. CASE IoExit(d)
    BY <2>2, ZenonT(30) DEF IoExit, Types, JoinInv, JoinOk, Stopping, calls
  <2>3. CASE IoGivesUp(d)
    BY <2>3, ZenonT(30) DEF IoGivesUp, Types, JoinInv, JoinOk, Stopping, calls
  <2> QED
    BY <1>13, <2>1, <2>2, <2>3, Zenon DEF IoThread
<1>14. ASSUME NEW p \in Threads, StopExchange(p) PROVE JoinOk(c)'
  BY <1>14, EngineConstants DEF StopExchange, Calls, At, Types, JoinInv, JoinOk, Stopping
<1>15. ASSUME NEW p \in Threads, NEW i \in Ids, RemoveErase(p, i) PROVE JoinOk(c)'
  BY <1>15, EngineConstants DEF RemoveErase, Calls, At, Types, PcTypes, JoinInv, JoinOk,
     Stopping, Threads
<1>16. ASSUME NEW d \in Conns, AddRegister(d) PROVE JoinOk(c)'
  <2>1. /\ \A x \in Conns : pc'[x] = pc[x] /\ arg'[x] = arg[x] /\ back'[x] = back[x]
        /\ io' = io /\ UNCHANGED <<setup, running>>
    BY <1>16, EngineConstants, Zenon DEF AddRegister, At, IInv, Types, PcTypes, Threads, transport
  <2> QED
    BY <2>1, JoinQuiet, Zenon
<1>17. CASE Start \/ SetAuditLog
  <2>1. CASE Start
    BY <2>1, EngineConstants, ZenonT(30) DEF Start, At, Types, PcTypes, JoinInv, JoinOk,
       Stopping, Threads, transport, calls
  <2>2. CASE SetAuditLog
    BY <2>2, EngineConstants, ZenonT(30) DEF SetAuditLog, Types, PcTypes, JoinInv, JoinOk,
       Stopping, Threads, transport, calls
  <2> QED
    BY <1>17, <2>1, <2>2, Zenon
<1> QED
  BY <1>1, <1>2, <1>3, <1>4, <1>5, <1>6, <1>7, <1>8, <1>9, <1>10, <1>11, <1>12, <1>13,
     <1>14, <1>15, <1>16, <1>17, ZenonT(30) DEF Next, Runs, InCall, AppInCall

\* Nothing happens on the timer, and nothing is started, from the join of the timer
\* thread to the next start().
LEMMA StopKept ==
    ASSUME IInv, JoinInv, Types', StopInv, Next
    PROVE  StopInv'
<1>1. ASSUME NEW p \in Threads, Join(p) PROVE StopInv'
  BY <1>1 DEF Join, IInv, HandsOk, HandOk, Inside, Stopping, StopInv, lists, timerVars,
     history
<1>2. ASSUME NEW p \in Threads, RemoveRegistry(p) PROVE StopInv'
  BY <1>2, EngineConstants DEF RemoveRegistry, StopTransport, Types, PcTypes, Stopping,
     StopInv, Threads, None, lists, timerVars, history
<1>3. ASSUME NEW p \in Threads, RemovePark(p) \/ ReapSwap(p) PROVE StopInv'
  BY <1>3, ZenonT(30) DEF RemovePark, At, ReapSwap, Types, PcTypes, Stopping, StopInv, Threads,
     timerVars, transport, history
<1>4. ASSUME NEW p \in Threads, ReapOwn(p) \/ StopOwn(p) PROVE StopInv'
  <2>1. CASE ReapOwn(p)
    BY <2>1, EngineConstants DEF ReapOwn, Types, JoinInv, JoinOk, Stopping, StopInv
  <2>2. CASE StopOwn(p)
    BY <2>2, EngineConstants, ZenonT(30) DEF StopOwn, Types, JoinInv, JoinOk, Stopping, StopInv
  <2> QED
    BY <1>4, <2>1, <2>2, Zenon
<1>5. ASSUME NEW p \in Threads, ReapOther(p) \/ StopOther(p) PROVE StopInv'
  <2>1. CASE ReapOther(p)
    BY <2>1 DEF ReapOther, StopTransport, Types, PcTypes, Stopping, StopInv, Threads, lists,
       timerVars, history
  <2>2. CASE StopOther(p)
    BY <2>2 DEF StopOther, StopTransport, Types, PcTypes, Stopping, StopInv, Threads, lists,
       timerVars, history
  <2> QED
    BY <1>5, <2>1, <2>2, Zenon
<1>6. ASSUME NEW p \in Threads, ReapDone(p) PROVE StopInv'
  BY <1>6, Zenon DEF ReapDone, At, Types, PcTypes, Stopping, StopInv, Threads, lists,
     timerVars, transport, history
<1>7. ASSUME NEW p \in Threads, StopDone(p) PROVE StopInv'
  BY <1>7, Zenon DEF StopDone, At, Types, PcTypes, Stopping, StopInv, Threads, lists, timerVars,
     transport, history
<1>8. ASSUME NEW p \in Threads, StopTake(p) PROVE StopInv'
  BY <1>8 DEF StopTake, At, Stopping, StopInv, transport, history
<1>9. CASE StartNext
  BY <1>9, ZenonT(30) DEF StartNext, Releases, Types, PcTypes, Stopping, StopInv, Threads, lists,
     timerVars, history
<1>10. CASE AddStart
  BY <1>10, ZenonT(30) DEF AddStart, At, Releases, Types, PcTypes, Stopping, StopInv, Threads,
     timerVars, history
<1>11. CASE StartDone \/ AddConnect \/ AddUndo
  BY <1>11, Zenon DEF StartDone, At, AddConnect, AddUndo, Types, PcTypes, Stopping, StopInv,
     Threads, lists, timerVars, history
<1>12. CASE Release
  BY <1>12 DEF Release, StopTransport, Types, PcTypes, Stopping, StopInv, Threads, lists,
     timerVars, history
<1>13. CASE Timer
  BY <1>13, EngineConstants, ZenonT(30) DEF Timer, TimerPass, TimerReturn, TimerReap, TimerLoop, At,
     Types, PcTypes, Stopping, StopInv, lists, history, calls
<1>14. ASSUME NEW c \in Conns, IoThread(c) \/ IoGivesUp(c) PROVE StopInv'
  <2>1. CASE IoReturn(c)
    BY <2>1, EngineConstants DEF IoReturn, Types, PcTypes, Stopping, StopInv, lists, timerVars,
       history, calls
  <2>2. CASE IoExit(c)
    BY <2>2, EngineConstants DEF IoExit, Types, PcTypes, Stopping, StopInv, lists, timerVars,
       history, calls
  <2>3. CASE IoGivesUp(c)
    BY <2>3, EngineConstants DEF IoGivesUp, Types, PcTypes, Stopping, StopInv, lists,
       timerVars, history, calls
  <2> QED
    BY <1>14, <2>1, <2>2, <2>3, Zenon DEF IoThread
<1>15. ASSUME NEW p \in Threads, StopExchange(p) PROVE StopInv'
  BY <1>15 DEF StopExchange, Calls, At, Stopping, StopInv, lists, history
<1>16. ASSUME NEW p \in Threads, NEW i \in Ids, RemoveErase(p, i) PROVE StopInv'
  <2>1. pc["app"] = "idle" =>
            /\ arg["app"] = None
            /\ setup.stoppers = {"app"} /\ ~running => \A c \in connections : io[c] = "none"
    BY EngineConstants, Zenon DEF IInv, StoppedOk, HandsOk, HandOk, Between, Threads
  <2> QED
    BY <1>16, <2>1, EngineConstants DEF RemoveErase, Calls, At, IInv, Types, PcTypes, Stopping, StopInv,
       Threads, history
<1>17. ASSUME NEW c \in Conns, AddRegister(c) PROVE StopInv'
  BY <1>17 DEF AddRegister, At, Stopping, StopInv, lists, timerVars
<1>18. CASE Start \/ SetAuditLog
  BY <1>18, Zenon DEF Start, AppIdle, At, SetAuditLog, Types, PcTypes, Stopping, StopInv, Threads,
     lists, timerVars, history, calls
<1> QED
  BY <1>1, <1>2, <1>3, <1>4, <1>5, <1>6, <1>7, <1>8, <1>9, <1>10, <1>11, <1>12, <1>13,
     <1>14, <1>15, <1>16, <1>17, <1>18, ZenonT(30) DEF Next, Runs, InCall, AppInCall

\* A connection that remove_session has erased or missed is not in connections when
\* it is unregistered.
LEMMA RegistryKept ==
    ASSUME IInv, JoinInv, Types', RegistryTypes', AuditInv, ByContract, Next
    PROVE  RegistryOk'
<1>1. ASSUME NEW p \in Threads, Join(p) PROVE RegistryOk'
  BY <1>1 DEF Join, IInv, HandsOk, HandOk, Inside, AuditInv, RegistryOk, RemoveOk, Added,
     Registered, lists, history
<1>2. ASSUME NEW p \in Threads, RemoveRegistry(p) PROVE RegistryOk'
  BY <1>2, EngineConstants DEF RemoveRegistry, StopTransport, IInv, Types, PcTypes,
     AuditInv, RegistryTypes, RegistryOk, RemoveOk, Added, Registered, Threads, None, lists,
     history
<1>3. ASSUME NEW p \in Threads, RemovePark(p) \/ ReapSwap(p) PROVE RegistryOk'
  <2>1. CASE RemovePark(p)
    BY <2>1 DEF RemovePark, At, Types, PcTypes, AuditInv, RegistryOk, RemoveOk, Added,
       Registered, Threads, history
  <2>2. CASE ReapSwap(p)
    BY <2>2 DEF ReapSwap, At, Types, PcTypes, AuditInv, RegistryOk, RemoveOk, Added,
       Registered, Threads, history
  <2> QED
    BY <1>3, <2>1, <2>2, Zenon
<1>4. ASSUME NEW p \in Threads, ReapOwn(p) \/ StopOwn(p) PROVE RegistryOk'
  <2>1. CASE ReapOwn(p)
    BY <2>1, ZenonT(30) DEF ReapOwn, AuditInv, RegistryOk, RemoveOk, Added, Registered, history
  <2>2. CASE StopOwn(p)
    BY <2>2, ZenonT(30) DEF StopOwn, AuditInv, RegistryOk, RemoveOk, Added, Registered, history
  <2> QED
    BY <1>4, <2>1, <2>2, Zenon
<1>5. ASSUME NEW p \in Threads, ReapOther(p) \/ StopOther(p) PROVE RegistryOk'
  <2>1. CASE ReapOther(p)
    BY <2>1, SMTT(30) DEF ReapOther, StopTransport, Types, PcTypes, AuditInv, RegistryOk,
       RemoveOk, Added, Registered, Threads, lists, history
  <2>2. CASE StopOther(p)
    BY <2>2, SMTT(30) DEF StopOther, StopTransport, Types, PcTypes, AuditInv, RegistryOk,
       RemoveOk, Added, Registered, Threads, lists, history
  <2> QED
    BY <1>5, <2>1, <2>2, Zenon
<1>6. ASSUME NEW p \in Threads, ReapDone(p) \/ StopDone(p) PROVE RegistryOk'
  <2>1. CASE ReapDone(p)
    BY <2>1 DEF ReapDone, At, Types, PcTypes, AuditInv, RegistryOk, RemoveOk, Added,
       Registered, Threads, lists, history
  <2>2. CASE StopDone(p)
    BY <2>2 DEF StopDone, At, Types, PcTypes, AuditInv, RegistryOk, RemoveOk, Added,
       Registered, Threads, lists, history
  <2> QED
    BY <1>6, <2>1, <2>2, Zenon
<1>7. ASSUME NEW p \in Threads, StopTake(p) PROVE RegistryOk'
  BY <1>7 DEF StopTake, At, AuditInv, RegistryOk, RemoveOk, Added, Registered, history
<1>8. CASE StartNext
  BY <1>8 DEF StartNext, Releases, Types, PcTypes, AuditInv, RegistryOk, RemoveOk, Added,
     Registered, Threads, lists, history
<1>9. CASE AddStart
  BY <1>9 DEF AddStart, At, Releases, Types, PcTypes, AuditInv, RegistryOk, RemoveOk, Added,
     Registered, Threads, history
<1>10. CASE StartDone \/ AddConnect \/ AddUndo
  <2>1. CASE StartDone
    BY <2>1, EngineConstants, ZenonT(30) DEF StartDone, At, Types, PcTypes, AuditInv,
       RegistryTypes, RegistryOk, RemoveOk, Added, Registered, Threads, None, lists, history
  <2>2. CASE AddConnect
    BY <2>2, EngineConstants, SMTT(30) DEF AddConnect, At, Types, PcTypes, AuditInv,
       RegistryTypes, RegistryOk, RemoveOk, Added, Registered, Threads, None, lists, history
  <2>3. CASE AddUndo
    BY <2>3, EngineConstants, SMTT(30) DEF AddUndo, At, Types, PcTypes, AuditInv,
       RegistryTypes, RegistryOk, RemoveOk, Added, Registered, Threads, None, lists, history
  <2> QED
    BY <1>10, <2>1, <2>2, <2>3, Zenon
<1>11. CASE Release
  BY <1>11 DEF Release, StopTransport, IInv, Types, PcTypes, HandsOk, HandOk, Inside,
     AuditInv, RegistryOk, RemoveOk, Added, Registered, Threads, lists, history
<1>12. CASE Timer
  <2>1. CASE TimerPass
    BY <2>1, ZenonT(60) DEF TimerPass, Types, PcTypes, AuditInv, RegistryOk, RemoveOk, Added,
       Registered, Threads, lists, history, calls
  <2>2. CASE TimerReturn
    BY <2>2 DEF TimerReturn, Types, PcTypes, AuditInv, RegistryOk, RemoveOk, Added, Registered,
       Threads, lists, history, calls
  <2>3. CASE TimerReap
    BY <2>3 DEF TimerReap, At, Types, PcTypes, AuditInv, RegistryOk, RemoveOk, Added,
       Registered, Threads, lists, history, calls
  <2>4. CASE TimerLoop
    BY <2>4 DEF TimerLoop, Types, PcTypes, AuditInv, RegistryOk, RemoveOk, Added, Registered,
       Threads, lists, history, calls
  <2> QED
    BY <1>12, <2>1, <2>2, <2>3, <2>4, Zenon DEF Timer
<1>13. ASSUME NEW c \in Conns, IoThread(c) \/ IoGivesUp(c) PROVE RegistryOk'
  <2>1. CASE IoReturn(c)
    BY <2>1, ZenonT(30) DEF IoReturn, AuditInv, RegistryOk, RemoveOk, Added, Registered, lists,
       history, calls
  <2>2. CASE IoExit(c)
    BY <2>2, ZenonT(30) DEF IoExit, AuditInv, RegistryOk, RemoveOk, Added, Registered, lists,
       history, calls
  <2>3. CASE IoGivesUp(c)
    BY <2>3, ZenonT(30) DEF IoGivesUp, AuditInv, RegistryOk, RemoveOk, Added, Registered,
       lists, history, calls
  <2> QED
    BY <1>13, <2>1, <2>2, <2>3, Zenon DEF IoThread
<1>14. ASSUME NEW p \in Threads, StopExchange(p) PROVE RegistryOk'
  BY <1>14 DEF StopExchange, At, AuditInv, RegistryOk, RemoveOk, Added, Registered, lists,
     history
<1>15. ASSUME NEW p \in Threads, NEW i \in Ids, RemoveErase(p, i) PROVE RegistryOk'
  BY <1>15, EngineConstants DEF RemoveErase, Calls, At, FreshOk, UnstartedOk, Adding, IInv,
     Types, PcTypes, HandsOk, HandOk, Between, AuditInv, RegistryTypes, RegistryOk,
     RemoveOk, Added, Registered, ByContract, history
<1>16. ASSUME NEW c \in Conns, AddRegister(c) PROVE RegistryOk'
  BY <1>16 DEF AddRegister, At, FreshOk, Local, IInv, Types, PcTypes, JoinInv, JoinOk,
     AuditInv, RegistryOk, RemoveOk, Added, Registered, lists
<1>17. CASE Start \/ SetAuditLog
  <2>1. CASE Start
    BY <2>1, ZenonT(30) DEF Start, At, Types, PcTypes, AuditInv, RegistryOk, RemoveOk, Added,
       Registered, Threads, lists, history, calls
  <2>2. CASE SetAuditLog
    BY <2>2, ZenonT(30) DEF SetAuditLog, Types, PcTypes, AuditInv, RegistryOk, RemoveOk, Added,
       Registered, Threads, lists, history, calls
  <2> QED
    BY <1>17, <2>1, <2>2, Zenon
<1> QED
  BY <1>1, <1>2, <1>3, <1>4, <1>5, <1>6, <1>7, <1>8, <1>9, <1>10, <1>11, <1>12, <1>13,
     <1>14, <1>15, <1>16, <1>17, ZenonT(30) DEF Next, Runs, InCall, AppInCall

\* A session in connections follows set_audit_log; a parked one has no log.
LEMMA WiredKept ==
    ASSUME IInv, JoinInv, StopInv, Types', RegistryTypes', AuditInv, ByContract, Next
    PROVE  WiredOk'
<1>1. ASSUME NEW p \in Threads, Join(p) PROVE WiredOk'
  BY <1>1, EngineConstants DEF Join, Types, PcTypes, AuditInv, Added, Registered, Wired,
     WiredOk, None, lists
<1>2. ASSUME NEW p \in Threads, RemoveRegistry(p) PROVE WiredOk'
  BY <1>2, EngineConstants DEF RemoveRegistry, StopTransport, Types, PcTypes, AuditInv,
     RegistryOk, RemoveOk, Added, Registered, Wired, WiredOk, Threads, None, lists
<1>3. ASSUME NEW p \in Threads, RemovePark(p) \/ ReapSwap(p) PROVE WiredOk'
  <2>1. CASE RemovePark(p)
    BY <2>1 DEF RemovePark, At, Types, PcTypes, AuditInv, RegistryTypes, RegistryOk, Added,
       Registered, Wired, WiredOk, Threads
  <2>2. CASE ReapSwap(p)
    BY <2>2 DEF ReapSwap, At, Types, PcTypes, AuditInv, RegistryTypes, RegistryOk, Added,
       Registered, Wired, WiredOk, Threads
  <2> QED
    BY <1>3, <2>1, <2>2, Zenon
<1>4. ASSUME NEW p \in Threads, ReapOwn(p) \/ StopOwn(p) PROVE WiredOk'
  <2>1. CASE ReapOwn(p)
    BY <2>1, EngineConstants, ZenonT(30) DEF ReapOwn, Stopping, Types, JoinInv, JoinOk,
       ByContract
  <2>2. CASE StopOwn(p)
    BY <2>2, EngineConstants, ZenonT(30) DEF StopOwn, Stopping, Types, JoinInv, JoinOk,
       ByContract
  <2> QED
    BY <1>4, <2>1, <2>2, Zenon
<1>5. ASSUME NEW p \in Threads, ReapOther(p) \/ StopOther(p) PROVE WiredOk'
  <2>1. CASE ReapOther(p)
    BY <2>1 DEF ReapOther, StopTransport, Types, PcTypes, AuditInv, Added, Registered, Wired,
       WiredOk, Threads, lists
  <2>2. CASE StopOther(p)
    BY <2>2 DEF StopOther, StopTransport, Types, PcTypes, AuditInv, Added, Registered, Wired,
       WiredOk, Threads, lists
  <2> QED
    BY <1>5, <2>1, <2>2, Zenon
<1>6. ASSUME NEW p \in Threads, ReapDone(p) \/ StopDone(p) PROVE WiredOk'
  <2>1. CASE ReapDone(p)
    BY <2>1 DEF ReapDone, At, Types, PcTypes, AuditInv, Added, Registered, Wired, WiredOk,
       Threads, lists
  <2>2. CASE StopDone(p)
    BY <2>2 DEF StopDone, At, Types, PcTypes, AuditInv, Added, Registered, Wired, WiredOk,
       Threads, lists
  <2> QED
    BY <1>6, <2>1, <2>2, Zenon
<1>7. ASSUME NEW p \in Threads, StopTake(p) PROVE WiredOk'
  BY <1>7 DEF StopTake, At, AuditInv, Added, Registered, Wired, WiredOk
<1>8. CASE StartNext
  BY <1>8 DEF StartNext, Releases, Types, PcTypes, AuditInv, Added, Registered, Wired,
     WiredOk, lists
<1>9. CASE AddStart
  BY <1>9, ZenonT(30) DEF AddStart, At, Releases, Types, PcTypes, AuditInv, Added, Registered, Wired,
     WiredOk, Threads
<1>10. CASE StartDone \/ AddConnect \/ AddUndo
  <2>1. CASE StartDone
    BY <2>1, EngineConstants DEF StartDone, At, Types, PcTypes, AuditInv, Added, Registered,
       Wired, WiredOk, lists, IInv
  <2>2. CASE AddConnect
    BY <2>2, EngineConstants DEF At, AddConnect, UnstartedOk, Adding, IInv, Types, PcTypes,
       AuditInv, RegistryTypes, RegistryOk, Added, Registered, ByContract, Wired, WiredOk
  <2>3. CASE AddUndo
    <3>1. arg["app"] \in Conns /\ arg["app"] \notin connections
      BY <2>3, Zenon DEF At, AddUndo, UnstartedOk, Adding, IInv, AuditInv, RegistryOk
    <3>2. /\ UNCHANGED <<setup, connections, reap_list, audit>>
          /\ \A c \in Conns : ~Added(c)'
      BY <2>3, Zenon DEF At, AddUndo, IInv, Types, PcTypes, Threads, Added, lists
    <3>3. \A i \in Ids : registry'[i] = IF i = setup.id[arg["app"]] THEN None ELSE registry[i]
      BY <2>3, Zenon DEF AddUndo, AuditInv, RegistryTypes
    <3>4. \A c \in Conns : Registered(c)' => Registered(c)
      BY <3>3, EngineConstants, Zenon DEF Registered, None
    <3>5. \A c \in connections : Registered(c) => Registered(c)'
      <4> SUFFICES ASSUME NEW c \in connections, NEW i \in Ids, registry[i] = c
                   PROVE  Registered(c)'
        BY Zenon DEF Registered
      <4>1. c \in Conns /\ c # None
        BY EngineConstants, Zenon DEF IInv, Types, None
      <4>2. setup.id[c] = i
        BY <4>1, Zenon DEF AuditInv, RegistryOk
      <4>3. setup.id[arg["app"]] # i
        BY <3>1, <4>1, <4>2, Zenon DEF ByContract
      <4> QED
        BY <3>3, <4>3, Zenon DEF Registered
    <3> QED
      BY <3>2, <3>4, <3>5, Zenon DEF IInv, Types, AuditInv, Wired, WiredOk
  <2> QED
    BY <1>10, <2>1, <2>2, <2>3, Zenon
<1>11. CASE Release
  BY <1>11, EngineConstants DEF Release, StopTransport, Types, PcTypes, AuditInv, Added,
     Registered, Wired, WiredOk, Threads, None, lists
<1>12. CASE Timer
  <2>1. CASE TimerPass
    BY <2>1, ZenonT(30) DEF TimerPass, Types, PcTypes, AuditInv, Added, Registered, Wired,
       WiredOk, Threads, lists, calls
  <2>2. CASE TimerReturn
    BY <2>2, ZenonT(30) DEF TimerReturn, Types, PcTypes, AuditInv, Added, Registered, Wired,
       WiredOk, Threads, lists, calls
  <2>3. CASE TimerReap
    BY <2>3, ZenonT(30) DEF TimerReap, At, Types, PcTypes, AuditInv, Added, Registered, Wired,
       WiredOk, Threads, lists, calls
  <2>4. CASE TimerLoop
    BY <2>4, ZenonT(30) DEF TimerLoop, Types, PcTypes, AuditInv, Added, Registered, Wired,
       WiredOk, Threads, lists, calls
  <2> QED
    BY <1>12, <2>1, <2>2, <2>3, <2>4, Zenon DEF Timer
<1>13. ASSUME NEW c \in Conns, IoThread(c) \/ IoGivesUp(c) PROVE WiredOk'
  <2>1. CASE IoReturn(c)
    BY <2>1, ZenonT(30) DEF IoReturn, AuditInv, Added, Registered, Wired, WiredOk, lists, calls
  <2>2. CASE IoExit(c)
    BY <2>2, ZenonT(30) DEF IoExit, AuditInv, Added, Registered, Wired, WiredOk, lists, calls
  <2>3. CASE IoGivesUp(c)
    BY <2>3, ZenonT(30) DEF IoGivesUp, AuditInv, Added, Registered, Wired, WiredOk, lists,
       calls
  <2> QED
    BY <1>13, <2>1, <2>2, <2>3, Zenon DEF IoThread
<1>14. ASSUME NEW p \in Threads, StopExchange(p) PROVE WiredOk'
  BY <1>14 DEF StopExchange, At, AuditInv, Added, Registered, Wired, WiredOk, lists
<1>15. ASSUME NEW p \in Threads, NEW i \in Ids, RemoveErase(p, i) PROVE WiredOk'
  BY <1>15 DEF RemoveErase, At, Types, PcTypes, AuditInv, Added, Registered, Wired, WiredOk,
     Threads
<1>16. ASSUME NEW c \in Conns, AddRegister(c) PROVE WiredOk'
  BY <1>16, EngineConstants DEF AddRegister, FreshOk, IInv, Types, PcTypes, AuditInv,
     RegistryTypes, Added, Registered, Wired, WiredOk, None, lists
<1>17. CASE Start
  BY <1>17, EngineConstants, SMTT(30) DEF Start, At, Types, PcTypes, AuditInv,
     RegistryTypes, RegistryOk, Added, Registered, Wired, WiredOk, Threads, lists, calls
<1>18. CASE SetAuditLog
  BY <1>18, EngineConstants, SMTT(30) DEF SetAuditLog, Types, PcTypes, AuditInv,
     RegistryTypes, RegistryOk, Added, Registered, Wired, WiredOk, Threads, lists, calls
<1> QED
  BY <1>1, <1>2, <1>3, <1>4, <1>5, <1>6, <1>7, <1>8, <1>9, <1>10, <1>11, <1>12, <1>13,
     <1>14, <1>15, <1>16, <1>17, <1>18, ZenonT(30) DEF Next, Runs, InCall, AppInCall

\* Only the application's thread starts a transport, and only one without a thread.
LEMMA UnstartedKept ==
    ASSUME IInv, Types', HandsOk', Next
    PROVE  UnstartedOk' /\ StoppedOk'
<1>1. ASSUME NEW p \in Threads, Join(p) PROVE UnstartedOk' /\ StoppedOk'
  BY <1>1 DEF Join, IInv, HandsOk, HandOk, Inside, UnstartedOk, StoppedOk, Adding, Starting,
     lists
<1>2. ASSUME NEW p \in Threads, RemoveRegistry(p) PROVE UnstartedOk' /\ StoppedOk'
  BY <1>2 DEF RemoveRegistry, StopTransport, IInv, Types, PcTypes, Inside, UnstartedOk,
     StoppedOk, Adding, Starting, Threads, lists
<1>3. ASSUME NEW p \in Threads, RemovePark(p) \/ ReapSwap(p) PROVE UnstartedOk' /\ StoppedOk'
  <2>1. CASE RemovePark(p)
    BY <2>1, ZenonT(30) DEF RemovePark, At, IInv, Types, PcTypes, Inside, UnstartedOk,
       StoppedOk, Adding, Starting, Threads, transport
  <2>2. CASE ReapSwap(p)
    BY <2>2, ZenonT(30) DEF ReapSwap, At, IInv, Types, PcTypes, Inside, UnstartedOk, StoppedOk,
       Adding, Starting, Threads, transport
  <2> QED
    BY <1>3, <2>1, <2>2, Zenon
<1>4. ASSUME NEW p \in Threads, ReapOwn(p) \/ StopOwn(p) PROVE UnstartedOk' /\ StoppedOk'
  BY <1>4, ZenonT(30) DEF ReapOwn, StopOwn, IInv, Types, PcTypes, Inside, UnstartedOk, StoppedOk,
     Adding, Starting, Threads
<1>5. ASSUME NEW p \in Threads, ReapOther(p) \/ StopOther(p) PROVE UnstartedOk' /\ StoppedOk'
  <2>1. CASE ReapOther(p)
    BY <2>1 DEF ReapOther, StopTransport, IInv, Types, PcTypes, Inside, UnstartedOk, StoppedOk,
       Adding, Starting, Threads, lists
  <2>2. CASE StopOther(p)
    BY <2>2 DEF StopOther, StopTransport, IInv, Types, PcTypes, Inside, UnstartedOk, StoppedOk,
       Adding, Starting, Threads, lists
  <2> QED
    BY <1>5, <2>1, <2>2, Zenon
<1>6. ASSUME NEW p \in Threads, ReapDone(p) \/ StopDone(p) PROVE UnstartedOk' /\ StoppedOk'
  BY <1>6, ZenonT(30) DEF ReapDone, At, StopDone, IInv, Types, PcTypes, Inside, UnstartedOk, StoppedOk,
     Adding, Starting, Threads, lists, transport
<1>7. ASSUME NEW p \in Threads, StopTake(p) PROVE UnstartedOk' /\ StoppedOk'
  BY <1>7 DEF StopTake, At, IInv, Inside, UnstartedOk, StoppedOk, Adding, Starting,
     transport
<1>8. CASE StartNext
  BY <1>8 DEF StartNext, StartTransport, Releases, IInv, Types, PcTypes, UnstartedOk,
     StoppedOk, Adding, Starting, lists, transport
<1>9. CASE AddStart
  BY <1>9, Zenon DEF AddStart, At, Releases, IInv, Types, PcTypes, Inside, UnstartedOk, StoppedOk,
     Adding, Starting, Threads, transport
<1>10. CASE StartDone \/ AddConnect \/ AddUndo
  <2>1. CASE StartDone
    BY <2>1 DEF StartDone, At, IInv, Types, PcTypes, Inside, UnstartedOk, StoppedOk, Adding,
       Starting, lists, transport
  <2>2. CASE AddConnect
    BY <2>2 DEF AddConnect, At, IInv, Types, PcTypes, Inside, UnstartedOk, StoppedOk, Adding,
       Starting, lists, transport
  <2>3. CASE AddUndo
    BY <2>3 DEF AddUndo, At, IInv, Types, PcTypes, Inside, UnstartedOk, StoppedOk, Adding,
       Starting, lists, transport
  <2> QED
    BY <1>10, <2>1, <2>2, <2>3, Zenon
<1>11. CASE Release
  BY <1>11 DEF Release, StopTransport, IInv, Types, PcTypes, HandsOk, HandOk, Inside,
     UnstartedOk, StoppedOk, Adding, Starting, lists
<1>12. CASE Timer
  <2>1. CASE TimerPass
    BY <2>1, ZenonT(30) DEF TimerPass, IInv, Types, PcTypes, Inside, UnstartedOk, StoppedOk,
       Adding, Starting, Threads, lists, transport, calls
  <2>2. CASE TimerReturn
    BY <2>2, ZenonT(30) DEF TimerReturn, IInv, Types, PcTypes, Inside, UnstartedOk, StoppedOk,
       Adding, Starting, Threads, lists, transport, calls
  <2>3. CASE TimerReap
    BY <2>3, ZenonT(30) DEF TimerReap, At, IInv, Types, PcTypes, Inside, UnstartedOk,
       StoppedOk, Adding, Starting, Threads, lists, transport, calls
  <2>4. CASE TimerLoop
    BY <2>4, ZenonT(30) DEF TimerLoop, IInv, Types, PcTypes, Inside, UnstartedOk, StoppedOk,
       Adding, Starting, Threads, lists, transport, calls
  <2> QED
    BY <1>12, <2>1, <2>2, <2>3, <2>4, Zenon DEF Timer
<1>13. ASSUME NEW c \in Conns, IoThread(c) \/ IoGivesUp(c) PROVE UnstartedOk' /\ StoppedOk'
  <2>1. /\ UNCHANGED <<running, connections, pc, arg, todo, back>>
        /\ \A d \in Conns : io[d] = "none" => io'[d] = "none"
    BY <1>13, Zenon DEF IoThread, IoReturn, IoExit, IoGivesUp, IInv, Types, lists, calls
  <2> QED
    BY <2>1, Zenon DEF IInv, Types, PcTypes, Inside, UnstartedOk, StoppedOk, Adding, Starting,
       Threads
<1>14. ASSUME NEW p \in Threads, StopExchange(p) PROVE UnstartedOk' /\ StoppedOk'
  <2>1. /\ UNCHANGED <<arg, todo, back>> /\ pc'[p] = "stop"
        /\ pc["app"] # "add_start" /\ pc'["app"] \in {pc["app"], "stop"}
    BY <1>14, Zenon DEF StopExchange, At, IInv, Types, PcTypes, Threads
  <2>2. \A d \in Conns : io[d] = "none" => io'[d] = "none"
    BY <1>14, Zenon DEF StopExchange, Calls, IInv, Types
  <2>3. StoppedOk'
    BY <2>1, Zenon DEF StoppedOk
  <2>4. UnstartedOk'
    BY <2>1, <2>2, Zenon DEF IInv, Types, PcTypes, UnstartedOk, Adding, Starting, Inside, Threads
  <2> QED
    BY <2>3, <2>4, Zenon
<1>15. ASSUME NEW p \in Threads, NEW i \in Ids, RemoveErase(p, i) PROVE UnstartedOk' /\ StoppedOk'
  BY <1>15 DEF RemoveErase, Calls, At, IInv, Types, PcTypes, Inside, UnstartedOk, StoppedOk,
     Adding, Starting, Threads
<1>16. ASSUME NEW c \in Conns, AddRegister(c) PROVE UnstartedOk' /\ StoppedOk'
  BY <1>16 DEF AddRegister, At, FreshOk, IInv, Types, PcTypes, Inside, UnstartedOk,
     StoppedOk, Starting, lists, transport
<1>17. CASE Start \/ SetAuditLog
  <2>1. CASE Start
    BY <2>1 DEF Start, At, IInv, Types, PcTypes, HandsOk, HandOk, Inside, UnstartedOk,
       StoppedOk, Adding, Starting, lists, transport, calls
  <2>2. CASE SetAuditLog
    BY <2>2, ZenonT(30) DEF SetAuditLog, IInv, Types, PcTypes, HandsOk, HandOk, Inside,
       UnstartedOk, StoppedOk, Adding, Starting, lists, transport, calls
  <2> QED
    BY <1>17, <2>1, <2>2, Zenon
<1> QED
  BY <1>1, <1>2, <1>3, <1>4, <1>5, <1>6, <1>7, <1>8, <1>9, <1>10, <1>11, <1>12, <1>13,
     <1>14, <1>15, <1>16, <1>17, ZenonT(30) DEF Next, Runs, InCall, AppInCall

\* A connection that was not added yet is known to nobody.
LEMMA FreshKept ==
    ASSUME IInv, Types', HandsOk', Next
    PROVE  FreshOk'
<1>1. ASSUME NEW p \in Threads, Join(p) PROVE FreshOk'
  BY <1>1 DEF Join, IInv, FreshOk, Local, lists, history
<1>2. ASSUME NEW p \in Threads, RemoveRegistry(p) PROVE FreshOk'
  BY <1>2 DEF RemoveRegistry, StopTransport, IInv, Types, PcTypes, FreshOk, Local, lists,
     history
<1>3. ASSUME NEW p \in Threads, RemovePark(p) \/ ReapSwap(p) PROVE FreshOk'
  <2>1. CASE RemovePark(p)
    BY <2>1, EngineConstants DEF RemovePark, At, IInv, Types, PcTypes, HandsOk, HandOk,
       FreshOk, Local, None, transport, history
  <2>2. CASE ReapSwap(p)
    BY <2>2, EngineConstants, ZenonT(60) DEF ReapSwap, At, IInv, Types, PcTypes, HandsOk,
       HandOk, FreshOk, Local, None, transport, history
  <2> QED
    BY <1>3, <2>1, <2>2, Zenon
<1>4. ASSUME NEW p \in Threads, ReapOwn(p) \/ StopOwn(p) PROVE FreshOk'
  <2>1. CASE ReapOwn(p)
    BY <2>1, ZenonT(30) DEF ReapOwn, IInv, Types, PcTypes, FreshOk, Local, history
  <2>2. CASE StopOwn(p)
    BY <2>2 DEF StopOwn, IInv, Types, PcTypes, FreshOk, Local, history
  <2> QED
    BY <1>4, <2>1, <2>2, Zenon
<1>5. ASSUME NEW p \in Threads, ReapOther(p) \/ StopOther(p) PROVE FreshOk'
  <2>1. CASE ReapOther(p)
    BY <2>1 DEF ReapOther, StopTransport, IInv, Types, PcTypes, FreshOk, Local, lists, history
  <2>2. CASE StopOther(p)
    BY <2>2 DEF StopOther, StopTransport, IInv, Types, PcTypes, FreshOk, Local, lists, history
  <2> QED
    BY <1>5, <2>1, <2>2, Zenon
<1>6. ASSUME NEW p \in Threads, ReapDone(p) \/ StopDone(p) PROVE FreshOk'
  BY <1>6, Zenon DEF ReapDone, StopDone, IInv, FreshOk, Local, lists, transport, history
<1>7. ASSUME NEW p \in Threads, StopTake(p) PROVE FreshOk'
  <2>1. /\ UNCHANGED <<fresh, reap_list, io>> /\ connections' \subseteq connections
        /\ \A q \in Threads : Local(q)' \subseteq Local(q) \cup connections
    BY <1>7, Zenon DEF StopTake, Local, IInv, Types, PcTypes, transport, history
  <2> QED
    BY <2>1, Zenon DEF IInv, FreshOk
<1>8. CASE StartNext
  BY <1>8 DEF StartNext, StartTransport, Releases, IInv, Types, PcTypes, FreshOk, Local,
     lists, transport, history
<1>9. CASE AddStart
  BY <1>9, EngineConstants DEF AddStart, StartTransport, Releases, IInv, Types, PcTypes,
     FreshOk, Local, Threads, None, transport, history
<1>10. CASE StartDone \/ AddConnect \/ AddUndo
  <2>1. CASE StartDone
    BY <2>1, EngineConstants, ZenonT(30) DEF StartDone, At, IInv, Types, PcTypes, FreshOk,
       Local, Threads, None, lists, transport, history
  <2>2. CASE AddConnect
    BY <2>2, EngineConstants, ZenonT(30) DEF AddConnect, At, IInv, Types, PcTypes, FreshOk,
       Local, Threads, None, lists, transport, history
  <2>3. CASE AddUndo
    BY <2>3, EngineConstants, ZenonT(30) DEF AddUndo, At, IInv, Types, PcTypes, FreshOk, Local,
       Threads, None, lists, transport, history
  <2> QED
    BY <1>10, <2>1, <2>2, <2>3, Zenon
<1>11. CASE Release
  BY <1>11 DEF Release, StopTransport, IInv, Types, PcTypes, FreshOk, Local, lists, history
<1>12. CASE Timer
  BY <1>12, Zenon DEF Timer, TimerPass, TimerReturn, TimerReap, TimerLoop, IInv, FreshOk,
     Local, lists, transport, history, calls
<1>13. ASSUME NEW c \in Conns, IoThread(c) \/ IoGivesUp(c) PROVE FreshOk'
  BY <1>13, Zenon DEF IoThread, IoReturn, IoExit, IoGivesUp, IInv, Types, FreshOk, Local,
     lists, history, calls
<1>14. ASSUME NEW p \in Threads, StopExchange(p) PROVE FreshOk'
  BY <1>14, Zenon DEF StopExchange, Calls, IInv, Types, FreshOk, Local, lists, history
<1>15. ASSUME NEW p \in Threads, NEW i \in Ids, RemoveErase(p, i) PROVE FreshOk'
  BY <1>15 DEF RemoveErase, Calls, IInv, Types, PcTypes, FreshOk, Local, history
<1>16. ASSUME NEW c \in Conns, AddRegister(c) PROVE FreshOk'
  <2>1. /\ fresh' = fresh \ {c} /\ UNCHANGED <<connections, reap_list, io>>
        /\ \A p \in Threads : Local(p)' \subseteq Local(p) \cup {c}
    BY <1>16, ZenonT(30) DEF AddRegister, Local, IInv, Types, PcTypes, lists, transport
  <2> QED
    BY <2>1, Zenon DEF IInv, FreshOk
<1>17. CASE Start \/ SetAuditLog
  <2>1. CASE Start
    BY <2>1, ZenonT(30) DEF Start, At, IInv, Types, PcTypes, FreshOk, Local, lists, transport,
       history, calls
  <2>2. CASE SetAuditLog
    BY <2>2, ZenonT(30) DEF SetAuditLog, IInv, Types, PcTypes, FreshOk, Local, lists,
       transport, history, calls
  <2> QED
    BY <1>17, <2>1, <2>2, Zenon
<1> QED
  BY <1>1, <1>2, <1>3, <1>4, <1>5, <1>6, <1>7, <1>8, <1>9, <1>10, <1>11, <1>12, <1>13,
     <1>14, <1>15, <1>16, <1>17, ZenonT(30) DEF Next, Runs, InCall, AppInCall

\* Every action keeps what a thread holds at each point of its call.
LEMMA HandsKept ==
    ASSUME IInv, Types', Next, NEW q \in Threads
    PROVE  HandOk(q)'
<1>1. ASSUME NEW p \in Threads, Join(p) PROVE HandOk(q)'
  BY <1>1 DEF Join, IInv, Types, PcTypes, HandsOk, HandOk, Bare, Inside
<1>2. ASSUME NEW p \in Threads, RemoveRegistry(p) PROVE HandOk(q)'
  BY <1>2 DEF RemoveRegistry, StopTransport, IInv, Types, PcTypes, HandsOk, HandOk, Between,
     Bare, Inside, Threads, None
<1>3. ASSUME NEW p \in Threads, RemovePark(p) \/ ReapSwap(p) PROVE HandOk(q)'
  <2>1. CASE RemovePark(p)
    BY <2>1, ZenonT(30) DEF RemovePark, At, IInv, Types, PcTypes, HandsOk, HandOk, Between,
       Bare, Inside
  <2>2. CASE ReapSwap(p)
    BY <2>2, ZenonT(30) DEF ReapSwap, At, IInv, Types, PcTypes, HandsOk, HandOk, Between, Bare,
       Inside
  <2> QED
    BY <1>3, <2>1, <2>2, Zenon
<1>4. ASSUME NEW p \in Threads, ReapOwn(p) \/ StopOwn(p) PROVE HandOk(q)'
  <2>1. CASE ReapOwn(p)
    BY <2>1, ZenonT(30) DEF ReapOwn, IInv, Types, PcTypes, HandsOk, HandOk, Inside
  <2>2. CASE StopOwn(p)
    BY <2>2, ZenonT(30) DEF StopOwn, IInv, Types, PcTypes, HandsOk, HandOk, Inside
  <2> QED
    BY <1>4, <2>1, <2>2, Zenon
<1>5. ASSUME NEW p \in Threads, ReapOther(p) \/ StopOther(p) PROVE HandOk(q)'
  <2>1. CASE ReapOther(p)
    BY <2>1 DEF ReapOther, StopTransport, IInv, Types, PcTypes, HandsOk, HandOk, Between, Bare,
       Inside
  <2>2. CASE StopOther(p)
    BY <2>2 DEF StopOther, StopTransport, IInv, Types, PcTypes, HandsOk, HandOk, Between, Bare,
       Inside
  <2> QED
    BY <1>5, <2>1, <2>2, Zenon
<1>6. ASSUME NEW p \in Threads, ReapDone(p) \/ StopDone(p) PROVE HandOk(q)'
  <2>1. CASE ReapDone(p)
    BY <2>1, ZenonT(30) DEF ReapDone, At, IInv, Types, PcTypes, HandsOk, HandOk, Between,
       Inside
  <2>2. CASE StopDone(p)
    BY <2>2, ZenonT(30) DEF StopDone, At, IInv, Types, PcTypes, HandsOk, HandOk, Between,
       Inside
  <2> QED
    BY <1>6, <2>1, <2>2, Zenon
<1>7. ASSUME NEW p \in Threads, StopTake(p) PROVE HandOk(q)'
  BY <1>7, ZenonT(30) DEF StopTake, At, IInv, Types, PcTypes, HandsOk, HandOk, Between, Bare, Inside
<1>8. CASE StartNext
  BY <1>8 DEF StartNext, Releases, IInv, Types, PcTypes, HandsOk, HandOk, Between, Bare,
     Inside
<1>9. CASE AddStart
  BY <1>9 DEF AddStart, At, Releases, UnstartedOk, Adding, IInv, Types, PcTypes, HandsOk,
     HandOk, Between, Bare, Inside
<1>10. CASE StartDone \/ AddConnect \/ AddUndo
  <2>1. CASE StartDone
    BY <2>1, ZenonT(30) DEF StartDone, At, IInv, Types, PcTypes, HandsOk, HandOk, Between,
       Bare, Inside
  <2>2. CASE AddConnect
    BY <2>2, ZenonT(30) DEF AddConnect, At, IInv, Types, PcTypes, HandsOk, HandOk, Between,
       Bare, Inside
  <2>3. CASE AddUndo
    BY <2>3, ZenonT(30) DEF AddUndo, At, IInv, Types, PcTypes, HandsOk, HandOk, Between, Bare,
       Inside
  <2> QED
    BY <1>10, <2>1, <2>2, <2>3, Zenon
<1>11. CASE Release
  BY <1>11 DEF Release, StopTransport, IInv, Types, PcTypes, HandsOk, HandOk, Between, Bare,
     Inside
<1>12. CASE Timer
  <2>1. CASE TimerPass
    BY <2>1, ZenonT(30) DEF TimerPass, IInv, Types, PcTypes, HandsOk, HandOk, Between, Bare,
       Inside, calls
  <2>2. CASE TimerReturn
    BY <2>2, ZenonT(30) DEF TimerReturn, IInv, Types, PcTypes, HandsOk, HandOk, Between, Bare,
       Inside, calls
  <2>3. CASE TimerReap
    BY <2>3, ZenonT(30) DEF TimerReap, At, IInv, Types, PcTypes, HandsOk, HandOk, Between,
       Bare, Inside, calls
  <2>4. CASE TimerLoop
    BY <2>4, ZenonT(30) DEF TimerLoop, IInv, Types, PcTypes, HandsOk, HandOk, Between, Bare,
       Inside, calls
  <2> QED
    BY <1>12, <2>1, <2>2, <2>3, <2>4, Zenon DEF Timer
<1>13. ASSUME NEW c \in Conns, IoThread(c) \/ IoGivesUp(c) PROVE HandOk(q)'
  BY <1>13, ZenonT(30) DEF IoThread, IoReturn, IoExit, IoGivesUp, IInv, HandsOk, HandOk, Inside, calls
<1>14. ASSUME NEW p \in Threads, StopExchange(p) PROVE HandOk(q)'
  BY <1>14 DEF StopExchange, At, IInv, HandsOk, HandOk, Between, Bare, Inside
<1>15. ASSUME NEW p \in Threads, NEW i \in Ids, RemoveErase(p, i) PROVE HandOk(q)'
  BY <1>15 DEF RemoveErase, At, IInv, Types, PcTypes, HandsOk, HandOk, Between, Bare, Inside
<1>16. ASSUME NEW c \in Conns, AddRegister(c) PROVE HandOk(q)'
  BY <1>16, ZenonT(30) DEF AddRegister, At, IInv, Types, PcTypes, HandsOk, HandOk, Between, Bare, Inside
<1>17. CASE Start \/ SetAuditLog
  <2>1. CASE Start
    BY <2>1, ZenonT(30) DEF Start, At, IInv, Types, PcTypes, HandsOk, HandOk, Between, Bare,
       Inside, calls
  <2>2. CASE SetAuditLog
    BY <2>2, ZenonT(30) DEF SetAuditLog, IInv, Types, PcTypes, HandsOk, HandOk, Between, Bare,
       Inside, calls
  <2> QED
    BY <1>17, <2>1, <2>2, Zenon
<1> QED
  BY <1>1, <1>2, <1>3, <1>4, <1>5, <1>6, <1>7, <1>8, <1>9, <1>10, <1>11, <1>12, <1>13,
     <1>14, <1>15, <1>16, <1>17, ZenonT(30) DEF Next, Runs, InCall, AppInCall

\* What an action takes out of one place it puts into another, or has joined.
LEMMA OwnedKept ==
    ASSUME IInv, Types', HandsOk', Next
    PROVE  ThreadsOwned'
<1>1. ASSUME NEW p \in Threads, Join(p) PROVE ThreadsOwned'
  BY <1>1 DEF Join, IInv, Types, ThreadsOwned, Parked, Local, lists
<1>2. ASSUME NEW p \in Threads, RemoveRegistry(p) PROVE ThreadsOwned'
  BY <1>2 DEF RemoveRegistry, StopTransport, IInv, Types, PcTypes, ThreadsOwned, Parked,
     Local, lists
<1>3. ASSUME NEW p \in Threads, RemovePark(p) \/ ReapSwap(p) PROVE ThreadsOwned'
  <2>1. CASE RemovePark(p)
    BY <2>1 DEF RemovePark, At, IInv, Types, PcTypes, HandsOk, HandOk, Bare, ThreadsOwned,
       Parked, Local, transport
  <2>2. CASE ReapSwap(p)
    BY <2>2 DEF ReapSwap, At, IInv, Types, PcTypes, HandsOk, HandOk, Bare, ThreadsOwned,
       Parked, Local, transport
  <2> QED
    BY <1>3, <2>1, <2>2, Zenon
<1>4. ASSUME NEW p \in Threads, ReapOwn(p) \/ StopOwn(p) PROVE ThreadsOwned'
  <2>1. CASE ReapOwn(p)
    BY <2>1 DEF ReapOwn, IInv, Types, PcTypes, ThreadsOwned, Parked, Local
  <2>2. CASE StopOwn(p)
    BY <2>2 DEF StopOwn, IInv, Types, PcTypes, ThreadsOwned, Parked, Local
  <2> QED
    BY <1>4, <2>1, <2>2, Zenon
<1>5. ASSUME NEW p \in Threads, ReapOther(p) \/ StopOther(p) PROVE ThreadsOwned'
  <2>1. CASE ReapOther(p)
    BY <2>1, EngineConstants DEF ReapOther, StopTransport, IInv, Types, PcTypes, HandsOk,
       HandOk, Between, ThreadsOwned, Parked, Local, None, lists
  <2>2. CASE StopOther(p)
    BY <2>2, EngineConstants DEF StopOther, StopTransport, IInv, Types, PcTypes, HandsOk,
       HandOk, Between, ThreadsOwned, Parked, Local, None, lists
  <2> QED
    BY <1>5, <2>1, <2>2, Zenon
<1>6. ASSUME NEW p \in Threads, ReapDone(p) \/ StopDone(p) PROVE ThreadsOwned'
  BY <1>6, Zenon DEF ReapDone, StopDone, IInv, ThreadsOwned, Parked, Local, lists, transport
<1>7. ASSUME NEW p \in Threads, StopTake(p) PROVE ThreadsOwned'
  BY <1>7 DEF StopTake, At, IInv, Types, PcTypes, HandsOk, HandOk, Bare, ThreadsOwned,
     Parked, Local, transport
<1>8. CASE StartNext
  BY <1>8, EngineConstants DEF StartNext, StartTransport, Releases, UnstartedOk, Starting,
     IInv, Types, PcTypes, HandsOk, HandOk, Places, ThreadsOwned, Parked, Local, None,
     lists, transport
<1>9. CASE AddStart
  BY <1>9, EngineConstants DEF AddStart, StartTransport, Releases, IInv, Types, PcTypes,
     ThreadsOwned, Parked, Local, Threads, None, transport
<1>10. CASE StartDone \/ AddConnect \/ AddUndo
  <2>1. CASE StartDone
    BY <2>1 DEF StartDone, At, UnstartedOk, Adding, IInv, Types, PcTypes, ThreadsOwned, Parked,
       Local, lists, transport
  <2>2. CASE AddConnect
    BY <2>2 DEF AddConnect, At, UnstartedOk, Adding, IInv, Types, PcTypes, ThreadsOwned,
       Parked, Local, lists, transport
  <2>3. CASE AddUndo
    BY <2>3 DEF AddUndo, At, UnstartedOk, Adding, IInv, Types, PcTypes, ThreadsOwned, Parked,
       Local, lists, transport
  <2> QED
    BY <1>10, <2>1, <2>2, <2>3, Zenon
<1>11. CASE Release
  BY <1>11 DEF Release, StopTransport, IInv, Types, PcTypes, ThreadsOwned, Parked, Local,
     lists
<1>12. CASE Timer
  BY <1>12, Zenon DEF Timer, TimerPass, TimerReturn, TimerReap, TimerLoop, IInv,
     ThreadsOwned, Parked, Local, lists, transport, calls
<1>13. ASSUME NEW c \in Conns, IoThread(c) \/ IoGivesUp(c) PROVE ThreadsOwned'
  <2>1. /\ UNCHANGED <<connections, reap_list, quarantine, arg, todo>>
        /\ \A d \in Conns : io'[d] # "none" => io[d] # "none"
    BY <1>13, Zenon DEF IoThread, IoReturn, IoExit, IoGivesUp, IInv, Types, lists, calls
  <2> QED
    BY <2>1, Zenon DEF IInv, ThreadsOwned, Parked, Local
<1>14. ASSUME NEW p \in Threads, StopExchange(p) PROVE ThreadsOwned'
  BY <1>14, ZenonT(30) DEF StopExchange, Calls, IInv, Types, ThreadsOwned, Parked, Local,
     lists
<1>15. ASSUME NEW p \in Threads, NEW i \in Ids, RemoveErase(p, i) PROVE ThreadsOwned'
  BY <1>15, EngineConstants DEF RemoveErase, Calls, IInv, Types, PcTypes, HandsOk, HandOk,
     Between, ThreadsOwned, Parked, Local, None
<1>16. ASSUME NEW c \in Conns, AddRegister(c) PROVE ThreadsOwned'
  BY <1>16 DEF AddRegister, At, IInv, HandsOk, HandOk, Between, ThreadsOwned, Parked, Local,
     lists, transport
<1>17. CASE Start \/ SetAuditLog
  <2>1. CASE Start
    BY <2>1 DEF Start, At, IInv, Types, PcTypes, HandsOk, HandOk, Bare, ThreadsOwned, Parked,
       Local, lists, transport, calls
  <2>2. CASE SetAuditLog
    BY <2>2 DEF SetAuditLog, IInv, Types, PcTypes, HandsOk, HandOk, Bare, ThreadsOwned, Parked,
       Local, lists, transport, calls
  <2> QED
    BY <1>17, <2>1, <2>2, Zenon
<1> QED
  BY <1>1, <1>2, <1>3, <1>4, <1>5, <1>6, <1>7, <1>8, <1>9, <1>10, <1>11, <1>12, <1>13,
     <1>14, <1>15, <1>16, <1>17, ZenonT(30) DEF Next, Runs, InCall, AppInCall

\* TcpTransport::stop leaves the locals of its caller typed.
LEMMA StopTypes ==
    ASSUME PcTypes, NEW p \in Threads, NEW c \in Conns, NEW then \in Places,
           StopTransport(p, c, then)
    PROVE  /\ pc' \in [Threads -> Places] /\ back' \in [Threads -> Places]
           /\ arg' \in [Threads -> Conns \cup {None}]
<1>1. "join" \in Places
  BY Zenon DEF Places
<1> QED
  BY <1>1, ZenonT(30) DEF StopTransport, PcTypes

\* Every action keeps the types, and who has which id and who calls stop().
LEMMA TypesKept ==
    ASSUME IInv, Next
    PROVE  Types' /\ setup' = setup
<1>1. ASSUME NEW p \in Threads, Join(p) PROVE Types' /\ setup' = setup
  BY <1>1, ZenonT(30) DEF Join, IInv, Types, PcTypes, HandsOk, HandOk, Places, Bare, Inside, lists,
     history
<1>2. ASSUME NEW p \in Threads, RemoveRegistry(p) PROVE Types' /\ setup' = setup
  <2>1. "idle" \in Places /\ "park" \in Places
    BY Zenon DEF Places, Bare
  <2>2. /\ pc' \in [Threads -> Places] /\ back' \in [Threads -> Places]
        /\ arg' \in [Threads -> Conns \cup {None}]
    <3>1. CASE arg[p] \in {None, p}
      BY <1>2, <2>1, <3>1, Zenon DEF RemoveRegistry, IInv, Types, PcTypes
    <3>2. CASE arg[p] \notin {None, p}
      BY <1>2, <2>1, <3>2, StopTypes, Zenon DEF RemoveRegistry, IInv, Types, PcTypes
    <3> QED
      BY <3>1, <3>2, Zenon
  <2> QED
    BY <1>2, <2>2, Zenon DEF RemoveRegistry, IInv, Types, PcTypes, lists, history
<1>3. ASSUME NEW p \in Threads, RemovePark(p) \/ ReapSwap(p) PROVE Types' /\ setup' = setup
  <2>1. "idle" \in Places /\ "reap_loop" \in Places
    BY Zenon DEF Places, Between, Bare
  <2>2. CASE RemovePark(p)
    <3>1. p \in Conns
      BY <2>2, Zenon DEF RemovePark, At, IInv, HandsOk, HandOk
    <3> QED
      BY <2>1, <2>2, <3>1, Zenon DEF RemovePark, At, IInv, Types, PcTypes, transport, history
  <2>3. CASE ReapSwap(p)
    BY <2>1, <2>3, Zenon DEF ReapSwap, At, IInv, Types, PcTypes, transport, history
  <2> QED
    BY <1>3, <2>2, <2>3, Zenon
<1>4. ASSUME NEW p \in Threads, ReapOwn(p) \/ StopOwn(p) PROVE Types' /\ setup' = setup
  BY <1>4, ZenonT(30) DEF ReapOwn, StopOwn, IInv, Types, PcTypes, history
<1>5. ASSUME NEW p \in Threads, ReapOther(p) \/ StopOther(p) PROVE Types' /\ setup' = setup
  <2>1. PICK then \in {"reap_loop", "stop_loop"}, c \in todo[p] :
            StopTransport(p, c, then) /\ todo' = [todo EXCEPT ![p] = @ \ {c}]
    BY <1>5, Zenon DEF ReapOther, StopOther
  <2>2. then \in Places /\ c \in Conns
    BY Zenon DEF IInv, Types, PcTypes, Places, Between
  <2>3. /\ pc' \in [Threads -> Places] /\ back' \in [Threads -> Places]
        /\ arg' \in [Threads -> Conns \cup {None}]
    BY <2>1, <2>2, StopTypes, Zenon DEF IInv, Types
  <2>4. todo' \in [Threads -> SUBSET Conns]
    BY <2>1, Zenon DEF IInv, Types, PcTypes
  <2> QED
    BY <1>5, <2>3, <2>4, Zenon DEF ReapOther, StopOther, IInv, Types, PcTypes, lists, history
<1>6. ASSUME NEW p \in Threads, ReapDone(p) \/ StopDone(p) PROVE Types' /\ setup' = setup
  BY <1>6, Zenon DEF ReapDone, At, StopDone, IInv, Types, PcTypes, Places, Bare, lists, transport,
     history
<1>7. ASSUME NEW p \in Threads, StopTake(p) PROVE Types' /\ setup' = setup
  BY <1>7, Zenon DEF StopTake, At, IInv, Types, PcTypes, Places, Between, transport, history
<1>8. CASE StartNext
  BY <1>8 DEF StartNext, StartTransport, Releases, IInv, Types, PcTypes, Places, Threads,
     lists, transport, history
<1>9. CASE AddStart
  BY <1>9 DEF AddStart, At, StartTransport, Releases, IInv, Types, PcTypes, Places, Bare,
     transport, history
<1>10. CASE StartDone \/ AddConnect \/ AddUndo
  BY <1>10, ZenonT(30) DEF StartDone, At, AddConnect, UnstartedOk, Adding, AddUndo, IInv, Types,
     PcTypes, Places, Bare, lists, transport, history
<1>11. CASE Release
  BY <1>11 DEF Release, StopTransport, IInv, Types, PcTypes, Places, Bare, lists, history
<1>12. CASE Timer
  BY <1>12, Zenon DEF Timer, TimerPass, TimerReturn, TimerReap, TimerLoop, At, IInv, Types,
     PcTypes, Places, Bare, lists, transport, history, calls
<1>13. ASSUME NEW c \in Conns, IoThread(c) \/ IoGivesUp(c) PROVE Types' /\ setup' = setup
  BY <1>13, Zenon DEF IoThread, IoReturn, IoExit, IoGivesUp, IInv, Types, PcTypes, lists, history,
     calls
<1>14. ASSUME NEW p \in Threads, StopExchange(p) PROVE Types' /\ setup' = setup
  BY <1>14 DEF StopExchange, Calls, At, IInv, Types, PcTypes, Places, Bare, lists, history
<1>15. ASSUME NEW p \in Threads, NEW i \in Ids, RemoveErase(p, i) PROVE Types' /\ setup' = setup
  BY <1>15, ZenonT(60) DEF RemoveErase, Calls, At, IInv, Types, PcTypes, Places, Bare, history
<1>16. ASSUME NEW c \in Conns, AddRegister(c) PROVE Types' /\ setup' = setup
  BY <1>16, Zenon DEF AddRegister, At, IInv, Types, PcTypes, Places, Bare, lists, transport
<1>17. CASE Start \/ SetAuditLog
  BY <1>17, ZenonT(30) DEF Start, At, SetAuditLog, IInv, Types, PcTypes, Places, Between, lists,
     transport, history, calls
<1> QED
  BY <1>1, <1>2, <1>3, <1>4, <1>5, <1>6, <1>7, <1>8, <1>9, <1>10, <1>11, <1>12, <1>13,
     <1>14, <1>15, <1>16, <1>17, ZenonT(30) DEF Next, Runs, InCall, AppInCall

\* Every action keeps the types of the registry.
LEMMA RegistryTypesKept ==
    ASSUME IInv, AuditInv, Next
    PROVE  RegistryTypes'
<1>1. ASSUME NEW p \in Threads, Join(p) PROVE RegistryTypes'
  BY <1>1, Zenon DEF Join, timerVars, AuditInv, RegistryTypes
<1>2. ASSUME NEW p \in Threads, RemoveRegistry(p) PROVE RegistryTypes'
  BY <1>2, Zenon DEF RemoveRegistry, None, timerVars, AuditInv, RegistryTypes
<1>3. ASSUME NEW p \in Threads, RemovePark(p) \/ ReapSwap(p) PROVE RegistryTypes'
  BY <1>3, Zenon DEF RemovePark, ReapSwap, timerVars, AuditInv, RegistryTypes
<1>4. ASSUME NEW p \in Threads, ReapOwn(p) \/ StopOwn(p) PROVE RegistryTypes'
  BY <1>4, Zenon DEF ReapOwn, StopOwn, timerVars, AuditInv, RegistryTypes
<1>5. ASSUME NEW p \in Threads, ReapOther(p) \/ StopOther(p) PROVE RegistryTypes'
  BY <1>5, Zenon DEF ReapOther, StopOther, timerVars, AuditInv, RegistryTypes
<1>6. ASSUME NEW p \in Threads, ReapDone(p) \/ StopDone(p) PROVE RegistryTypes'
  BY <1>6, Zenon DEF ReapDone, StopDone, timerVars, AuditInv, RegistryTypes
<1>7. ASSUME NEW p \in Threads, StopTake(p) PROVE RegistryTypes'
  BY <1>7, Zenon DEF StopTake, AuditInv, RegistryTypes
<1>8. CASE StartNext
  BY <1>8, Zenon DEF StartNext, timerVars, AuditInv, RegistryTypes
<1>9. CASE AddStart
  BY <1>9, Zenon DEF AddStart, timerVars, AuditInv, RegistryTypes
<1>10. CASE StartDone \/ AddConnect \/ AddUndo
  BY <1>10, Zenon DEF StartDone, AddConnect, AddUndo, timerVars, None, AuditInv, RegistryTypes
<1>11. CASE Release
  BY <1>11, Zenon DEF Release, timerVars, AuditInv, RegistryTypes
<1>12. CASE Timer
  BY <1>12, Zenon DEF Timer, TimerPass, TimerReturn, TimerReap, TimerLoop, calls, AuditInv,
     RegistryTypes
<1>13. ASSUME NEW c \in Conns, IoThread(c) \/ IoGivesUp(c) PROVE RegistryTypes'
  BY <1>13, Zenon DEF IoThread, IoGivesUp, IoReturn, IoExit, timerVars, calls, AuditInv,
     RegistryTypes
<1>14. ASSUME NEW p \in Threads, StopExchange(p) PROVE RegistryTypes'
  BY <1>14, Zenon DEF StopExchange, Calls, AuditInv, RegistryTypes
<1>15. ASSUME NEW p \in Threads, NEW i \in Ids, RemoveErase(p, i) PROVE RegistryTypes'
  BY <1>15, ZenonT(30) DEF RemoveErase, Calls, None, AuditInv, RegistryTypes
<1>16. ASSUME NEW c \in Conns, AddRegister(c) PROVE RegistryTypes'
  BY <1>16, Zenon DEF AddRegister, timerVars, None, AuditInv, RegistryTypes
<1>17. CASE Start \/ SetAuditLog
  BY <1>17, Zenon DEF Start, SetAuditLog, timerVars, calls, AuditInv, RegistryTypes
<1> QED
  BY <1>1, <1>2, <1>3, <1>4, <1>5, <1>6, <1>7, <1>8, <1>9, <1>10, <1>11, <1>12, <1>13,
     <1>14, <1>15, <1>16, <1>17, ZenonT(30) DEF Next, Runs, InCall, AppInCall

----------------------------------------------------------------------------
(* The owners of a connection. *)

\* The invariant holds initially ...
LEMMA OwnedInit == Init => IInv
<1> USE EngineConstants DEF Threads, None, lists, timerVars, transport, history, calls
<1> SUFFICES ASSUME Init PROVE IInv
  BY Zenon
<1>1. Types
  BY Zenon DEF Init, Types, PcTypes, Places, Between, Bare
<1>2. HandsOk /\ UnstartedOk /\ StoppedOk
  BY Zenon DEF Init, HandsOk, HandOk, Between, Bare, Inside, UnstartedOk, Adding, Starting, StoppedOk
<1>3. FreshOk /\ ThreadsOwned
  BY Zenon DEF Init, FreshOk, Local, ThreadsOwned
<1> QED
  BY <1>1, <1>2, <1>3, Zenon DEF IInv

\* ... and is preserved by every step.
LEMMA OwnedStep == IInv /\ [Next]_vars => IInv'
<1> SUFFICES ASSUME IInv, [Next]_vars PROVE IInv'
  BY Zenon
<1>1. CASE Next
  <2>1. Types'
    BY <1>1, TypesKept, Zenon
  <2>2. HandsOk'
    BY <1>1, <2>1, HandsKept, Zenon DEF HandsOk
  <2>3. UnstartedOk' /\ StoppedOk' /\ FreshOk' /\ ThreadsOwned'
    BY <1>1, <2>1, <2>2, UnstartedKept, FreshKept, OwnedKept, Zenon
  <2> QED
    BY <2>1, <2>2, <2>3, Zenon DEF IInv
<1>2. CASE UNCHANGED vars
  <2>1. Types'
    BY <1>2, Zenon DEF vars, IInv, Types, PcTypes
  <2>2. HandsOk'
    BY <1>2, Zenon DEF vars, IInv, HandsOk, HandOk, Inside
  <2>3. UnstartedOk' /\ StoppedOk'
    BY <1>2, Zenon DEF vars, IInv, UnstartedOk, StoppedOk, Adding, Starting, Inside
  <2>4. FreshOk' /\ ThreadsOwned'
    BY <1>2, Zenon DEF vars, IInv, FreshOk, ThreadsOwned, Local, Parked
  <2> QED
    BY <2>1, <2>2, <2>3, <2>4, Zenon DEF IInv
<1> QED
  BY <1>1, <1>2, Zenon

\* No transport with a thread to join loses its last owner, whatever the engine is
\* asked to do and on which threads: remove_session and stop() hand every
\* connection they take out of a list to a local, to the reap list, to the
\* quarantine or to a join.
THEOREM ConnectionsOwned == Spec => []ThreadsOwned
<1>1. IInv => ThreadsOwned
  BY Zenon DEF IInv
<1> QED
  BY <1>1, OwnedInit, OwnedStep, PTL DEF Spec

----------------------------------------------------------------------------
(* What the invariants say. *)

\* No threads wait for each other in a circle but those of callbacks that remove
\* each other's sessions.
LEMMA NoCycle == IInv /\ JoinInv => NoJoinCycle
<1> USE EngineConstants DEF Threads, None, lists, timerVars, transport, history, calls
<1> SUFFICES ASSUME IInv, JoinInv, NEW S \in (SUBSET Threads) \ {{}},
                    \A p \in S : \E q \in S : Awaits(p, q)
             PROVE  \E c, d \in S \cap Conns :
                        c # d /\ RemovesForeign(c) /\ (RemovesForeign(d) \/ d \in setup.stoppers)
  BY Zenon DEF NoJoinCycle
<1>1. \A p \in S : pc[p] = "join" => arg[p] \in Conns
  BY Zenon DEF IInv, HandsOk, HandOk, Inside
<1>2. \A p \in S : (pc[p] = "join" /\ arg[p] \in S \cap Conns) \/ (p = "app" /\ "timer" \in S)
  BY <1>1, ZenonT(30) DEF Awaits
<1>3. \A c \in S \cap Conns : pc[c] = "join" /\ arg[c] \in S \cap Conns /\ arg[c] # c
  BY <1>2, Zenon DEF JoinInv, JoinOk
<1>4. PICK c \in S \cap Conns : TRUE
  <2>1. PICK p \in S : TRUE
    BY Zenon
  <2> QED
    BY <1>2, <2>1, Zenon
<1> DEFINE d == arg[c]
<1>5. d \in S \cap Conns /\ c # d
  BY <1>3, Zenon
<1> HIDE DEF d
<1>6. ASSUME NEW e \in S \cap Conns PROVE RemovesForeign(e) \/ Stopping(e)
  BY <1>3, Zenon DEF JoinInv, JoinOk, RemovesForeign, Stopping
<1>7. ASSUME NEW e \in S \cap Conns, Stopping(e)
      PROVE  e \in setup.stoppers /\ \A x \in Conns : Stopping(x) => x = e
  BY <1>7, Zenon DEF JoinInv, JoinOk
<1>8. CASE Stopping(c)
  <2>1. RemovesForeign(d) /\ c \in setup.stoppers
    BY <1>5, <1>6, <1>7, <1>8, Zenon
  <2> QED
    BY <1>5, <2>1, Zenon
<1>9. CASE ~Stopping(c)
  <2>1. RemovesForeign(c) /\ (RemovesForeign(d) \/ d \in setup.stoppers)
    BY <1>5, <1>6, <1>7, <1>9, Zenon
  <2> QED
    BY <1>5, <2>1, Zenon
<1> QED
  BY <1>8, <1>9, Zenon

\* So when the application's stop() has returned, only what is parked or being parked
\* has an IO thread.
LEMMA StopJoined == IInv /\ JoinInv /\ StopInv => StopJoins
<1> USE EngineConstants DEF Threads, None, lists, timerVars, transport, history, calls
<1> SUFFICES ASSUME IInv, JoinInv, StopInv, stopped, setup.stoppers = {"app"}
             PROVE  /\ tick = "none"
                    /\ \A c \in Conns : \/ io[c] = "none" \/ c \in reap_list
                                         \/ \E d \in Conns : arg[d] = c
  BY Zenon DEF StopJoins
<1>1. /\ quarantine = {} /\ tick = "none" /\ ~running
      /\ pc["timer"] = "idle" /\ pc["app"] \in {"idle", "remove", "add"}
      /\ pc["app"] = "remove" /\ arg["app"] # None => io[arg["app"]] = "none"
  BY Zenon DEF StopInv
<1>2. \A c \in connections : io[c] = "none"
  <2>1. \A p \in Threads : pc[p] # "stop"
    BY <1>1, Zenon DEF IInv, HandsOk, HandOk
  <2> QED
    BY <1>1, <2>1, Zenon DEF IInv, StoppedOk
<1>3. Local("timer") = {}
  BY <1>1, Zenon DEF IInv, HandsOk, HandOk, Between, Bare, Local
<1>4. \A c \in Local("app") : io[c] = "none"
  BY <1>1, Zenon DEF IInv, HandsOk, HandOk, Between, Bare, Local, UnstartedOk, Adding
<1>5. ASSUME NEW d \in Conns PROVE Local(d) = {arg[d]} \ {None}
  BY DEF IInv, HandsOk, HandOk, Inside, Bare, JoinInv, JoinOk, Stopping, Local
<1>6. ASSUME NEW c \in Conns, io[c] # "none"
      PROVE  c \in reap_list \/ \E d \in Conns : arg[d] = c
  <2>1. c \in reap_list \/ \E p \in Threads : c \in Local(p)
    <3>1. c \in Parked \cup UNION {Local(p) : p \in Threads}
      BY <1>6, Zenon DEF IInv, ThreadsOwned
    <3> QED
      BY <1>1, <1>2, <1>6, <3>1, ZenonT(30) DEF Parked
  <2>2. ASSUME NEW p \in Threads, c \in Local(p) PROVE \E d \in Conns : arg[d] = c
    BY <1>3, <1>4, <1>5, <1>6, <2>2, ZenonT(30)
  <2> QED
    BY <2>1, <2>2, Zenon
<1> QED
  BY <1>1, <1>6, Zenon

\* So a session whose thread runs has a live log, or is in somebody's hands.
LEMMA AuditAlive == IInv /\ StopInv /\ AuditInv => AuditLogAlive
<1> USE EngineConstants DEF Threads, None, lists, timerVars, transport, history, calls
<1> SUFFICES ASSUME IInv, StopInv, AuditInv, ByContract, NEW c \in Conns, io[c] = "loop"
             PROVE  \/ audit[c] # "destroyed"
                    \/ \E p \in Threads : c \in Local(p)
                    \/ RemovedTooEarly(c)
  BY Zenon DEF AuditLogAlive
<1>1. c \in Parked \cup UNION {Local(p) : p \in Threads}
  BY Zenon DEF IInv, ThreadsOwned
<1>2. quarantine = {}
  BY Zenon DEF StopInv, ByContract
<1>3. CASE c \in connections
  BY <1>3, Zenon DEF AuditInv, WiredOk, Wired, RemovedTooEarly
<1>4. CASE c \in reap_list
  BY <1>4, Zenon DEF AuditInv, WiredOk
<1> QED
  BY <1>1, <1>2, <1>3, <1>4, Zenon DEF Parked

----------------------------------------------------------------------------
(* The step, and the theorems. *)

\* The three hold initially ...
LEMMA CallsInit == Init => JoinInv /\ StopInv /\ AuditInv
<1> USE EngineConstants DEF Threads, None, lists, timerVars, transport, history, calls
<1> SUFFICES ASSUME Init PROVE JoinInv /\ StopInv /\ AuditInv
  BY Zenon
<1>1. JoinInv
  BY Zenon DEF Init, JoinInv, JoinOk, Stopping
<1>2. StopInv
  BY Zenon DEF Init, StopInv, Stopping
<1>3. RegistryTypes
  BY Zenon DEF Init, RegistryTypes
<1>4. RegistryOk
  BY Zenon DEF Init, RegistryOk, RemoveOk
<1>5. WiredOk
  BY Zenon DEF Init, WiredOk, Added
<1> QED
  BY <1>1, <1>2, <1>3, <1>4, <1>5, Zenon DEF AuditInv

\* ... and every step keeps them.
LEMMA CallsStep ==
    IInv /\ JoinInv /\ StopInv /\ AuditInv /\ [Next]_vars => JoinInv' /\ StopInv' /\ AuditInv'
<1> SUFFICES ASSUME IInv, JoinInv, StopInv, AuditInv, [Next]_vars
             PROVE  JoinInv' /\ StopInv' /\ AuditInv'
  BY Zenon
<1>1. Types' /\ (ByContract' => ByContract)
  <2>1. setup' = setup
    <3>1. CASE UNCHANGED vars
      BY <3>1, Zenon DEF vars
    <3>2. CASE Next
      BY <3>2, TypesKept, Zenon
    <3> QED
      BY <3>1, <3>2, Zenon
  <2> QED
    BY <2>1, OwnedStep, Zenon DEF IInv, ByContract
<1>2. CASE Next
  <2>1. JoinInv'
    BY <1>1, <1>2, JoinKept, Zenon DEF JoinInv
  <2>2. StopInv'
    BY <1>1, <1>2, StopKept, Zenon
  <2>3. RegistryTypes'
    BY <1>2, RegistryTypesKept, Zenon
  <2>4. ASSUME ByContract' PROVE RegistryOk' /\ WiredOk'
    BY <1>1, <1>2, <2>3, <2>4, RegistryKept, WiredKept, Zenon
  <2> QED
    BY <2>1, <2>2, <2>3, <2>4, Zenon DEF AuditInv
<1>3. CASE UNCHANGED vars
  <2>1. JoinInv' /\ StopInv'
    BY <1>3, Zenon DEF vars, JoinInv, JoinOk, StopInv, Stopping
  <2>2. RegistryTypes' /\ (ByContract' => ByContract)
    BY <1>3, Zenon DEF vars, AuditInv, RegistryTypes, ByContract
  <2>3. ASSUME ByContract PROVE RegistryOk'
    BY <1>3, <2>3, Zenon DEF vars, AuditInv, RegistryOk, RemoveOk, Added, Registered
  <2>4. ASSUME ByContract PROVE WiredOk'
    BY <1>3, <2>4, Zenon DEF vars, AuditInv, WiredOk, Wired, Added, Registered
  <2> QED
    BY <2>1, <2>2, <2>3, <2>4, Zenon DEF AuditInv
<1> QED
  BY <1>2, <1>3, Zenon

\* The engine's calls stay in these invariants.
LEMMA EngineHolds == Spec => [](IInv /\ JoinInv /\ StopInv /\ AuditInv)
  BY OwnedInit, OwnedStep, CallsInit, CallsStep, PTL DEF Spec

\* No threads wait for each other in a circle, nor one for itself, whatever is removed
\* and stopped where, but those of callbacks on IO threads that remove each other's
\* sessions or of which one calls stop().
THEOREM JoinsEnd == Spec => []NoJoinCycle
  BY EngineHolds, NoCycle, PTL

\* When the application's stop() returns, the timer thread and every IO thread have been
\* joined but those of sessions that an IO thread was removing meanwhile.
THEOREM StopJoinsThreads == Spec => []StopJoins
  BY EngineHolds, StopJoined, PTL

\* No session whose IO thread runs points to a destroyed audit log, unless it is being
\* removed or a foreign callback removed it while it was being added.
THEOREM AuditLogsAlive == Spec => []AuditLogAlive
  BY EngineHolds, AuditAlive, PTL
=============================================================================
