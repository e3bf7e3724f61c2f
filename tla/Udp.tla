-------------------------------- MODULE Udp --------------------------------
(***************************************************************************)
(* The UDP transport: its lifecycle, the optional receive thread, and the  *)
(* health monitor, a thread of the transport's own that closes and         *)
(* re-opens it when it is unhealthy or silent for too long.                *)
(*                                                                         *)
(* A step is one critical section of mutex_, one operation on an atomic,   *)
(* or one blocking system call, as in Tcp.                                 *)
(*                                                                         *)
(* The operators named Bug... are mutations of the definition that follows *)
(* them; Next does not use them.                                           *)
(***************************************************************************)
EXTENDS Naturals

CONSTANTS
    App,        \* threads of the application
    Rx, Hm,     \* identities of receive and of health monitor threads
    Owners,     \* threads that call open, close, configure, setReceiveCallback
    Users,      \* threads that call send and receive
    NoThread,   \* "not joinable"
    Configs,    \* configurations the application passes to configure()
    ManagesRebinding    \* the application also opens, closes and configures a
                        \* transport whose monitor may be re-binding it

Threads == App \cup Rx \cup Hm

Config == [autoRebind : BOOLEAN, spawn : BOOLEAN,
           direction : {"SendOnly", "ReceiveOnly", "TwoWay"}]

ASSUME ThreadsAssumption ==
    /\ App \cap Rx = {} /\ App \cap Hm = {} /\ Rx \cap Hm = {}
    /\ NoThread \notin Threads
    /\ Owners \subseteq App \cup Rx /\ Users \subseteq App \cup Rx
ASSUME ConfigsAssumption == Configs \subseteq Config /\ Configs # {}
ASSUME ManagesAssumption == ManagesRebinding \in BOOLEAN

VARIABLES
    config,     \* config_
    handle,     \* handle_ is not null
    running,    \* running_
    rxObj,      \* the thread receiveThread_ owns
    monitoring, \* healthMonitorRunning_
    hmObj,      \* the thread healthThread_ owns
    hasCb,      \* receiveCallback_ holds a callback
    healthy,    \* healthy_
    idle,       \* since lastActivity_: 0 recent, 1 beyond reconnectInterval,
                \* 2 beyond 5 * receiveTimeout too (both 5 s by default)
    pc, op,     \* per thread: where it is, and in which call
    stale       \* history: the descriptor t uses was closed since t read it

transport == <<config, handle, running, rxObj, monitoring, hmObj, hasCb>>
health == <<healthy, idle>>
vars == <<transport, health, pc, op, stale>>

Labels == {"idle", "absent", "loop", "notify", "done", "terminated", "dead",
           "open", "setcb", "start", "startCas", "spawn", "schedule", "spawnHm",
           "applyStop", "applyStart", "stopCas", "join", "stopHm", "joinHm",
           "reset", "unbind", "dtorJoin", "snapshot", "send", "recv",
           "tick", "recent", "late", "silent", "rebind"}
Ops == {"none", "open", "close", "destroy", "configure", "toggle", "setcb",
        "send", "receive", "rebind"}

\* Shapes of the state.
TypeOK ==
    /\ config \in Config /\ handle \in BOOLEAN /\ running \in BOOLEAN
    /\ rxObj \in Rx \cup {NoThread} /\ hmObj \in Hm \cup {NoThread}
    /\ monitoring \in BOOLEAN /\ hasCb \in BOOLEAN
    /\ healthy \in BOOLEAN /\ idle \in 0 .. 2
    /\ pc \in [Threads -> Labels] /\ op \in [Threads -> Ops]
    /\ stale \in [Threads -> BOOLEAN]

Init ==
    /\ config \in Configs
    /\ handle = FALSE /\ running = FALSE /\ rxObj = NoThread
    /\ monitoring = FALSE /\ hmObj = NoThread
    /\ hasCb = FALSE /\ healthy = TRUE /\ idle = 0
    /\ pc = [t \in Threads |-> IF t \in App THEN "idle" ELSE "absent"]
    /\ op = [t \in Threads |-> "none"]
    /\ stale = [t \in Threads |-> FALSE]

-----------------------------------------------------------------------------
(* Control helpers. *)

IsReceiveEnabled(d) == d \in {"ReceiveOnly", "TwoWay"}
IsSendEnabled(d) == d \in {"SendOnly", "TwoWay"}
Spawns(c) == c.spawn /\ IsReceiveEnabled(c.direction)

Goto(t, label) == pc' = [pc EXCEPT ![t] = label] /\ UNCHANGED op
Enter(t, label, call) ==
    pc' = [pc EXCEPT ![t] = label] /\ op' = [op EXCEPT ![t] = call]

\* A receive thread is inside receive() of its loop when op is "none".
ReturnPoint(t) ==
    IF t \in App THEN "idle"
    ELSE IF t \in Hm THEN "tick"
    ELSE IF op[t] = "none" THEN "loop" ELSE "notify"
Return(t) == Enter(t, ReturnPoint(t), "none")

\* Nobody but a callback calls into an object being destroyed.
MayCall(t) ==
    /\ \A u \in Threads : op[u] # "destroy" \/ t \in Rx
    /\ pc[t] = IF t \in App THEN "idle" ELSE "notify"
MayManage(t) ==
    t \in Owners /\ MayCall(t) /\ (ManagesRebinding \/ ~(config.autoRebind /\ monitoring))

\* handle_.reset(): the descriptor of the old handle is closed.
ResetsHandle ==
    /\ handle' = FALSE
    /\ stale' = [u \in Threads |-> stale[u] \/ (handle /\ pc[u] \in {"send", "recv"})]
Forget(t) == stale' = [stale EXCEPT ![t] = FALSE]

-----------------------------------------------------------------------------
(* Lifecycle calls. *)

CallOpen(t) ==
    /\ MayManage(t)
    /\ Enter(t, "open", "open")
    /\ UNCHANGED <<transport, health, stale>>

CallClose(t) ==
    /\ MayManage(t)
    /\ Enter(t, "stopCas", "close")
    /\ UNCHANGED <<transport, health, stale>>

\* ~UDP: no other thread of the application is inside a call any more.
CallDestroy(t) ==
    /\ MayManage(t) /\ t \in App
    /\ \A u \in App : pc[u] = "idle"
    /\ Enter(t, "stopCas", "destroy")
    /\ UNCHANGED <<transport, health, stale>>

CallSetReceiveCallback(t) ==
    /\ MayManage(t)
    /\ hasCb' \in BOOLEAN
    /\ Enter(t, "setcb", "setcb")
    /\ UNCHANGED <<config, handle, running, rxObj, monitoring, hmObj, health, stale>>

\* The callback is stored and nothing launched.
BugNoLaunch(t) ==
    /\ pc[t] = "setcb"
    /\ Return(t)
    /\ UNCHANGED <<transport, health, stale>>

\* Its second half: shouldLaunch, read under mutex_.
CheckLaunch(t) ==
    /\ pc[t] = "setcb"
    /\ IF handle /\ Spawns(config) THEN Goto(t, "start") ELSE Return(t)
    /\ UNCHANGED <<transport, health, stale>>

\* configure(c) re-opens the transport when spawnReceiveThread changes.
CallConfigure(t) ==
    /\ MayManage(t)
    /\ config' \in Configs
    /\ ManagesRebinding \/ ~config'.autoRebind \/ ~monitoring
    /\ LET reopen == handle /\ config.spawn # config'.spawn
           stop == ~config'.spawn /\ config.spawn
       IN  \/ reopen /\ Enter(t, "stopCas", "configure")
           \/ ~reopen /\ stop /\ Enter(t, "applyStop", "toggle")
           \/ ~reopen /\ Spawns(config') /\ Enter(t, "applyStart", "toggle")
           \/ ~reopen /\ ~stop /\ ~Spawns(config') /\ UNCHANGED <<pc, op>>
    /\ UNCHANGED <<handle, running, rxObj, monitoring, hmObj, hasCb, health, stale>>

\* if (isOpen()): the receive loop is stopped or started.
ApplyConfig(t) ==
    /\ pc[t] \in {"applyStop", "applyStart"}
    /\ IF ~handle THEN Return(t)
       ELSE Goto(t, IF pc[t] = "applyStop" THEN "stopCas" ELSE "start")
    /\ UNCHANGED <<transport, health, stale>>

-----------------------------------------------------------------------------
(* open(), startReceiveLoop() and scheduleHealthCheck(). *)

OpenAlready(t) ==
    /\ pc[t] = "open" /\ handle
    /\ Return(t)
    /\ UNCHANGED <<transport, health, stale>>

OpenFails(t) ==
    /\ pc[t] = "open" /\ ~handle
    /\ healthy' = FALSE
    /\ Return(t)
    /\ UNCHANGED <<transport, idle, stale>>

OpenSucceeds(t) ==
    /\ pc[t] = "open" /\ ~handle
    /\ handle' = TRUE /\ healthy' = TRUE /\ idle' = 0
    /\ Goto(t, IF Spawns(config) THEN "start" ELSE "schedule")
    /\ UNCHANGED <<config, running, rxObj, monitoring, hmObj, hasCb, stale>>

\* Where a caller of startReceiveLoop continues.
AfterStart(t) ==
    IF op[t] \in {"toggle", "setcb"} THEN Return(t) ELSE Goto(t, "schedule")

ShouldSpawnReceiveThread == Spawns(config) /\ handle

StartCheck(t) ==
    /\ pc[t] = "start"
    /\ IF ShouldSpawnReceiveThread /\ hasCb THEN Goto(t, "startCas") ELSE AfterStart(t)
    /\ UNCHANGED <<transport, health, stale>>

StartCas(t) ==
    /\ pc[t] = "startCas"
    /\ running' = TRUE
    /\ IF running THEN AfterStart(t) ELSE Goto(t, "spawn")
    /\ UNCHANGED <<config, handle, rxObj, monitoring, hmObj, hasCb, health, stale>>

\* receiveThread_ = std::thread(...), as in Tcp.
Spawn(t) ==
    /\ pc[t] = "spawn"
    /\ IF rxObj # NoThread
         THEN Goto(t, "terminated") /\ UNCHANGED rxObj
         ELSE \E r \in Rx :
                /\ pc[r] = "absent"
                /\ rxObj' = r
                /\ LET back == op[t] \in {"toggle", "setcb"}
                   IN /\ pc' = [pc EXCEPT ![r] = "loop",
                                  ![t] = IF back THEN ReturnPoint(t) ELSE "schedule"]
                      /\ op' = [op EXCEPT ![t] = IF back THEN "none" ELSE @]
    /\ UNCHANGED <<config, handle, running, monitoring, hmObj, hasCb, health, stale>>

\* A plain store in place of the compare-and-swap.
BugScheduleStore(t) ==
    /\ pc[t] = "schedule"
    /\ monitoring' = TRUE
    /\ Goto(t, "spawnHm")
    /\ UNCHANGED <<config, handle, running, rxObj, hmObj, hasCb, health, stale>>

ScheduleHealthCheck(t) ==
    /\ pc[t] = "schedule"
    /\ monitoring' = TRUE
    /\ IF monitoring THEN Return(t) ELSE Goto(t, "spawnHm")
    /\ UNCHANGED <<config, handle, running, rxObj, hmObj, hasCb, health, stale>>

\* healthThread_ = std::thread(...).
SpawnMonitor(t) ==
    /\ pc[t] = "spawnHm"
    /\ IF hmObj # NoThread
         THEN Goto(t, "terminated") /\ UNCHANGED hmObj
         ELSE \E h \in Hm :
                /\ pc[h] = "absent"
                /\ hmObj' = h
                /\ pc' = [pc EXCEPT ![t] = ReturnPoint(t), ![h] = "tick"]
                /\ op' = [op EXCEPT ![t] = "none"]
    /\ UNCHANGED <<config, handle, running, rxObj, monitoring, hasCb, health, stale>>

-----------------------------------------------------------------------------
(* stopReceiveLoop(), stopHealthMonitor() and handle_.reset(). *)

\* Where a caller of stopReceiveLoop continues.
StopNext(t) ==
    CASE op[t] = "toggle" -> ReturnPoint(t)
      [] op[t] = "rebind" -> "unbind"
      [] OTHER -> "stopHm"
AfterStop(t) == Enter(t, StopNext(t), IF op[t] = "toggle" THEN "none" ELSE op[t])

\* The shutdown() that follows only wakes the receive thread.
StopCas(t) ==
    /\ pc[t] = "stopCas"
    /\ running' = FALSE
    /\ IF running THEN Goto(t, "join") ELSE AfterStop(t)
    /\ UNCHANGED <<config, handle, rxObj, monitoring, hmObj, hasCb, health, stale>>

\* A thread that joins itself gets a std::system_error nobody catches.
Join(t) ==
    /\ pc[t] = "join"
    /\ \/ rxObj = NoThread /\ AfterStop(t) /\ UNCHANGED rxObj
       \/ rxObj = t /\ Goto(t, "terminated") /\ UNCHANGED rxObj
       \/ /\ rxObj \in Rx \ {t} /\ pc[rxObj] = "done"
          /\ rxObj' = NoThread
          /\ pc' = [pc EXCEPT ![rxObj] = "absent", ![t] = StopNext(t)]
          /\ op' = [op EXCEPT ![t] = IF @ = "toggle" THEN "none" ELSE @]
    /\ UNCHANGED <<config, handle, running, monitoring, hmObj, hasCb, health, stale>>

\* close() leaves the monitor alone.
BugMonitorForgotten(t) ==
    /\ pc[t] = "stopHm"
    /\ Goto(t, "reset")
    /\ UNCHANGED <<transport, health, stale>>

StopHealthMonitor(t) ==
    /\ pc[t] = "stopHm"
    /\ monitoring' = FALSE
    /\ Goto(t, IF monitoring THEN "joinHm" ELSE "reset")
    /\ UNCHANGED <<config, handle, running, rxObj, hmObj, hasCb, health, stale>>

JoinMonitor(t) ==
    /\ pc[t] = "joinHm"
    /\ \/ hmObj = NoThread /\ Goto(t, "reset") /\ UNCHANGED hmObj
       \/ /\ hmObj # NoThread /\ pc[hmObj] = "done"
          /\ hmObj' = NoThread
          /\ pc' = [pc EXCEPT ![hmObj] = "absent", ![t] = "reset"]
          /\ UNCHANGED op
    /\ UNCHANGED <<config, handle, running, rxObj, monitoring, hasCb, health, stale>>

ResetHandle(t) ==
    /\ pc[t] = "reset"
    /\ ResetsHandle
    /\ CASE op[t] = "configure" -> Goto(t, "open")
         [] op[t] = "destroy" -> Goto(t, "dtorJoin")
         [] OTHER -> Return(t)
    /\ UNCHANGED <<config, running, rxObj, monitoring, hmObj, hasCb, health>>

\* The destructor joins a receive thread close() did not join; a monitor
\* that is still joinable when its member is destroyed ends the process.
DestructorJoin(t) ==
    /\ pc[t] = "dtorJoin"
    /\ rxObj # NoThread => pc[rxObj] = "done"
    /\ rxObj' = NoThread
    /\ LET end == IF hmObj = NoThread THEN "dead" ELSE "terminated"
       IN pc' = [u \in Threads |-> IF u = t THEN end
                                   ELSE IF u = rxObj THEN "absent" ELSE pc[u]]
    /\ UNCHANGED <<config, handle, running, monitoring, hmObj, hasCb, health, op, stale>>

-----------------------------------------------------------------------------
(* send() and receive(). *)

CallSend(t) ==
    /\ t \in Users /\ MayCall(t)
    /\ IF IsSendEnabled(config.direction)
         THEN Enter(t, "snapshot", "send") /\ UNCHANGED healthy
         ELSE healthy' = FALSE /\ UNCHANGED <<pc, op>>
    /\ UNCHANGED <<transport, idle, stale>>

CallReceive(t) ==
    /\ t \in Users /\ MayCall(t)
    /\ IF IsReceiveEnabled(config.direction)
         THEN Enter(t, "snapshot", "receive") /\ UNCHANGED healthy
         ELSE healthy' = FALSE /\ UNCHANGED <<pc, op>>
    /\ UNCHANGED <<transport, idle, stale>>

\* One turn of receiveLoop(): stop, or call receive().
ReceiveLoop(t) ==
    /\ pc[t] = "loop"
    /\ IF ~running THEN Goto(t, "done") /\ UNCHANGED healthy
       ELSE IF IsReceiveEnabled(config.direction)
              THEN Goto(t, "snapshot") /\ UNCHANGED healthy
              ELSE healthy' = FALSE /\ UNCHANGED <<pc, op>>
    /\ UNCHANGED <<transport, idle, stale>>

\* receiveCallback_.notify(): the callback returns to the loop.
NotifyReturns(t) ==
    /\ pc[t] = "notify"
    /\ Goto(t, "loop")
    /\ UNCHANGED <<transport, health, stale>>

Snapshot(t) ==
    /\ pc[t] = "snapshot"
    /\ IF handle
         THEN Goto(t, IF op[t] = "send" THEN "send" ELSE "recv") /\ UNCHANGED healthy
         ELSE healthy' = FALSE /\ Return(t)
    /\ UNCHANGED <<transport, idle, stale>>

\* ::send on a datagram socket that was never connected, and open() does not
\* connect it, has no destination (EDESTADDRREQ).
SendWithoutDestination(t) ==
    /\ pc[t] = "send"
    /\ healthy' = FALSE
    /\ Return(t) /\ Forget(t)
    /\ UNCHANGED <<transport, idle>>

\* The closed descriptor is by now some other, connected socket.
SendTransfers(t) ==
    /\ pc[t] = "send" /\ stale[t]
    /\ idle' = 0
    /\ Return(t) /\ Forget(t)
    /\ UNCHANGED <<transport, healthy>>

\* A datagram, possibly empty: an empty one is not passed to the callback.
ReceiveDatagram(t) ==
    /\ pc[t] = "recv"
    /\ healthy' = TRUE /\ idle' = 0
    /\ \/ Return(t)
       \/ op[t] = "none" /\ Goto(t, "notify")
    /\ Forget(t)
    /\ UNCHANGED transport

\* EAGAIN, or EINTR or EBADF once the loop is being stopped.
ReceiveNothing(t) ==
    /\ pc[t] = "recv"
    /\ Return(t) /\ Forget(t)
    /\ UNCHANGED <<transport, health>>

ReceiveFails(t) ==
    /\ pc[t] = "recv"
    /\ healthy' = FALSE
    /\ Return(t) /\ Forget(t)
    /\ UNCHANGED <<transport, idle>>

-----------------------------------------------------------------------------
(* healthMonitorLoop() and attemptRebind(). *)

\* The loop condition, the sleep, and the elapsed time, which is compared
\* only after healthy_ has been read.
Tick(t) ==
    /\ pc[t] = "tick"
    /\ Goto(t, CASE ~monitoring -> "done"
                 [] monitoring /\ idle = 0 -> "recent"
                 [] monitoring /\ idle = 1 -> "late"
                 [] monitoring /\ idle = 2 -> "silent")
    /\ UNCHANGED <<transport, health, stale>>

\* Only the silence of a healthy transport makes the monitor re-bind.
BugHealthNeverRead(t) ==
    /\ pc[t] \in {"recent", "late", "silent"}
    /\ IF pc[t] = "silent" /\ healthy
         THEN healthy' = FALSE /\ Goto(t, "rebind")
         ELSE Goto(t, "tick") /\ UNCHANGED healthy
    /\ UNCHANGED <<transport, idle, stale>>

CheckHealth(t) ==
    /\ pc[t] \in {"recent", "late", "silent"}
    /\ \/ /\ pc[t] = "silent" \/ (pc[t] = "late" /\ ~healthy)
          /\ healthy' = FALSE /\ Goto(t, "rebind")
       \/ /\ pc[t] = "recent" \/ (pc[t] = "late" /\ healthy)
          /\ Goto(t, "tick") /\ UNCHANGED healthy
    /\ UNCHANGED <<transport, idle, stale>>

\* attemptRebind() that does not stop the receive loop before it closes.
BugRebindWithoutStop(t) ==
    /\ pc[t] = "rebind"
    /\ IF config.autoRebind THEN Enter(t, "unbind", "rebind") ELSE Goto(t, "tick")
    /\ UNCHANGED <<transport, health, stale>>

AttemptRebind(t) ==
    /\ pc[t] = "rebind"
    /\ IF config.autoRebind THEN Enter(t, "stopCas", "rebind") ELSE Goto(t, "tick")
    /\ UNCHANGED <<transport, health, stale>>

\* The old socket is closed, and after a sleep open() makes a new one.
Unbind(t) ==
    /\ pc[t] = "unbind"
    /\ ResetsHandle
    /\ Goto(t, "open")
    /\ UNCHANGED <<config, running, rxObj, monitoring, hmObj, hasCb, health>>

\* Time passes without activity.
Idles ==
    /\ idle < 2 /\ idle' = idle + 1
    /\ UNCHANGED <<transport, healthy, pc, op, stale>>

-----------------------------------------------------------------------------

\* The object is gone; nothing more happens to it.
Destroyed ==
    /\ \E t \in App : pc[t] = "dead"
    /\ UNCHANGED vars

Call(t) ==
    \/ CallOpen(t) \/ CallClose(t) \/ CallDestroy(t) \/ CallConfigure(t)
    \/ CallSetReceiveCallback(t) \/ CallSend(t) \/ CallReceive(t)

Lifecycle(t) ==
    \/ OpenAlready(t) \/ OpenFails(t) \/ OpenSucceeds(t)
    \/ CheckLaunch(t) \/ ApplyConfig(t)
    \/ StartCheck(t) \/ StartCas(t) \/ Spawn(t)
    \/ ScheduleHealthCheck(t) \/ SpawnMonitor(t)
    \/ StopCas(t) \/ Join(t) \/ StopHealthMonitor(t) \/ JoinMonitor(t)
    \/ ResetHandle(t) \/ DestructorJoin(t)

Data(t) ==
    \/ ReceiveLoop(t) \/ NotifyReturns(t) \/ Snapshot(t)
    \/ SendWithoutDestination(t) \/ SendTransfers(t)
    \/ ReceiveDatagram(t) \/ ReceiveNothing(t) \/ ReceiveFails(t)

Monitor(t) == Tick(t) \/ CheckHealth(t) \/ AttemptRebind(t) \/ Unbind(t)

\* std::terminate ends the process.
Aborted == \E t \in Threads : pc[t] = "terminated"

Step(t) == ~Aborted /\ (Lifecycle(t) \/ Data(t) \/ Monitor(t))

Next ==
    \/ \E t \in Threads : (~Aborted /\ Call(t)) \/ Step(t)
    \/ Idles
    \/ Destroyed

Spec == Init /\ [][Next]_vars

\* Threads inside the library are scheduled, blocking calls return, the
\* callback returns, time passes, and an open() tried again and again works.
Fairness ==
    /\ \A t \in Threads : /\ WF_vars(Step(t))
                          /\ SF_vars(NotifyReturns(t))
                          /\ SF_vars(OpenSucceeds(t))
    /\ WF_vars(Idles)
FairSpec == Spec /\ Fairness

-----------------------------------------------------------------------------
(* Properties. *)

Controlling == {"open", "setcb", "start", "startCas", "spawn", "schedule", "spawnHm",
                "applyStop", "applyStart", "stopCas", "join", "stopHm", "joinHm",
                "reset", "unbind", "dtorJoin"}
Settled == \A t \in Threads : pc[t] \notin Controlling
LiveReaders == {r \in Rx : pc[r] # "absent"}
LiveMonitors == {h \in Hm : pc[h] # "absent"}

\* No call ends the process: neither std::thread member is overwritten while
\* joinable or destroyed joinable, and no thread joins itself.
NoTerminate == ~Aborted

\* When no call and no re-bind is under way, a transport without a socket has
\* no receive thread, and has a monitor only to try the re-bind again.
ClosedIsQuiet ==
    Settled /\ ~handle =>
        /\ ~running /\ rxObj = NoThread /\ LiveReaders = {}
        /\ hmObj # NoThread \/ LiveMonitors # {} => config.autoRebind /\ monitoring

\* The inductive strengthening of NoTerminate and ClosedIsQuiet for a transport
\* that one application thread o controls, unless its monitor may re-bind it:
\* one of o and the monitor controls the transport at a time, ...
SingleOwner(o) == o \in App /\ Owners = {o} /\ ~ManagesRebinding
ControlInv(o) ==
    /\ \A t \in Threads : pc[t] # "terminated"
    /\ pc[o] # "unbind" /\ op[o] # "rebind"
    /\ \A t \in Threads : t # o /\ pc[t] \in Controlling =>
        /\ t = hmObj /\ op[t] = "rebind" /\ config.autoRebind
        /\ pc[t] \in {"open", "start", "startCas", "spawn", "schedule",
                      "stopCas", "join", "unbind"}
    /\ \A t \in Threads : pc[t] \in {"tick", "recent", "late", "silent", "rebind"} => t \in Hm
    /\ config.autoRebind /\ hmObj # NoThread => pc[o] \notin Controlling

\* ... the monitor exists from scheduleHealthCheck() to stopHealthMonitor(), ...
MonitorInv(o) ==
    /\ \A h \in Hm : pc[h] # "absent" => hmObj = h
    /\ monitoring /\ hmObj = NoThread => pc[o] = "spawnHm"
    /\ ~monitoring /\ hmObj # NoThread => pc[o] = "joinHm"
    /\ pc[o] = "spawnHm" => monitoring /\ hmObj = NoThread
    /\ pc[o] \in {"joinHm", "reset", "dtorJoin"} => ~monitoring
    /\ hmObj # NoThread /\ ~handle => config.autoRebind

\* ... and the receive thread from startReceiveLoop() to stopReceiveLoop().
ReaderInv ==
    /\ \A r \in Rx : pc[r] # "absent" => rxObj = r
    /\ rxObj # NoThread /\ ~running => \E c \in Threads : pc[c] = "join"
    /\ running /\ rxObj = NoThread => \E c \in Threads : pc[c] = "spawn"
    /\ \A c \in Threads :
        /\ pc[c] = "spawn" => running /\ rxObj = NoThread
        /\ pc[c] \in {"join", "stopHm", "joinHm", "reset", "unbind", "dtorJoin"} => ~running
        /\ pc[c] \in {"start", "startCas", "spawn", "schedule", "spawnHm"} => handle
    /\ running \/ rxObj # NoThread => handle

\* When no call and no re-bind is under way, an open transport that is
\* configured to read in the background and has a callback does read: no
\* re-bind, re-configuration or callback change loses the receive thread.
OpenMeansReading ==
    Settled /\ handle /\ Spawns(config) /\ hasCb =>
        running /\ rxObj # NoThread /\ pc[rxObj] # "done"

\* Its inductive strengthening: where the receive loop has yet to be started
\* or has been stopped to close the socket.
ReadingInv(o) ==
    /\ \A r \in Rx : pc[r] = "done" => ~running
    /\ op[o] = "toggle" /\ pc[o] \in {"applyStop", "stopCas", "join"} => ~config.spawn
    /\ handle /\ Spawns(config) /\ hasCb =>
        \/ running
        \/ \E c \in Threads : pc[c] \in {"start", "startCas", "setcb", "applyStart", "stopCas",
                                         "join", "stopHm", "joinHm", "reset", "unbind"}

\* An unhealthy transport that may re-bind gets its socket back, however
\* often open() fails, unless it is closed.
RebindReopens ==
    (config.autoRebind /\ monitoring /\ ~healthy) ~> ((handle /\ healthy) \/ ~monitoring)

\* What every transport promises about its lifecycle; a re-bind is a close
\* followed by an open.
Contract == INSTANCE TransportContract WITH
    open <- handle,
    reader <- LiveReaders # {},
    link <- handle
ImplementsContract == Contract!Spec
=============================================================================
