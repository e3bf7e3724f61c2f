-------------------------------- MODULE Pcan --------------------------------
(***************************************************************************)
(* The PCAN-Basic transport: its lifecycle, the receive thread, and the    *)
(* bounded recovery from bus errors, in which whoever met the error        *)
(* releases the channel and initialises it again.                          *)
(*                                                                         *)
(* A step is one short critical section of mutex_, one operation on an     *)
(* atomic, or one call of the driver.  open() and close() call the driver  *)
(* with mutex_ held (lock); configure() and the recovery do not take it.   *)
(*                                                                         *)
(* The operators named Bug... are mutations of the definition that follows *)
(* them; Next does not use them.                                           *)
(***************************************************************************)
EXTENDS Naturals

CONSTANTS
    App,            \* threads of the application
    Rx,             \* identities of receive threads
    Owners,         \* threads that call open, close, configure, setReceiveCallback
    Users,          \* threads that call send and receive
    NoThread,       \* "not joinable", "unlocked"
    Handles,        \* channels of the driver
    Configs,        \* configurations the application passes to configure()
    MaxAttempts,    \* kMaxRecoveryAttempts: 3
    Asserts         \* assertions are compiled in; a failing one spins for ever

Threads == App \cup Rx

\* modes: listenOnly or hardwareTimestamps is set.
Config == [channel : Handles, autoReconnect : BOOLEAN, spawn : BOOLEAN,
           modes : BOOLEAN, direction : {"SendOnly", "ReceiveOnly", "TwoWay"}]

ASSUME ThreadsAssumption ==
    /\ App \cap Rx = {} /\ NoThread \notin Threads
    /\ Owners \subseteq App \cup Rx /\ Users \subseteq App \cup Rx
ASSUME ConfigsAssumption == Configs \subseteq Config /\ Configs # {}
ASSUME BuildAssumption == MaxAttempts \in Nat \ {0} /\ Asserts \in BOOLEAN

VARIABLES
    config,         \* config_
    initialized,    \* initialized_
    running,        \* running_
    rxObj,          \* the thread receiveThread_ owns
    hasCb,          \* receiveCallback_ holds a callback
    healthy,        \* healthy_
    lock,           \* the thread that holds mutex_ across several steps
    channels,       \* driver: the channels this process has initialised
    pc, op,         \* per thread: where it is, and in which call
    attempt,        \* per thread: attempts of the recovery it is in
    shut            \* history: closed, and not opened since

transport == <<config, initialized, running, rxObj, hasCb, healthy, lock, channels>>
vars == <<transport, pc, op, attempt, shut>>

Labels == {"idle", "absent", "loop", "notify", "done", "terminated", "halted",
           "dead", "open", "init", "driver", "mode", "openEnd", "start", "startCas",
           "spawn", "reinit", "stopCas", "join", "close", "uninit", "clear",
           "cleared", "dtorJoin", "check", "io", "retry"}
Ops == {"none", "open", "close", "destroy", "configure", "setcb", "send", "receive"}

\* Shapes of the state.
TypeOK ==
    /\ config \in Config /\ initialized \in BOOLEAN /\ running \in BOOLEAN
    /\ rxObj \in Rx \cup {NoThread} /\ lock \in Threads \cup {NoThread}
    /\ hasCb \in BOOLEAN /\ healthy \in BOOLEAN /\ channels \subseteq Handles
    /\ pc \in [Threads -> Labels] /\ op \in [Threads -> Ops]
    /\ attempt \in [Threads -> 0 .. MaxAttempts] /\ shut \in BOOLEAN

Init ==
    /\ config \in Configs
    /\ initialized = FALSE /\ running = FALSE /\ rxObj = NoThread
    /\ hasCb = FALSE /\ healthy = TRUE /\ lock = NoThread /\ channels = {}
    /\ pc = [t \in Threads |-> IF t \in App THEN "idle" ELSE "absent"]
    /\ op = [t \in Threads |-> "none"]
    /\ attempt = [t \in Threads |-> 0] /\ shut = TRUE

-----------------------------------------------------------------------------
(* Control helpers. *)

IsReceiveEnabled(d) == d \in {"ReceiveOnly", "TwoWay"}
IsSendEnabled(d) == d \in {"SendOnly", "TwoWay"}
Spawns(c) == c.spawn /\ IsReceiveEnabled(c.direction)

Goto(t, label) == pc' = [pc EXCEPT ![t] = label] /\ UNCHANGED op
Enter(t, label, call) ==
    pc' = [pc EXCEPT ![t] = label] /\ op' = [op EXCEPT ![t] = call]

\* A receive thread is inside receive() of its loop when op is "none".
ReturnPoint(t) ==
    IF t \in App THEN "idle" ELSE IF op[t] = "none" THEN "loop" ELSE "notify"
Return(t) == Enter(t, ReturnPoint(t), "none")

\* Nobody but a callback calls into an object being destroyed.
MayCall(t) ==
    /\ \A u \in Threads : op[u] # "destroy" \/ t \in Rx
    /\ pc[t] = IF t \in App THEN "idle" ELSE "notify"

\* COMM_PRECONDITION and COMM_POSTCONDITION.
Fails(condition) == Asserts /\ ~condition

-----------------------------------------------------------------------------
(* initialize(): the precondition, CAN_Initialize, and applyMode().        *)

InitializeCheck(t) ==
    /\ pc[t] = "init"
    /\ Goto(t, IF Fails(~initialized) THEN "halted" ELSE "driver")
    /\ UNCHANGED <<transport, attempt, shut>>

\* configure() leaves the receive thread stopped.
BugNotRestarted(t) ==
    IF op[t] = "open" THEN Goto(t, "start") ELSE Return(t)

\* receive() ends unhealthy even when its recovery has succeeded.
HealthAfter(t) ==
    CASE op[t] = "open" -> TRUE
      [] op[t] \in {"none", "receive"} -> FALSE
      [] OTHER -> healthy

\* Where a caller of initialize() continues.  A recovery that has used up its
\* attempts reports a fault to the failsafe manager.
Initialized(t) ==
    IF op[t] \in {"open", "configure"} THEN Goto(t, "start") ELSE Return(t)

NotInitialized(t) ==
    IF op[t] \in {"open", "configure"} \/ attempt[t] = MaxAttempts
      THEN Return(t) ELSE Goto(t, "retry")

\* open() holds mutex_ until initialize() has returned.
Unlocks(t) == lock' = IF lock = t THEN NoThread ELSE lock

\* The driver refuses a channel that is initialised already.
DriverInitialize(t) ==
    /\ pc[t] = "driver"
    /\ \/ /\ config.channel \notin channels
          /\ channels' = channels \cup {config.channel} /\ initialized' = TRUE
          /\ Goto(t, "mode") /\ UNCHANGED <<lock, healthy>>
       \/ /\ NotInitialized(t) /\ Unlocks(t)
          /\ healthy' = FALSE /\ UNCHANGED <<channels, initialized>>
    /\ UNCHANGED <<config, running, rxObj, hasCb, attempt, shut>>

\* Setting a mode may fail; initialized_ stays set then.
ApplyMode(t) ==
    /\ pc[t] = "mode"
    /\ \/ Fails(initialized) /\ Goto(t, "halted") /\ UNCHANGED <<lock, healthy>>
       \/ initialized /\ Initialized(t) /\ Unlocks(t) /\ healthy' = HealthAfter(t)
       \/ /\ ~Fails(initialized) /\ (config.modes \/ ~initialized)
          /\ NotInitialized(t) /\ Unlocks(t)
          /\ healthy' = (~initialized /\ op[t] # "open" /\ HealthAfter(t))
    /\ UNCHANGED <<config, initialized, running, rxObj, hasCb, channels, attempt, shut>>

-----------------------------------------------------------------------------
(* uninitialize(): CAN_Uninitialize, initialized_, and the postcondition.  *)

\* The channel is forgotten, not released.
BugUninitializeForgets(t) ==
    /\ pc[t] = "uninit"
    /\ Goto(t, IF initialized THEN "clear" ELSE "cleared")
    /\ UNCHANGED <<transport, attempt, shut>>

Uninitialize(t) ==
    /\ pc[t] = "uninit"
    /\ IF initialized
         THEN channels' = channels \ {config.channel} /\ Goto(t, "clear")
         ELSE Goto(t, "cleared") /\ UNCHANGED channels
    /\ UNCHANGED <<config, healthy, initialized, running, rxObj, hasCb, lock, attempt, shut>>

Clear(t) ==
    /\ pc[t] = "clear"
    /\ initialized' = FALSE
    /\ Goto(t, "cleared")
    /\ UNCHANGED <<config, healthy, running, rxObj, hasCb, lock, channels, attempt, shut>>

\* Back in close(), configure() or recoverIfNeeded().
Cleared(t) ==
    /\ pc[t] = "cleared"
    /\ IF Fails(~initialized) THEN Goto(t, "halted") /\ UNCHANGED <<lock, shut>>
       ELSE CASE op[t] = "close" -> Return(t) /\ Unlocks(t) /\ shut' = TRUE
              [] op[t] = "destroy" -> Goto(t, "dtorJoin") /\ Unlocks(t) /\ shut' = TRUE
              [] op[t] = "configure" -> Goto(t, "init") /\ UNCHANGED <<lock, shut>>
              [] OTHER -> Goto(t, "retry") /\ UNCHANGED <<lock, shut>>
    /\ UNCHANGED <<config, healthy, initialized, running, rxObj, hasCb, channels, attempt>>

-----------------------------------------------------------------------------
(* open(), close(), configure(), setReceiveCallback() and the destructor.  *)

CallOpen(t) ==
    /\ t \in Owners /\ MayCall(t)
    /\ Enter(t, "open", "open")
    /\ UNCHANGED <<transport, attempt, shut>>

Open(t) ==
    /\ pc[t] = "open" /\ lock = NoThread
    /\ \/ initialized /\ Return(t) /\ UNCHANGED lock
       \/ ~initialized /\ lock' = t /\ Goto(t, "init")
    /\ shut' = FALSE
    /\ UNCHANGED <<config, healthy, initialized, running, rxObj, hasCb, channels, attempt>>

\* The postcondition of open(), after mutex_ has been released.
OpenEnd(t) ==
    /\ pc[t] = "openEnd"
    /\ IF Fails(initialized) THEN Goto(t, "halted") ELSE Return(t)
    /\ UNCHANGED <<transport, attempt, shut>>

\* The receive thread is left to itself.
BugCloseWithoutStop(t) ==
    /\ t \in Owners /\ MayCall(t)
    /\ Enter(t, "close", "close")
    /\ UNCHANGED <<transport, attempt, shut>>

CallClose(t) ==
    /\ t \in Owners /\ MayCall(t)
    /\ Enter(t, "stopCas", "close")
    /\ UNCHANGED <<transport, attempt, shut>>

\* ~PCANBasic: no other thread of the application is inside a call any more.
CallDestroy(t) ==
    /\ t \in Owners \cap App /\ MayCall(t)
    /\ \A u \in App : pc[u] = "idle"
    /\ Enter(t, "stopCas", "destroy")
    /\ UNCHANGED <<transport, attempt, shut>>

CloseLocks(t) ==
    /\ pc[t] = "close" /\ lock = NoThread
    /\ lock' = t
    /\ Goto(t, "uninit")
    /\ UNCHANGED <<config, healthy, initialized, running, rxObj, hasCb, channels, attempt, shut>>

\* The thread close() did not join is joined.
DestructorJoin(t) ==
    /\ pc[t] = "dtorJoin"
    /\ rxObj # NoThread => pc[rxObj] = "done" \/ running
    /\ IF rxObj # NoThread /\ running
         THEN running' = FALSE /\ UNCHANGED <<rxObj, pc>>
         ELSE /\ rxObj' = NoThread
              /\ pc' = [u \in Threads |-> IF u = t THEN "dead"
                                          ELSE IF u = rxObj THEN "absent" ELSE pc[u]]
              /\ UNCHANGED running
    /\ UNCHANGED <<config, healthy, initialized, hasCb, lock, channels, op, attempt, shut>>

CallConfigure(t) ==
    /\ t \in Owners /\ MayCall(t) /\ lock = NoThread
    /\ config' \in Configs
    /\ Enter(t, "reinit", "configure")
    /\ UNCHANGED <<healthy, initialized, running, rxObj, hasCb, lock, channels, attempt, shut>>

\* if (initialized_), without mutex_.
Reinitialize(t) ==
    /\ pc[t] = "reinit"
    /\ Goto(t, IF initialized THEN "stopCas" ELSE "start")
    /\ UNCHANGED <<transport, attempt, shut>>

CallSetReceiveCallback(t) ==
    /\ t \in Owners /\ MayCall(t)
    /\ hasCb' \in BOOLEAN
    /\ Enter(t, "start", "setcb")
    /\ UNCHANGED <<config, healthy, initialized, running, rxObj, lock, channels, attempt, shut>>

-----------------------------------------------------------------------------
(* startReceiveThread() and stopReceiveThread().                           *)

AfterStart(t) == IF op[t] = "open" THEN Goto(t, "openEnd") ELSE Return(t)

\* The test its callers make before is the same.
StartCheck(t) ==
    /\ pc[t] = "start" /\ lock = NoThread
    /\ IF initialized /\ Spawns(config) /\ hasCb THEN Goto(t, "startCas") ELSE AfterStart(t)
    /\ UNCHANGED <<transport, attempt, shut>>

StartCas(t) ==
    /\ pc[t] = "startCas"
    /\ running' = TRUE
    /\ IF running THEN AfterStart(t) ELSE Goto(t, "spawn")
    /\ UNCHANGED <<config, healthy, initialized, rxObj, hasCb, lock, channels, attempt, shut>>

Spawn(t) ==
    /\ pc[t] = "spawn"
    /\ IF rxObj # NoThread
         THEN Goto(t, "terminated") /\ UNCHANGED rxObj
         ELSE \E r \in Rx :
                /\ pc[r] = "absent"
                /\ rxObj' = r
                /\ LET back == op[t] # "open"
                   IN /\ pc' = [pc EXCEPT ![r] = "loop",
                                  ![t] = IF back THEN ReturnPoint(t) ELSE "openEnd"]
                      /\ op' = [op EXCEPT ![t] = IF back THEN "none" ELSE @]
    /\ UNCHANGED <<config, healthy, initialized, running, hasCb, lock, channels, attempt, shut>>

StopNext(t) == IF op[t] = "configure" THEN "uninit" ELSE "close"

StopCas(t) ==
    /\ pc[t] = "stopCas"
    /\ running' = FALSE
    /\ Goto(t, IF running THEN "join" ELSE StopNext(t))
    /\ UNCHANGED <<config, healthy, initialized, rxObj, hasCb, lock, channels, attempt, shut>>

\* A thread that joins itself gets a std::system_error nobody catches.
Join(t) ==
    /\ pc[t] = "join"
    /\ \/ rxObj = NoThread /\ Goto(t, StopNext(t)) /\ UNCHANGED rxObj
       \/ rxObj = t /\ Goto(t, "terminated") /\ UNCHANGED rxObj
       \/ /\ rxObj \in Rx \ {t} /\ pc[rxObj] = "done"
          /\ rxObj' = NoThread
          /\ pc' = [pc EXCEPT ![rxObj] = "absent", ![t] = StopNext(t)]
          /\ UNCHANGED op
    /\ UNCHANGED <<config, healthy, initialized, running, hasCb, lock, channels, attempt, shut>>

-----------------------------------------------------------------------------
(* send(), receive() and recoverIfNeeded().                                *)

\* A call the configuration allows goes on; any other is an error.
Begins(enabled) == healthy' = (healthy /\ enabled)

CallSend(t) ==
    /\ t \in Users /\ MayCall(t)
    /\ IF IsSendEnabled(config.direction) THEN Enter(t, "check", "send")
                                          ELSE UNCHANGED <<pc, op>>
    /\ Begins(IsSendEnabled(config.direction))
    /\ UNCHANGED <<config, initialized, running, rxObj, hasCb, lock, channels, attempt, shut>>

CallReceive(t) ==
    /\ t \in Users /\ MayCall(t)
    /\ IF IsReceiveEnabled(config.direction) THEN Enter(t, "check", "receive")
                                             ELSE UNCHANGED <<pc, op>>
    /\ Begins(IsReceiveEnabled(config.direction))
    /\ UNCHANGED <<config, initialized, running, rxObj, hasCb, lock, channels, attempt, shut>>

\* One turn of receiveLoop(): stop, or call receive().
ReceiveLoop(t) ==
    /\ pc[t] = "loop"
    /\ \/ ~running /\ Goto(t, "done") /\ UNCHANGED healthy
       \/ /\ running /\ Begins(IsReceiveEnabled(config.direction))
          /\ Goto(t, IF IsReceiveEnabled(config.direction) THEN "check" ELSE "loop")
    /\ UNCHANGED <<config, initialized, running, rxObj, hasCb, lock, channels, attempt, shut>>

\* receiveCallback_.notify(): the callback returns to the loop.
NotifyReturns(t) ==
    /\ pc[t] = "notify"
    /\ Goto(t, "loop")
    /\ UNCHANGED <<transport, attempt, shut>>

CheckInitialized(t) ==
    /\ pc[t] = "check" /\ lock = NoThread
    /\ IF initialized THEN Goto(t, "io") ELSE Return(t)
    /\ healthy' = (healthy /\ (initialized \/ op[t] # "send"))
    /\ UNCHANGED <<config, initialized, running, rxObj, hasCb, lock, channels, attempt, shut>>

\* Health is not restored by the frame.
BugHealthNotRestored(t) ==
    /\ pc[t] = "io" /\ config.channel \in channels
    /\ \/ op[t] = "none" /\ Goto(t, "notify")
       \/ Return(t)
    /\ UNCHANGED <<transport, attempt, shut>>

\* A frame was transferred; the loop passes it on unless it is empty.
IoTransfers(t) ==
    /\ pc[t] = "io" /\ config.channel \in channels
    /\ healthy' = TRUE
    /\ \/ op[t] = "none" /\ Goto(t, "notify")
       \/ Return(t)
    /\ UNCHANGED <<config, initialized, running, rxObj, hasCb, lock, channels, attempt, shut>>

\* An error recoverIfNeeded() does nothing about, or PCAN_ERROR_QRCVEMPTY.
IoReturns(t) ==
    /\ pc[t] = "io"
    /\ \/ healthy' = FALSE
       \/ op[t] # "send" /\ UNCHANGED healthy
    /\ Return(t)
    /\ UNCHANGED <<config, initialized, running, rxObj, hasCb, lock, channels, attempt, shut>>

\* Bus off or bus heavy: the channel is released.
RecoverIfNeeded(t) ==
    /\ pc[t] = "io" /\ config.channel \in channels /\ config.autoReconnect
    /\ attempt' = [attempt EXCEPT ![t] = 0] /\ healthy' = FALSE
    /\ Goto(t, "uninit")
    /\ UNCHANGED <<config, initialized, running, rxObj, hasCb, lock, channels, shut>>

\* The attempts are not counted.
BugRetriesForever(t) ==
    /\ pc[t] = "retry"
    /\ Goto(t, "init")
    /\ UNCHANGED <<transport, attempt, shut>>

\* The next attempt, after reconnectInterval.
Retry(t) ==
    /\ pc[t] = "retry"
    /\ attempt' = [attempt EXCEPT ![t] = @ + 1]
    /\ Goto(t, "init")
    /\ UNCHANGED <<transport, shut>>

-----------------------------------------------------------------------------

\* The object is gone; nothing more happens to it.
Destroyed ==
    /\ \E t \in App : pc[t] = "dead"
    /\ UNCHANGED vars

\* defaultAssertionFailed() loops for ever.
Spins ==
    /\ \E t \in Threads : pc[t] = "halted"
    /\ UNCHANGED vars

Call(t) ==
    \/ CallOpen(t) \/ CallClose(t) \/ CallDestroy(t) \/ CallConfigure(t)
    \/ CallSetReceiveCallback(t) \/ CallSend(t) \/ CallReceive(t)

Channel(t) ==
    \/ InitializeCheck(t) \/ DriverInitialize(t) \/ ApplyMode(t)
    \/ Uninitialize(t) \/ Clear(t) \/ Cleared(t)

Lifecycle(t) ==
    \/ Open(t) \/ OpenEnd(t) \/ CloseLocks(t) \/ DestructorJoin(t)
    \/ Reinitialize(t) \/ StartCheck(t) \/ StartCas(t) \/ Spawn(t)
    \/ StopCas(t) \/ Join(t)

Data(t) ==
    \/ ReceiveLoop(t) \/ NotifyReturns(t) \/ CheckInitialized(t)
    \/ IoTransfers(t) \/ IoReturns(t) \/ RecoverIfNeeded(t) \/ Retry(t)

\* std::terminate ends the process.
Aborted == \E t \in Threads : pc[t] = "terminated"

Step(t) == ~Aborted /\ (Channel(t) \/ Lifecycle(t) \/ Data(t))

Next ==
    \/ \E t \in Threads : (~Aborted /\ Call(t)) \/ Step(t)
    \/ Destroyed
    \/ Spins

Spec == Init /\ [][Next]_vars

\* Threads inside the library are scheduled, the driver and the callback
\* return.  Nothing is assumed of the bus: it may never come back.
Fairness ==
    \A t \in Threads : WF_vars(Step(t)) /\ SF_vars(NotifyReturns(t))
FairSpec == Spec /\ Fairness

-----------------------------------------------------------------------------
(* Properties. *)

Controlling == {"open", "openEnd", "start", "startCas", "spawn", "reinit",
                "stopCas", "join", "close", "dtorJoin"}
Switching == {"init", "driver", "mode", "uninit", "clear", "cleared", "retry"}
Settled == \A t \in Threads : pc[t] \notin Controlling \cup Switching
LiveReaders == {r \in Rx : pc[r] # "absent"}

\* From the end of close() to the next open() the driver holds no channel of
\* ours and no receive thread is left, whatever recovery close() interrupted.
ShutIsQuiet ==
    shut => /\ ~initialized /\ channels = {}
            /\ ~running /\ rxObj = NoThread /\ LiveReaders = {}

\* When nobody is switching the channel, initialized_ tells what the driver
\* holds: the channel of the configuration, or none.
InitializedIsTrue ==
    (\A t \in Threads : pc[t] \notin Switching)
        => channels = IF initialized THEN {config.channel} ELSE {}

\* An initialised transport that is configured to read in the background, with
\* no mode to set, and has a callback does read, after any recovery and
\* re-configuration.  (A mode that could not be set makes open() return FALSE
\* with initialized_ set and no thread; a failed assertion stops a thread.)
OpenMeansReading ==
    Settled /\ initialized /\ Spawns(config) /\ ~config.modes /\ hasCb =>
        \/ \E t \in Threads : pc[t] = "halted"
        \/ running /\ rxObj # NoThread /\ pc[rxObj] # "done"

\* The inductive strengthening of the type invariant: where a thread has
\* attempts left.
AttemptInv ==
    /\ TypeOK
    /\ \A t \in Threads :
        /\ pc[t] = "retry" => attempt[t] < MaxAttempts
        /\ pc[t] = "reinit" => op[t] = "configure"
        /\ pc[t] \in {"stopCas", "join", "close"} => op[t] \in {"close", "destroy", "configure"}
        /\ pc[t] \in {"uninit", "clear", "cleared"} =>
             op[t] \in {"close", "destroy", "configure"} \/ attempt[t] = 0

\* The inductive strengthening of ShutIsQuiet and InitializedIsTrue when one
\* thread o controls the transport, only callbacks use it, and the channel stays
\* the same: where o and the receive thread are, ...
SingleOwner(o) ==
    /\ o \in App /\ Owners = {o} /\ Users \subseteq Rx
    /\ \A c, d \in Configs : c.channel = d.channel
ThreadInv(o) ==
    /\ config \in Configs
    /\ \A t \in Threads : pc[t] # "terminated"
    /\ \A t \in Threads \ {o} :
        /\ pc[t] \notin Controlling /\ op[t] \in {"none", "send", "receive"}
        /\ pc[t] \in Switching \cup {"loop", "notify", "check", "io"} => t \in Rx
    /\ pc[o] \notin {"loop", "notify", "check", "io", "retry"}
    /\ pc[o] = "open" => op[o] = "open"
    /\ pc[o] \in {"init", "driver", "mode"} => op[o] \in {"open", "configure"}
    /\ pc[o] \in {"uninit", "clear", "cleared"} => op[o] \in {"close", "destroy", "configure"}
    /\ \A r \in Rx : pc[r] # "absent" => rxObj = r
    /\ rxObj # NoThread /\ ~running => pc[o] = "join"
    /\ running /\ rxObj = NoThread => pc[o] = "spawn"
    /\ pc[o] = "spawn" => running /\ rxObj = NoThread
    /\ pc[o] \in {"join", "close", "uninit", "clear", "cleared", "dtorJoin"} => ~running
    /\ pc[o] \in {"init", "driver", "mode"} => lock = o \/ (op[o] = "configure" /\ ~running)

\* ... and which of them may change initialized_ and the channel.
ChannelInv(o) ==
    /\ channels = IF initialized /\ \A t \in Threads : pc[t] # "clear"
                    THEN {config.channel} ELSE {}
    /\ \A t \in Threads : pc[t] = "clear" => initialized
    /\ \A r \in Rx : pc[r] \in {"io", "uninit", "clear"} =>
        initialized /\ pc[o] \notin {"init", "driver", "mode"}
    /\ pc[o] = "mode" => initialized
    /\ pc[o] = "cleared" => ~initialized
    /\ shut => /\ ~initialized /\ ~running /\ rxObj = NoThread
               /\ pc[o] \notin {"startCas", "spawn", "init", "driver", "mode"}
               /\ pc[o] \in {"stopCas", "join", "close", "uninit", "cleared"} => op[o] # "configure"

\* The inductive strengthening of OpenMeansReading: where o has yet to start the
\* receive thread, or has stopped it.
ReadingInv(o) ==
    /\ \A r \in Rx : pc[r] = "done" => ~running
    /\ initialized /\ Spawns(config) /\ ~config.modes /\ hasCb =>
        \/ running \/ \E t \in Threads : pc[t] = "halted"
        \/ pc[o] \in {"mode", "start", "startCas", "reinit", "stopCas", "join", "close",
                      "uninit", "clear"}

\* close(), configure() and the destructor end although the bus may never
\* recover: the recovery they wait for is bounded.  A failed assertion stops
\* its thread for ever.
StopEnds ==
    \A t \in Owners : (pc[t] = "stopCas") ~>
        (pc[t] \in {"idle", "dead"} \/ \E u \in Threads : pc[u] = "halted")

\* While the bus carries frames, a transport that reads in the background
\* becomes healthy again after every error and recovery, although the receive()
\* that recovers ends unhealthy; unless it is stopped, re-configured to send
\* only, or its recovery has used up its attempts.
FramesArrive == \A r \in Rx : SF_vars(IoTransfers(r))
HealthRecovers ==
    FramesArrive =>
        ((initialized /\ running)
            ~> \/ healthy \/ ~running \/ ~initialized
               \/ ~IsReceiveEnabled(config.direction)
               \/ \E t \in Threads : pc[t] = "halted")

\* No assertion of the code fails.
AssertionsHold == \A t \in Threads : pc[t] # "halted"

\* What every transport promises about its lifecycle: it is open from open() to
\* close(), and the channel the driver holds is its link.  Recovery and
\* configure() take the link down and up again while the transport stays open.
Contract == INSTANCE TransportContract WITH
    open <- ~shut,
    reader <- LiveReaders # {},
    link <- channels # {}
ImplementsContract == Contract!Spec
=============================================================================
