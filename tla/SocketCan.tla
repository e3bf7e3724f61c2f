----------------------------- MODULE SocketCan -----------------------------
(***************************************************************************)
(* The SocketCAN transport: open() and the receive thread it starts while  *)
(* it holds mutex_, close(), a configure() that takes effect at the next   *)
(* open() only, and the raw socket whose time-outs were set when it was    *)
(* opened.                                                                 *)
(*                                                                         *)
(* A step is one short critical section of mutex_, one operation on an     *)
(* atomic, or one system call.  Only open() keeps mutex_ (lock) across     *)
(* several of them.                                                        *)
(*                                                                         *)
(* The operators named Bug... are mutations of the definition that follows *)
(* them; Next does not use them.                                           *)
(***************************************************************************)
EXTENDS Naturals

CONSTANTS
    App,        \* threads of the application
    Rx,         \* identities of receive threads
    Owners,     \* threads that call open, close, configure, setReceiveCallback
    Users,      \* threads that call send, receive, readFrame and writeFrame
    NoThread,   \* "not joinable", "unlocked"
    Fds, NoFd,  \* descriptors the kernel hands out, re-used once closed; "-1"
    Configs     \* configurations the application passes to configure()

Threads == App \cup Rx

\* timed: receiveTimeout and sendTimeout are positive; filters: not empty.
Config == [timed : BOOLEAN, filters : BOOLEAN, spawn : BOOLEAN,
           direction : {"SendOnly", "ReceiveOnly", "TwoWay"}]

ASSUME ThreadsAssumption ==
    /\ App \cap Rx = {} /\ NoThread \notin Threads
    /\ Owners \subseteq Threads /\ Users \subseteq Threads
ASSUME FdsAssumption == NoFd \notin Fds
ASSUME ConfigsAssumption == Configs \subseteq Config /\ Configs # {}

VARIABLES
    config,     \* config_
    socket,     \* socket_
    running,    \* running_
    rxObj,      \* the thread receiveThread_ owns
    hasCb,      \* receiveCallback_ holds a callback
    healthy,    \* healthy_
    lock,       \* the thread that holds mutex_ across several steps
    fd,         \* kernel: what each descriptor is
    pc, op,     \* per thread: where it is, and in which call
    local,      \* per thread: the descriptor send() or receive() read
    seen        \* history: open() or setReceiveCallback() saw this config_

transport == <<config, socket, running, rxObj, hasCb, healthy, lock, fd>>
vars == <<transport, pc, op, local, seen>>

\* A CAN socket with or without SO_RCVTIMEO and SO_SNDTIMEO.
FdStates == {"closed", "timed", "untimed"}
Labels == {"idle", "absent", "loop", "notify", "done", "terminated", "dead",
           "open", "setup", "startCas", "spawn", "stopCas", "join", "close",
           "dtorJoin", "filters", "applyFilters", "setcb", "snapshot", "io"}
Transfers == {"send", "receive", "readFrame", "writeFrame"}
Ops == {"none", "open", "close", "destroy", "configure", "setcb"} \cup Transfers

\* Shapes of the state.
TypeOK ==
    /\ config \in Config /\ socket \in Fds \cup {NoFd}
    /\ running \in BOOLEAN /\ rxObj \in Rx \cup {NoThread}
    /\ hasCb \in BOOLEAN /\ healthy \in BOOLEAN /\ lock \in Threads \cup {NoThread}
    /\ fd \in [Fds -> FdStates]
    /\ pc \in [Threads -> Labels] /\ op \in [Threads -> Ops]
    /\ local \in [Threads -> Fds \cup {NoFd}] /\ seen \in BOOLEAN

Init ==
    /\ config \in Configs /\ socket = NoFd /\ running = FALSE
    /\ rxObj = NoThread /\ hasCb = FALSE /\ healthy = TRUE /\ lock = NoThread
    /\ fd = [f \in Fds |-> "closed"]
    /\ pc = [t \in Threads |-> IF t \in App THEN "idle" ELSE "absent"]
    /\ op = [t \in Threads |-> "none"]
    /\ local = [t \in Threads |-> NoFd] /\ seen = TRUE

-----------------------------------------------------------------------------
(* Control helpers. *)

IsReceiveEnabled(d) == d \in {"ReceiveOnly", "TwoWay"}
IsSendEnabled(d) == d \in {"SendOnly", "TwoWay"}
Spawns(c) == c.spawn /\ IsReceiveEnabled(c.direction)

Goto(t, label) == pc' = [pc EXCEPT ![t] = label] /\ UNCHANGED op
Enter(t, label, call) ==
    pc' = [pc EXCEPT ![t] = label] /\ op' = [op EXCEPT ![t] = call]

\* A receive thread is inside receive() of its loop when op is "none".
ReturnPoint(t) ==
    IF t \in App THEN "idle" ELSE IF op[t] = "none" THEN "loop" ELSE "notify"
Return(t) == Enter(t, ReturnPoint(t), "none")

\* std::lock_guard of open() goes out of scope.
Unlocks(t) == lock' = IF lock = t THEN NoThread ELSE lock

\* Nobody but a callback calls into an object being destroyed.
MayCall(t) ==
    /\ \A u \in Threads : op[u] # "destroy" \/ t \in Rx
    /\ pc[t] = IF t \in App THEN "idle" ELSE "notify"

-----------------------------------------------------------------------------
(* open(), with mutex_ held to the end of it. *)

CallOpen(t) ==
    /\ t \in Owners /\ MayCall(t)
    /\ Enter(t, "open", "open")
    /\ UNCHANGED <<transport, local, seen>>

OpenAlready(t) ==
    /\ pc[t] = "open" /\ lock = NoThread /\ socket # NoFd
    /\ Return(t)
    /\ UNCHANGED <<transport, local, seen>>

\* ::socket
OpenSocket(t) ==
    /\ pc[t] = "open" /\ lock = NoThread /\ socket = NoFd
    /\ \/ /\ \E f \in Fds : /\ fd[f] = "closed"
                            /\ fd' = [fd EXCEPT ![f] = "untimed"] /\ socket' = f
          /\ lock' = t /\ Goto(t, "setup") /\ UNCHANGED healthy
       \/ healthy' = FALSE /\ Return(t) /\ UNCHANGED <<fd, socket, lock>>
    /\ UNCHANGED <<config, running, rxObj, hasCb, local, seen>>

\* The descriptor of the failed attempt is not closed.
BugSetupFailureLeaks(t) ==
    /\ pc[t] = "setup"
    /\ healthy' = FALSE /\ socket' = NoFd
    /\ Unlocks(t) /\ Return(t)
    /\ UNCHANGED <<config, running, rxObj, hasCb, fd, local, seen>>

\* The interface is unknown, cannot be bound, or refuses the filters.
SetupFails(t) ==
    /\ pc[t] = "setup"
    /\ healthy' = FALSE
    /\ fd' = [fd EXCEPT ![socket] = "closed"] /\ socket' = NoFd
    /\ Unlocks(t) /\ Return(t)
    /\ UNCHANGED <<config, running, rxObj, hasCb, local, seen>>

\* The receive thread is started when the callback is set only.
BugSetupNeverStarts(t) ==
    /\ pc[t] = "setup"
    /\ healthy' = TRUE /\ seen' = TRUE
    /\ fd' = [fd EXCEPT ![socket] = IF config.timed THEN "timed" ELSE "untimed"]
    /\ Return(t) /\ Unlocks(t)
    /\ UNCHANGED <<config, socket, running, rxObj, hasCb, local>>

SetupSucceeds(t) ==
    /\ pc[t] = "setup"
    /\ healthy' = TRUE /\ seen' = TRUE
    /\ fd' = [fd EXCEPT ![socket] = IF config.timed THEN "timed" ELSE "untimed"]
    /\ IF Spawns(config) /\ hasCb
         THEN Goto(t, "startCas") /\ UNCHANGED lock
         ELSE Return(t) /\ Unlocks(t)
    /\ UNCHANGED <<config, socket, running, rxObj, hasCb, local>>

-----------------------------------------------------------------------------
(* startReceiveLoop() and stopReceiveLoop(). *)

StartCas(t) ==
    /\ pc[t] = "startCas"
    /\ running' = TRUE
    /\ IF running THEN Return(t) /\ Unlocks(t) ELSE Goto(t, "spawn") /\ UNCHANGED lock
    /\ UNCHANGED <<config, socket, rxObj, hasCb, healthy, fd, local, seen>>

\* Assigning to a joinable std::thread calls std::terminate.
Spawn(t) ==
    /\ pc[t] = "spawn"
    /\ IF rxObj # NoThread
         THEN Goto(t, "terminated") /\ UNCHANGED <<rxObj, lock>>
         ELSE /\ \E r \in Rx :
                   /\ pc[r] = "absent"
                   /\ rxObj' = r
                   /\ pc' = [pc EXCEPT ![t] = ReturnPoint(t), ![r] = "loop"]
                   /\ op' = [op EXCEPT ![t] = "none"]
              /\ Unlocks(t)
    /\ UNCHANGED <<config, socket, running, hasCb, healthy, fd, local, seen>>

\* The stop request is not published to the loop.
BugStopNotPublished(t) ==
    /\ pc[t] = "stopCas"
    /\ Goto(t, IF running THEN "join" ELSE "close")
    /\ UNCHANGED <<transport, local, seen>>

StopCas(t) ==
    /\ pc[t] = "stopCas"
    /\ running' = FALSE
    /\ Goto(t, IF running THEN "join" ELSE "close")
    /\ UNCHANGED <<config, socket, rxObj, hasCb, healthy, lock, fd, local, seen>>

\* A thread that joins itself gets a std::system_error nobody catches.
Join(t) ==
    /\ pc[t] = "join"
    /\ \/ rxObj = NoThread /\ Goto(t, "close") /\ UNCHANGED rxObj
       \/ rxObj = t /\ Goto(t, "terminated") /\ UNCHANGED rxObj
       \/ /\ rxObj \in Rx \ {t} /\ pc[rxObj] = "done"
          /\ rxObj' = NoThread
          /\ pc' = [pc EXCEPT ![rxObj] = "absent", ![t] = "close"]
          /\ UNCHANGED op
    /\ UNCHANGED <<config, socket, running, hasCb, healthy, lock, fd, local, seen>>

-----------------------------------------------------------------------------
(* close(), the destructor, configure() and setReceiveCallback(). *)

\* The socket is closed under the feet of the receive thread, which is
\* stopped afterwards.
BugCloseFirst(t) ==
    /\ t \in Owners /\ MayCall(t)
    /\ Enter(t, "close", "close")
    /\ UNCHANGED <<transport, local, seen>>

CallClose(t) ==
    /\ t \in Owners /\ MayCall(t)
    /\ Enter(t, "stopCas", "close")
    /\ UNCHANGED <<transport, local, seen>>

\* ~SocketCAN: no other thread of the application is inside a call any more.
CallDestroy(t) ==
    /\ t \in Owners \cap App /\ MayCall(t)
    /\ \A u \in App : pc[u] = "idle"
    /\ Enter(t, "stopCas", "destroy")
    /\ UNCHANGED <<transport, local, seen>>

Close(t) ==
    /\ pc[t] = "close" /\ lock = NoThread
    /\ fd' = [f \in Fds |-> IF f = socket THEN "closed" ELSE fd[f]]
    /\ socket' = NoFd
    /\ IF op[t] = "destroy" THEN Goto(t, "dtorJoin") ELSE Return(t)
    /\ UNCHANGED <<config, running, rxObj, hasCb, healthy, lock, local, seen>>

\* The destructor joins a receive thread that close() did not join.
DestructorJoin(t) ==
    /\ pc[t] = "dtorJoin"
    /\ rxObj # NoThread => pc[rxObj] = "done"
    /\ rxObj' = NoThread
    /\ pc' = [u \in Threads |-> IF u = t THEN "dead"
                                ELSE IF u = rxObj THEN "absent" ELSE pc[u]]
    /\ UNCHANGED <<config, socket, running, hasCb, healthy, lock, fd, op, local, seen>>

\* configure(c): the receive loop is neither started nor stopped.
CallConfigure(t) ==
    /\ t \in Owners /\ MayCall(t) /\ lock = NoThread
    /\ config' \in Configs /\ seen' = FALSE
    /\ Enter(t, "filters", "configure")
    /\ UNCHANGED <<socket, running, rxObj, hasCb, healthy, lock, fd, local>>

\* isOpen() && !config_.filters.empty()
ConfigureFilters(t) ==
    /\ pc[t] = "filters" /\ lock = NoThread
    /\ IF socket # NoFd /\ config.filters THEN Goto(t, "applyFilters") ELSE Return(t)
    /\ UNCHANGED <<transport, local, seen>>

\* applyFilters() without mutex_: socket_ may have been closed since, and
\* the kernel may refuse the filters.
ApplyFilters(t) ==
    /\ pc[t] = "applyFilters"
    /\ \/ UNCHANGED healthy
       \/ socket # NoFd /\ healthy' = FALSE
    /\ Return(t)
    /\ UNCHANGED <<config, socket, running, rxObj, hasCb, lock, fd, local, seen>>

CallSetReceiveCallback(t) ==
    /\ t \in Owners /\ MayCall(t)
    /\ hasCb' \in BOOLEAN
    /\ Enter(t, "setcb", "setcb")
    /\ UNCHANGED <<config, socket, running, rxObj, healthy, lock, fd, local, seen>>

\* Its second half starts the loop whether or not there is a callback now.
CheckLaunch(t) ==
    /\ pc[t] = "setcb" /\ lock = NoThread
    /\ seen' = TRUE
    /\ IF socket # NoFd /\ Spawns(config) THEN Goto(t, "startCas") ELSE Return(t)
    /\ UNCHANGED <<transport, local>>

-----------------------------------------------------------------------------
(* send(), receive(), readFrame() and writeFrame(). *)

CallTransfer(t) ==
    /\ t \in Users /\ MayCall(t)
    /\ \E call \in Transfers : Enter(t, "snapshot", call)
    /\ UNCHANGED <<transport, local, seen>>

\* One turn of receiveLoop(): stop, or call receive().
ReceiveLoop(t) ==
    /\ pc[t] = "loop"
    /\ Goto(t, IF running THEN "snapshot" ELSE "done")
    /\ UNCHANGED <<transport, local, seen>>

\* receiveCallback_.notify(): the callback returns to the loop.
NotifyReturns(t) ==
    /\ pc[t] = "notify"
    /\ Goto(t, "loop")
    /\ UNCHANGED <<transport, local, seen>>

Receives(t) == op[t] \in {"none", "receive"}

\* The configuration allows the call; readFrame and writeFrame do not ask.
Permitted(t) ==
    /\ Receives(t) => IsReceiveEnabled(config.direction)
    /\ op[t] = "send" => IsSendEnabled(config.direction)

\* An error is reported, except by readFrame() and by writeFrame() of a
\* transport that is not open.
Refused(t) ==
    healthy' = IF op[t] \in {"readFrame", "writeFrame"} THEN healthy ELSE FALSE

\* config_ and socket_ are read under mutex_ and used without it.
Snapshot(t) ==
    /\ pc[t] = "snapshot" /\ lock = NoThread
    /\ IF Permitted(t) /\ socket # NoFd
         THEN local' = [local EXCEPT ![t] = socket] /\ Goto(t, "io") /\ UNCHANGED healthy
         ELSE Refused(t) /\ Return(t) /\ UNCHANGED local
    /\ UNCHANGED <<config, socket, running, rxObj, hasCb, lock, fd, seen>>

Forget(t) == local' = [local EXCEPT ![t] = NoFd]

\* Health is not restored by the data that arrives.
BugHealthNotRestored(t) ==
    /\ pc[t] = "io"
    /\ \/ Return(t)
       \/ op[t] = "none" /\ Goto(t, "notify")
    /\ Forget(t)
    /\ UNCHANGED <<transport, seen>>

\* A frame was read, written whole, or there was nothing to send.  The loop
\* passes a frame on only when it carries data.
IoTransfers(t) ==
    /\ pc[t] = "io"
    /\ healthy' = (healthy \/ Receives(t))
    /\ \/ Return(t)
       \/ op[t] = "none" /\ Goto(t, "notify")
    /\ Forget(t)
    /\ UNCHANGED <<config, socket, running, rxObj, hasCb, lock, fd, seen>>

\* SO_RCVTIMEO or SO_SNDTIMEO: nothing received is no error, a frame that
\* could not be sent is.
IoTimesOut(t) ==
    /\ pc[t] = "io" /\ fd[local[t]] = "timed"
    /\ healthy' = IF op[t] \in {"send", "writeFrame"} THEN FALSE ELSE healthy
    /\ Return(t) /\ Forget(t)
    /\ UNCHANGED <<config, socket, running, rxObj, hasCb, lock, fd, seen>>

\* The interface is down, or the descriptor was closed meanwhile.
IoFails(t) ==
    /\ pc[t] = "io"
    /\ healthy' = IF op[t] = "readFrame" THEN healthy ELSE FALSE
    /\ Return(t) /\ Forget(t)
    /\ UNCHANGED <<config, socket, running, rxObj, hasCb, lock, fd, seen>>

-----------------------------------------------------------------------------

\* The object is gone; nothing more happens to it.
Destroyed ==
    /\ \E t \in App : pc[t] = "dead"
    /\ UNCHANGED vars

Call(t) ==
    \/ CallOpen(t) \/ CallClose(t) \/ CallDestroy(t) \/ CallConfigure(t)
    \/ CallSetReceiveCallback(t) \/ CallTransfer(t)

Lifecycle(t) ==
    \/ OpenAlready(t) \/ OpenSocket(t) \/ SetupFails(t) \/ SetupSucceeds(t)
    \/ StartCas(t) \/ Spawn(t) \/ StopCas(t) \/ Join(t)
    \/ Close(t) \/ DestructorJoin(t)
    \/ ConfigureFilters(t) \/ ApplyFilters(t) \/ CheckLaunch(t)

Data(t) ==
    \/ ReceiveLoop(t) \/ NotifyReturns(t) \/ Snapshot(t) \/ IoTimesOut(t)

\* What only the bus brings about.
Bus(t) == IoTransfers(t) \/ IoFails(t)

\* std::terminate ends the process.
Aborted == \E t \in Threads : pc[t] = "terminated"

Step(t) == ~Aborted /\ (Lifecycle(t) \/ Data(t))

Next ==
    \/ \E t \in Threads : (~Aborted /\ (Call(t) \/ Bus(t))) \/ Step(t)
    \/ Destroyed

Spec == Init /\ [][Next]_vars

\* Threads inside the library are scheduled, time-outs that were set expire
\* and the callback returns.  Nothing is assumed of the bus: a read without a
\* time-out may block for ever.
Fairness == \A t \in Threads : WF_vars(Step(t)) /\ SF_vars(NotifyReturns(t))
FairSpec == Spec /\ Fairness

-----------------------------------------------------------------------------
(* Properties. *)

Controlling == {"open", "setup", "startCas", "spawn", "stopCas", "join", "close",
                "dtorJoin", "setcb"}
Settled == \A t \in Threads : pc[t] \notin Controlling
LiveReaders == {r \in Rx : pc[r] # "absent"}

\* Every CAN socket the process has open is the transport's: a failed open()
\* leaks none, and socket_ never names a descriptor the kernel has taken back.
SocketOwned == \A f \in Fds : fd[f] # "closed" <=> f = socket

\* close() waits for the receive thread before it closes the socket: neither
\* the loop nor a callback it runs reads or writes a descriptor that is closed
\* or re-used.
ReaderOwnsDescriptor == \A r \in Rx : pc[r] = "io" => local[r] = socket /\ socket # NoFd

\* A closed transport that nobody is opening or closing has no receive thread.
ClosedIsQuiet ==
    Settled /\ socket = NoFd => ~running /\ rxObj = NoThread /\ LiveReaders = {}

\* The inductive strengthening of SocketOwned: open() is alone while the
\* socket it made is not set up.
OwnedInv ==
    /\ TypeOK /\ SocketOwned
    /\ \A t \in Threads : pc[t] = "setup" => lock = t /\ socket # NoFd

\* The inductive strengthening of ClosedIsQuiet, ReaderOwnsDescriptor and
\* NoTerminate for a transport that one application thread o controls.
SingleOwner(o) == o \in App /\ Owners = {o}
LifecycleInv(o) ==
    /\ \A t \in Threads : pc[t] # "terminated" /\ (t # o => pc[t] \notin Controlling)
    /\ \A r \in Rx : pc[r] # "absent" => rxObj = r
    /\ rxObj # NoThread /\ ~running => pc[o] = "join"
    /\ running /\ rxObj = NoThread => pc[o] = "spawn"
    /\ pc[o] = "spawn" => running /\ rxObj = NoThread
    /\ pc[o] \in {"join", "close", "dtorJoin"} => ~running
    /\ pc[o] = "setup" => ~running /\ rxObj = NoThread
    /\ running \/ rxObj # NoThread \/ pc[o] \in {"setup", "startCas"} => socket # NoFd
    /\ ReaderOwnsDescriptor

\* An open transport that is configured to read in the background and has a
\* callback reads, unless configure() has changed the configuration since the
\* last open() or setReceiveCallback().
OpenMeansReading ==
    Settled /\ socket # NoFd /\ seen /\ Spawns(config) /\ hasCb => running

\* Its inductive strengthening for one controlling thread o: where o has yet
\* to start the loop, or has stopped it.
ReadingInv(o) ==
    socket # NoFd /\ seen /\ Spawns(config) /\ hasCb =>
        running \/ pc[o] \in {"setup", "startCas", "setcb", "join", "close"}

\* No call ends the process: receiveThread_ is never overwritten while
\* joinable, and no thread joins itself.
NoTerminate == ~Aborted

\* close() and the destructor come to an end, on a bus that is silent for
\* ever, when the socket was opened with time-outs; a later configure() does
\* not change that.
StopEnds ==
    \A t \in Owners :
        (pc[t] = "stopCas" /\ (socket # NoFd => fd[socket] = "timed"))
            ~> (pc[t] \in {"idle", "dead"})

\* While frames arrive, a transport that reads in the background becomes
\* healthy again after every error, without being re-opened.
FramesArrive == \A r \in Rx : SF_vars(IoTransfers(r))
HealthRecovers ==
    FramesArrive =>
        ((socket # NoFd /\ running)
            ~> (healthy \/ ~running \/ ~IsReceiveEnabled(config.direction)))

\* What every transport promises about its lifecycle.
Contract == INSTANCE TransportContract WITH
    open <- socket # NoFd,
    reader <- LiveReaders # {},
    link <- socket # NoFd
ImplementsContract == Contract!Spec
=============================================================================
