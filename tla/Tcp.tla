-------------------------------- MODULE Tcp --------------------------------
(***************************************************************************)
(* The TCP transport: its lifecycle (open, close, configure, destructor),  *)
(* the optional receive thread, and the connection that send() and         *)
(* receive() re-establish on demand.                                       *)
(*                                                                         *)
(* A step is one critical section of mutex_, one operation on an atomic,   *)
(* or one blocking system call; between two steps any other thread may     *)
(* run.  mutex_ is therefore implicit: no step is taken while another      *)
(* thread is inside a critical section.                                    *)
(*                                                                         *)
(* The operators named Bug... are mutations of the definition that follows *)
(* them; Next does not use them.                                           *)
(***************************************************************************)
EXTENDS Naturals, FiniteSets

CONSTANTS
    App,        \* threads of the application
    Rx,         \* identities a receive thread can have (bounds the live ones)
    Owners,     \* threads that call open, close, configure, setReceiveCallback
    Senders,    \* threads that call send
    Receivers,  \* threads that call receive
    Fds,        \* descriptors the kernel hands out, re-used once closed
    NoFd, NoRx, \* "-1" and "not joinable"
    Configs     \* configurations the application passes to configure()

Threads == App \cup Rx

Config == [server : BOOLEAN, autoReconnect : BOOLEAN, spawn : BOOLEAN,
           direction : {"SendOnly", "ReceiveOnly", "TwoWay"}]

ASSUME ThreadsAssumption == App \cap Rx = {} /\ NoRx \notin Threads
ASSUME CallersAssumption ==
    Owners \subseteq Threads /\ Senders \subseteq Threads /\ Receivers \subseteq Threads
ASSUME FdsAssumption == NoFd \notin Fds
ASSUME ConfigsAssumption == Configs \subseteq Config /\ Configs # {}

VARIABLES
    config,     \* config_
    handle,     \* handle_ is not null
    server,     \* handle_->server
    socket,     \* handle_->socket
    listen,     \* handle_->listen
    running,    \* running_
    rxObj,      \* the thread receiveThread_ owns
    hasCb,      \* receiveCallback_ holds a callback
    healthy,    \* healthy_
    fd,         \* kernel: what each descriptor is
    pc, op,     \* per thread: where it is, and in which call
    sock,       \* per thread: local descriptor (socket, sock or client)
    lsn,        \* per thread: local listenSocket of ensureConnected
    asServer,   \* per thread: configSnapshot.role == Server
    stale       \* history: sock[t] was closed by another thread since t read it

transport == <<config, handle, server, socket, listen, running, rxObj, hasCb>>
locals == <<sock, lsn, asServer, stale>>
vars == <<transport, healthy, fd, pc, op, locals>>

FdStates == {"closed", "listening", "connected", "broken"}
Labels == {"idle", "absent", "loop", "notify", "done", "terminated", "dead",
           "open", "setcb", "start", "startCas", "spawn", "stopCas", "stopClose",
           "join", "reset", "dtorJoin", "ensure", "reconnect", "connect",
           "install", "accept", "installAccepted", "snapshot", "io", "drop"}
Ops == {"none", "loop", "open", "close", "destroy", "configure",
        "toggle", "setcb", "send", "receive"}

\* Shapes of the state.
TypeOK ==
    /\ config \in Config
    /\ handle \in BOOLEAN /\ server \in BOOLEAN
    /\ socket \in Fds \cup {NoFd} /\ listen \in Fds \cup {NoFd}
    /\ running \in BOOLEAN /\ rxObj \in Rx \cup {NoRx}
    /\ hasCb \in BOOLEAN /\ healthy \in BOOLEAN
    /\ fd \in [Fds -> FdStates]
    /\ pc \in [Threads -> Labels] /\ op \in [Threads -> Ops]
    /\ sock \in [Threads -> Fds \cup {NoFd}]
    /\ lsn \in [Threads -> Fds \cup {NoFd}]
    /\ asServer \in [Threads -> BOOLEAN] /\ stale \in [Threads -> BOOLEAN]

Init ==
    /\ config \in Configs
    /\ handle = FALSE /\ server = FALSE /\ socket = NoFd /\ listen = NoFd
    /\ running = FALSE /\ rxObj = NoRx /\ hasCb = FALSE /\ healthy = TRUE
    /\ fd = [f \in Fds |-> "closed"]
    /\ pc = [t \in Threads |-> IF t \in App THEN "idle" ELSE "absent"]
    /\ op = [t \in Threads |-> IF t \in App THEN "none" ELSE "loop"]
    /\ sock = [t \in Threads |-> NoFd] /\ lsn = [t \in Threads |-> NoFd]
    /\ asServer = [t \in Threads |-> FALSE]
    /\ stale = [t \in Threads |-> FALSE]

-----------------------------------------------------------------------------
(* Control helpers. *)

IsReceiveEnabled(d) == d \in {"ReceiveOnly", "TwoWay"}
IsSendEnabled(d) == d \in {"SendOnly", "TwoWay"}

\* The configuration asks for a receive thread.
Spawns(c) == c.spawn /\ IsReceiveEnabled(c.direction)

Goto(t, label) == pc' = [pc EXCEPT ![t] = label] /\ UNCHANGED op

\* An application thread returns to the application.  A receive thread
\* returns to its loop from receive(), to the callback from any other call.
ReturnPoint(t) ==
    IF t \in App THEN "idle" ELSE IF op[t] = "loop" THEN "loop" ELSE "notify"
Return(t) ==
    /\ pc' = [pc EXCEPT ![t] = ReturnPoint(t)]
    /\ op' = [op EXCEPT ![t] = IF t \in App THEN "none" ELSE "loop"]

\* Nobody but a callback calls into an object being destroyed.
CallPoint(t) == IF t \in App THEN "idle" ELSE "notify"
Alive == \A t \in Threads : op[t] # "destroy"
MayCall(t) == pc[t] = CallPoint(t) /\ (t \in Rx \/ Alive)
Enter(t, label, call) ==
    /\ pc' = [pc EXCEPT ![t] = label]
    /\ op' = [op EXCEPT ![t] = call]

\* ::close of every descriptor in S.
KernelClose(S) ==
    /\ fd' = [f \in Fds |-> IF f \in S THEN "closed" ELSE fd[f]]
    /\ stale' = [t \in Threads |-> stale[t] \/ sock[t] \in S \cap Fds]

\* The locals go out of scope.
ForgetLocals(t) ==
    /\ sock' = [sock EXCEPT ![t] = NoFd]
    /\ lsn' = [lsn EXCEPT ![t] = NoFd]
    /\ asServer' = [asServer EXCEPT ![t] = FALSE]
    /\ stale' = [stale EXCEPT ![t] = FALSE]

-----------------------------------------------------------------------------
(* Lifecycle calls. *)

CallOpen(t) ==
    /\ t \in Owners /\ MayCall(t)
    /\ Enter(t, "open", "open")
    /\ UNCHANGED <<transport, healthy, fd, locals>>

\* close() that forgets to stop the receive loop first.
BugCloseWithoutStop(t) ==
    /\ t \in Owners /\ MayCall(t)
    /\ Enter(t, "reset", "close")
    /\ UNCHANGED <<transport, healthy, fd, locals>>

CallClose(t) ==
    /\ t \in Owners /\ MayCall(t)
    /\ Enter(t, "stopCas", "close")
    /\ UNCHANGED <<transport, healthy, fd, locals>>

\* ~TCP: no other thread of the application is inside a call any more.
CallDestroy(t) ==
    /\ t \in Owners \cap App /\ MayCall(t)
    /\ \A u \in App : pc[u] = "idle"
    /\ Enter(t, "stopCas", "destroy")
    /\ UNCHANGED <<transport, healthy, fd, locals>>

\* setReceiveCallback(callback), with a null or a non-null callback.
CallSetReceiveCallback(t) ==
    /\ t \in Owners /\ MayCall(t)
    /\ hasCb' \in BOOLEAN
    /\ Enter(t, "setcb", "setcb")
    /\ UNCHANGED <<config, handle, server, socket, listen, running, rxObj,
                   healthy, fd, locals>>

\* The callback is stored and nothing launched.
BugNoLaunch(t) ==
    /\ pc[t] = "setcb"
    /\ Return(t)
    /\ UNCHANGED <<transport, healthy, fd, locals>>

\* Its second half: shouldLaunch, read under mutex_.
CheckLaunch(t) ==
    /\ pc[t] = "setcb"
    /\ IF handle /\ Spawns(config) THEN Goto(t, "start") ELSE Return(t)
    /\ UNCHANGED <<transport, healthy, fd, locals>>

\* configure(c): the configuration changes first, then the transport is
\* re-opened, or the receive loop stopped or started.
CallConfigure(t) ==
    /\ t \in Owners /\ MayCall(t)
    /\ config' \in Configs
    /\ \/ handle /\ Enter(t, "stopCas", "configure")
       \/ ~handle /\ ~config'.spawn /\ config.spawn /\ Enter(t, "stopCas", "toggle")
       \/ ~handle /\ Spawns(config') /\ Enter(t, "start", "toggle")
       \/ /\ ~handle /\ ~Spawns(config') /\ (config'.spawn \/ ~config.spawn)
          /\ UNCHANGED <<pc, op>>
    /\ UNCHANGED <<handle, server, socket, listen, running, rxObj, hasCb,
                   healthy, fd, locals>>

-----------------------------------------------------------------------------
(* open(), under mutex_: socket, bind and listen or connect, which may all *)
(* fail; the descriptor of a failed attempt is closed again at once.       *)

OpenAlready(t) ==
    /\ pc[t] = "open" /\ handle
    /\ Return(t)
    /\ UNCHANGED <<transport, healthy, fd, locals>>

OpenFails(t) ==
    /\ pc[t] = "open" /\ ~handle
    /\ healthy' = FALSE
    /\ Return(t)
    /\ UNCHANGED <<transport, fd, locals>>

OpenSucceeds(t) ==
    /\ pc[t] = "open" /\ ~handle
    /\ \E f \in Fds :
         /\ fd[f] = "closed"
         /\ IF config.server
              THEN fd' = [fd EXCEPT ![f] = "listening"] /\ listen' = f /\ socket' = NoFd
              ELSE fd' = [fd EXCEPT ![f] = "connected"] /\ socket' = f /\ listen' = NoFd
    /\ handle' = TRUE /\ server' = config.server /\ healthy' = TRUE
    /\ IF Spawns(config) THEN Goto(t, "start") ELSE Return(t)
    /\ UNCHANGED <<config, running, rxObj, hasCb, locals>>

-----------------------------------------------------------------------------
(* startReceiveLoop and stopReceiveLoop. *)

ShouldSpawnReceiveThread ==
    Spawns(config) /\ handle /\ (server \/ socket # NoFd)

StartCheck(t) ==
    /\ pc[t] = "start"
    /\ IF ShouldSpawnReceiveThread /\ hasCb THEN Goto(t, "startCas") ELSE Return(t)
    /\ UNCHANGED <<transport, healthy, fd, locals>>

StartCas(t) ==
    /\ pc[t] = "startCas"
    /\ running' = TRUE
    /\ IF running THEN Return(t) ELSE Goto(t, "spawn")
    /\ UNCHANGED <<config, handle, server, socket, listen, rxObj, hasCb,
                   healthy, fd, locals>>

\* receiveThread_ = std::thread(...): assigning to a joinable std::thread
\* calls std::terminate.
Spawn(t) ==
    /\ pc[t] = "spawn"
    /\ IF rxObj # NoRx
         THEN Goto(t, "terminated") /\ UNCHANGED rxObj
         ELSE \E r \in Rx :
                /\ pc[r] = "absent"
                /\ rxObj' = r
                /\ pc' = [pc EXCEPT ![t] = ReturnPoint(t), ![r] = "loop"]
                /\ op' = [op EXCEPT ![t] = IF t \in App THEN "none" ELSE "loop"]
    /\ UNCHANGED <<config, handle, server, socket, listen, running, hasCb,
                   healthy, fd, locals>>

\* Where a caller of stopReceiveLoop continues.
AfterStop(t) ==
    IF op[t] = "toggle" THEN Return(t) ELSE Goto(t, "reset")

\* The stop request is not published to the loop.
BugStopNotPublished(t) ==
    /\ pc[t] = "stopCas"
    /\ IF running THEN Goto(t, "stopClose") ELSE AfterStop(t)
    /\ UNCHANGED <<transport, healthy, fd, locals>>

StopCas(t) ==
    /\ pc[t] = "stopCas"
    /\ running' = FALSE
    /\ IF running THEN Goto(t, "stopClose") ELSE AfterStop(t)
    /\ UNCHANGED <<config, handle, server, socket, listen, rxObj, hasCb,
                   healthy, fd, locals>>

CloseActiveSocket(t) ==
    /\ pc[t] = "stopClose"
    /\ KernelClose({socket}) /\ socket' = NoFd
    /\ Goto(t, "join")
    /\ UNCHANGED <<config, handle, server, listen, running, rxObj, hasCb,
                   healthy, sock, lsn, asServer>>

\* The thread is detached instead of joined.
BugDetach(t) ==
    /\ pc[t] = "join"
    /\ AfterStop(t) /\ rxObj' = NoRx
    /\ UNCHANGED <<config, handle, server, socket, listen, running, hasCb,
                   healthy, fd, locals>>

\* The thread is left behind, joinable, when it has not ended yet.
BugJoinSkipped(t) ==
    /\ pc[t] = "join"
    /\ AfterStop(t)
    /\ UNCHANGED <<transport, healthy, fd, locals>>

\* A thread that joins itself gets a std::system_error nobody catches.
Join(t) ==
    /\ pc[t] = "join"
    /\ \/ rxObj = NoRx /\ AfterStop(t) /\ UNCHANGED rxObj
       \/ rxObj = t /\ Goto(t, "terminated") /\ UNCHANGED rxObj
       \/ /\ rxObj \in Rx \ {t} /\ pc[rxObj] = "done"
          /\ rxObj' = NoRx
          /\ pc' = [pc EXCEPT ![rxObj] = "absent",
                       ![t] = IF op[t] = "toggle" THEN ReturnPoint(t) ELSE "reset"]
          /\ op' = [op EXCEPT ![t] = IF @ # "toggle" THEN @
                                     ELSE IF t \in App THEN "none" ELSE "loop"]
    /\ UNCHANGED <<config, handle, server, socket, listen, running, hasCb,
                   healthy, fd, locals>>

\* handle_.reset(): ~SocketHandle closes both descriptors.
ResetHandle(t) ==
    /\ pc[t] = "reset"
    /\ KernelClose({socket, listen})
    /\ handle' = FALSE /\ server' = FALSE /\ socket' = NoFd /\ listen' = NoFd
    /\ CASE op[t] = "configure" -> Goto(t, "open")
         [] op[t] = "destroy" -> Goto(t, "dtorJoin")
         [] OTHER -> Return(t)
    /\ UNCHANGED <<config, running, rxObj, hasCb, healthy, sock, lsn, asServer>>

\* The destructor joins a receive thread that close() did not join.
DestructorJoin(t) ==
    /\ pc[t] = "dtorJoin"
    /\ \/ rxObj = NoRx /\ Goto(t, "dead") /\ UNCHANGED rxObj
       \/ /\ rxObj # NoRx /\ pc[rxObj] = "done"
          /\ rxObj' = NoRx
          /\ pc' = [pc EXCEPT ![rxObj] = "absent", ![t] = "dead"]
          /\ UNCHANGED op
    /\ UNCHANGED <<config, handle, server, socket, listen, running, hasCb,
                   healthy, fd, locals>>

-----------------------------------------------------------------------------
(* send() and receive(): the direction check, then ensureConnected(). *)

CallSend(t) ==
    /\ t \in Senders /\ MayCall(t)
    /\ IF IsSendEnabled(config.direction)
         THEN Enter(t, "ensure", "send") /\ UNCHANGED healthy
         ELSE healthy' = FALSE /\ UNCHANGED <<pc, op>>
    /\ UNCHANGED <<transport, fd, locals>>

CallReceive(t) ==
    /\ t \in Receivers /\ MayCall(t)
    /\ IF IsReceiveEnabled(config.direction)
         THEN Enter(t, "ensure", "receive") /\ UNCHANGED healthy
         ELSE healthy' = FALSE /\ UNCHANGED <<pc, op>>
    /\ UNCHANGED <<transport, fd, locals>>

\* One turn of receiveLoop(): stop, or call receive().
ReceiveLoop(t) ==
    /\ pc[t] = "loop"
    /\ IF ~running THEN Goto(t, "done") /\ UNCHANGED healthy
       ELSE IF IsReceiveEnabled(config.direction)
              THEN Goto(t, "ensure") /\ UNCHANGED healthy
              ELSE healthy' = FALSE /\ UNCHANGED <<pc, op>>
    /\ UNCHANGED <<transport, fd, locals>>

\* receiveCallback_.notify(): the callback returns to the loop.
NotifyReturns(t) ==
    /\ pc[t] = "notify"
    /\ Goto(t, "loop")
    /\ UNCHANGED <<transport, healthy, fd, locals>>

\* reportError(), then return a failure.
FailWith(t) == healthy' = FALSE /\ Return(t)

\* A healthy connection is taken for a lost one once an error is pending.
BugReconnectWhenUnhealthy(t) ==
    /\ pc[t] = "ensure"
    /\ \/ ~handle /\ FailWith(t)
       \/ handle /\ healthy /\ socket # NoFd /\ Goto(t, "snapshot") /\ UNCHANGED healthy
       \/ handle /\ ~healthy /\ ~server /\ Goto(t, "reconnect") /\ UNCHANGED healthy
    /\ UNCHANGED <<transport, fd, locals>>

EnsureConnected(t) ==
    /\ pc[t] = "ensure"
    /\ \/ ~handle /\ FailWith(t) /\ UNCHANGED lsn
       \/ handle /\ socket # NoFd /\ Goto(t, "snapshot") /\ UNCHANGED <<healthy, lsn>>
       \/ /\ handle /\ socket = NoFd /\ ~server
          /\ Goto(t, "reconnect") /\ UNCHANGED <<healthy, lsn>>
       \/ /\ handle /\ socket = NoFd /\ server
          /\ IF listen = NoFd
               THEN FailWith(t) /\ UNCHANGED lsn
               ELSE lsn' = [lsn EXCEPT ![t] = listen] /\ Goto(t, "accept")
                    /\ UNCHANGED healthy
    /\ UNCHANGED <<transport, fd, sock, asServer, stale>>

\* The client's second half of ensureConnected, config_ read without mutex_.
CheckReconnect(t) ==
    /\ pc[t] = "reconnect"
    /\ IF config.autoReconnect THEN Goto(t, "connect") /\ UNCHANGED healthy
                               ELSE FailWith(t)
    /\ UNCHANGED <<transport, fd, locals>>

ConnectFails(t) ==
    /\ pc[t] = "connect"
    /\ FailWith(t)
    /\ UNCHANGED <<transport, fd, locals>>

ConnectSucceeds(t) ==
    /\ pc[t] = "connect"
    /\ \E f \in Fds :
         /\ fd[f] = "closed"
         /\ fd' = [fd EXCEPT ![f] = "connected"]
         /\ sock' = [sock EXCEPT ![t] = f]
    /\ Goto(t, "install")
    /\ UNCHANGED <<transport, healthy, lsn, asServer, stale>>

\* accept(): when the listening socket was closed meanwhile, a call already
\* blocked in the kernel may still return a client.
AcceptSucceeds(t) ==
    /\ pc[t] = "accept"
    /\ \E f \in Fds :
         /\ fd[f] = "closed"
         /\ fd' = [fd EXCEPT ![f] = "connected"]
         /\ sock' = [sock EXCEPT ![t] = f]
    /\ Goto(t, "installAccepted")
    /\ UNCHANGED <<transport, healthy, lsn, asServer, stale>>

\* No client within SO_RCVTIMEO (EAGAIN, EINTR), or a reported error.
AcceptFails(t) ==
    /\ pc[t] = "accept"
    /\ \/ Return(t) /\ UNCHANGED healthy
       \/ FailWith(t)
    /\ lsn' = [lsn EXCEPT ![t] = NoFd]
    /\ UNCHANGED <<transport, fd, sock, asServer, stale>>

\* The second critical section of ensureConnected: the transport may have
\* been closed or re-opened since the first one.
\* The role test of the client inverted.
BugMayInstallServerOnly(t) ==
    /\ handle
    /\ IF pc[t] = "install" THEN server ELSE listen = lsn[t]

MayInstall(t) ==
    /\ handle
    /\ IF pc[t] = "install" THEN ~server ELSE listen = lsn[t]

\* The refused descriptor is not closed.
BugInstallRefusedLeaks(t) ==
    /\ pc[t] \in {"install", "installAccepted"} /\ ~MayInstall(t)
    /\ ForgetLocals(t)
    /\ Return(t)
    /\ UNCHANGED <<transport, healthy, fd>>

InstallRefused(t) ==
    /\ pc[t] \in {"install", "installAccepted"} /\ ~MayInstall(t)
    /\ fd' = [fd EXCEPT ![sock[t]] = "closed"]
    /\ ForgetLocals(t)
    /\ Return(t)
    /\ UNCHANGED <<transport, healthy>>

Install(t) ==
    /\ pc[t] \in {"install", "installAccepted"} /\ MayInstall(t)
    /\ KernelClose({socket})
    /\ socket' = sock[t] /\ healthy' = TRUE
    /\ sock' = [sock EXCEPT ![t] = NoFd]
    /\ lsn' = [lsn EXCEPT ![t] = NoFd]
    /\ Goto(t, "snapshot")
    /\ UNCHANGED <<config, handle, server, listen, running, rxObj, hasCb, asServer>>

\* The descriptor and the role are read under mutex_ and used without it.
Snapshot(t) ==
    /\ pc[t] = "snapshot"
    /\ IF handle /\ socket # NoFd
         THEN /\ sock' = [sock EXCEPT ![t] = socket]
              /\ asServer' = [asServer EXCEPT ![t] = config.server]
              /\ Goto(t, "io") /\ UNCHANGED healthy
         ELSE FailWith(t) /\ UNCHANGED <<sock, asServer>>
    /\ UNCHANGED <<transport, fd, lsn, stale>>

-----------------------------------------------------------------------------
(* ::send and ::recv.  A descriptor closed meanwhile by another thread     *)
(* gives EBADF, whatever its new owner's socket gives, or, when the call   *)
(* was already blocked in the kernel, what the old socket gives.           *)

Transfers(t) == stale[t] \/ fd[sock[t]] \in {"connected", "broken"}
TimesOut(t) == stale[t] \/ fd[sock[t]] = "connected"
Breaks(t) == stale[t] \/ fd[sock[t]] # "connected"

IoTransfers(t) ==
    /\ pc[t] = "io" /\ Transfers(t)
    /\ healthy' = TRUE
    /\ ForgetLocals(t)
    /\ IF op[t] = "loop" THEN Goto(t, "notify") ELSE Return(t)
    /\ UNCHANGED <<transport, fd>>

\* EAGAIN (SO_RCVTIMEO, SO_SNDTIMEO or O_NONBLOCK) or EINTR.
IoTimesOut(t) ==
    /\ pc[t] = "io" /\ TimesOut(t)
    /\ ForgetLocals(t)
    /\ Return(t)
    /\ UNCHANGED <<transport, healthy, fd>>

\* The end of the stream handled without marking the transport unhealthy.
BugEndOfStreamHealthy(t) ==
    /\ pc[t] = "io" /\ Breaks(t)
    /\ Goto(t, "drop")
    /\ UNCHANGED <<transport, healthy, fd, locals>>

\* An error, or the end of the stream when receiving.
IoBreaks(t) ==
    /\ pc[t] = "io" /\ Breaks(t)
    /\ healthy' = FALSE
    /\ Goto(t, "drop")
    /\ UNCHANGED <<transport, fd, locals>>

\* The descriptor is closed and stays in the handle.
BugDropKeepsSocket(t) ==
    /\ pc[t] = "drop"
    /\ fd' = [f \in Fds |-> IF f = socket THEN "closed" ELSE fd[f]]
    /\ ForgetLocals(t)
    /\ Return(t)
    /\ UNCHANGED <<transport, healthy>>

\* dropClientConnection() or resetServerConnection(): the role comes from
\* the snapshot, the descriptor from the handle.
DropConnection(t) ==
    /\ pc[t] = "drop"
    /\ IF handle /\ server = asServer[t]
         THEN /\ fd' = [f \in Fds |-> IF f = socket THEN "closed" ELSE fd[f]]
              /\ stale' = [u \in Threads |-> u # t /\ (stale[u] \/
                                   (sock[u] = socket /\ socket # NoFd))]
              /\ socket' = NoFd
         ELSE stale' = [stale EXCEPT ![t] = FALSE] /\ UNCHANGED <<fd, socket>>
    /\ sock' = [sock EXCEPT ![t] = NoFd]
    /\ asServer' = [asServer EXCEPT ![t] = FALSE]
    /\ Return(t)
    /\ UNCHANGED <<config, handle, server, listen, running, rxObj, hasCb,
                   healthy, lsn>>

-----------------------------------------------------------------------------

\* The peer or the network breaks an established connection.
PeerBreaks ==
    /\ \E f \in Fds : fd[f] = "connected" /\ fd' = [fd EXCEPT ![f] = "broken"]
    /\ UNCHANGED <<transport, healthy, pc, op, locals>>

\* The object is gone; nothing more happens to it.
Destroyed ==
    /\ \E t \in App : pc[t] = "dead"
    /\ UNCHANGED vars

Call(t) ==
    \/ CallOpen(t) \/ CallClose(t) \/ CallDestroy(t) \/ CallConfigure(t)
    \/ CallSetReceiveCallback(t) \/ CallSend(t) \/ CallReceive(t)

Lifecycle(t) ==
    \/ OpenAlready(t) \/ OpenFails(t) \/ OpenSucceeds(t)
    \/ CheckLaunch(t) \/ StartCheck(t) \/ StartCas(t) \/ Spawn(t)
    \/ StopCas(t) \/ CloseActiveSocket(t) \/ Join(t)
    \/ ResetHandle(t) \/ DestructorJoin(t)

Data(t) ==
    \/ ReceiveLoop(t) \/ NotifyReturns(t) \/ EnsureConnected(t)
    \/ CheckReconnect(t) \/ ConnectFails(t) \/ ConnectSucceeds(t)
    \/ AcceptSucceeds(t) \/ AcceptFails(t)
    \/ InstallRefused(t) \/ Install(t) \/ Snapshot(t)
    \/ IoTransfers(t) \/ IoTimesOut(t) \/ IoBreaks(t) \/ DropConnection(t)

\* std::terminate ends the process.
Aborted == \E t \in Threads : pc[t] = "terminated"

Step(t) == ~Aborted /\ (Lifecycle(t) \/ Data(t))

Next ==
    \/ \E t \in Threads : (~Aborted /\ Call(t)) \/ Step(t)
    \/ PeerBreaks
    \/ Destroyed

Spec == Init /\ [][Next]_vars

\* Threads inside the library are scheduled, blocking calls return (the
\* default SO_RCVTIMEO and SO_SNDTIMEO are positive), the application's
\* callback returns, and a peer that is tried again and again answers.
Fairness ==
    \A t \in Threads : /\ WF_vars(Step(t))
                       /\ SF_vars(NotifyReturns(t))
                       /\ SF_vars(ConnectSucceeds(t))
FairSpec == Spec /\ Fairness

-----------------------------------------------------------------------------
(* Properties. *)

InFlight(t) == pc[t] \in {"install", "installAccepted"}
Held == {socket, listen} \cup {sock[t] : t \in {u \in Threads : InFlight(u)}}

\* Every open descriptor belongs to the handle or to exactly one thread that
\* is about to install or discard it: no path of open, reconnect, accept,
\* drop or close leaks a descriptor, however the calls interleave.
DescriptorsOwned ==
    /\ \A f \in Fds : fd[f] # "closed" => f \in Held
    /\ \A t \in Threads : InFlight(t) =>
         /\ sock[t] \notin {socket, listen}
         /\ \A u \in Threads \ {t} : InFlight(u) => sock[u] # sock[t]

\* The handle never keeps a descriptor that is closed or has become another
\* kind of socket, so no later close() can hit a descriptor the kernel
\* re-used; a closed transport keeps none.
HandleNeverDangles ==
    /\ socket # NoFd => handle /\ fd[socket] \in {"connected", "broken"}
    /\ listen # NoFd => handle /\ fd[listen] = "listening"

\* The inductive strengthening of the two: a thread about to install a
\* descriptor holds one that is a connection.
FlightsAreConnections ==
    \A t \in Threads : InFlight(t) =>
        sock[t] \in Fds /\ fd[sock[t]] \in {"connected", "broken"}
DescriptorsInv ==
    TypeOK /\ HandleNeverDangles /\ FlightsAreConnections /\ DescriptorsOwned

Controlling == {"setcb", "start", "startCas", "spawn", "stopCas", "stopClose", "join",
                "reset", "dtorJoin", "open"}
LiveReaders == {r \in Rx : pc[r] # "absent"}

\* A closed transport that nobody is opening or closing has no receive
\* thread left: close() and a failed re-open stop and join it.
ClosedIsQuiet ==
    (~handle /\ \A t \in Threads : pc[t] \notin Controlling)
        => ~running /\ rxObj = NoRx /\ LiveReaders = {}

\* At most one receive loop runs, and receiveThread_ owns it.
OneReceiveLoop == \A r \in LiveReaders : rxObj = r

\* A transport that was opened, is configured to read in the background and
\* has a callback does read, once the calls that arranged it are over.
OpenMeansReading ==
    (/\ handle /\ Spawns(config) /\ hasCb
     /\ \A t \in Threads : pc[t] \notin Controlling) => running

\* No call ends the process: receiveThread_ is never overwritten while
\* joinable, and no thread joins itself.
NoTerminate == ~Aborted

\* The inductive strengthening of the three for a transport that one
\* application thread o controls: where o is in its calls determines running_
\* and receiveThread_.
SingleOwner(o) == o \in App /\ Owners = {o}
LifecycleInv(o) ==
    /\ \A t \in Threads : pc[t] # "terminated" /\ (t # o => pc[t] \notin Controlling)
    /\ \A r \in Rx : pc[r] # "absent" => rxObj = r
    /\ rxObj # NoRx /\ ~running => pc[o] \in {"stopClose", "join"}
    /\ running /\ rxObj = NoRx => pc[o] = "spawn"
    /\ pc[o] = "spawn" => running /\ rxObj = NoRx
    /\ pc[o] \in {"stopClose", "join", "reset", "dtorJoin"} => ~running
    /\ running \/ rxObj # NoRx \/ pc[o] = "startCas" => handle

\* A client that has lost its connection and is not being closed says so:
\* isHealthy() stays false until the connection is re-established.
HealthSeesLinkLoss ==
    (/\ handle /\ ~server /\ socket = NoFd
     /\ \A t \in Threads : pc[t] \notin {"join", "reset"}) => ~healthy

\* The inductive strengthening of OpenMeansReading and HealthSeesLinkLoss for a
\* transport that o controls and only the receive thread and its callbacks use.
SingleUser(o) == SingleOwner(o) /\ Senders \subseteq Rx /\ Receivers \subseteq Rx
Using == {"loop", "notify", "ensure", "reconnect", "connect", "install", "accept",
          "installAccepted", "snapshot", "io", "drop"}
ReadingInv(o) ==
    /\ \A t \in Threads : pc[t] \in Using => t \in Rx
    /\ op[o] = "toggle" /\ pc[o] \in {"stopCas", "stopClose", "join"} => ~handle
    /\ handle /\ ~running =>
        server \/ socket # NoFd \/ pc[o] \in {"stopClose", "join", "reset"}
    /\ handle /\ Spawns(config) /\ hasCb =>
        \/ running
        \/ pc[o] \in {"setcb", "start", "startCas", "stopCas", "stopClose", "join", "reset"}
HealthInv(o) ==
    /\ \A r \in Rx : pc[r] = "drop" => ~healthy
    /\ handle /\ ~server /\ socket = NoFd =>
        \/ pc[o] \in {"join", "reset"}
        \/ ~healthy /\ \A r \in Rx : pc[r] # "io"

\* The inductive strengthening of the next two properties for such a transport:
\* only a closing owner takes a connection away from the receive thread, and
\* nobody installs one before that thread is gone.
Reconnecting == {"reconnect", "connect", "install", "accept", "installAccepted"}
ConnectionInv ==
    \A r \in Rx :
      /\ pc[r] \in Reconnecting => socket = NoFd
      /\ sock[r] # NoFd => pc[r] \in {"install", "installAccepted", "io", "drop"}
      /\ stale[r] => pc[r] \in {"io", "drop"} /\ socket = NoFd

\* After a failed send or recv, the connection dropped is the one that
\* failed, never one another thread has installed since.
DropOnlyFailed ==
    [][\A t \in Threads :
          pc[t] = "drop" /\ pc'[t] # "drop" /\ socket' # socket => ~stale[t]]_vars

\* Re-establishing a connection never closes one that is in place.
ReconnectReplacesNothing ==
    [][\A t \in Threads :
          InFlight(t) /\ pc'[t] = "snapshot" => socket = NoFd]_vars

\* close(), configure() and the destructor come to an end: the receive
\* thread notices the stop request and can be joined.
StopEnds ==
    \A t \in Owners : (pc[t] = "stopCas") ~> (pc[t] \in {"idle", "dead"})

\* A client whose receive thread runs gets its connection back.
ClientReconnects ==
    (/\ running /\ handle /\ ~server /\ socket = NoFd
     /\ config.autoReconnect /\ IsReceiveEnabled(config.direction))
        ~> (socket # NoFd \/ ~running)

\* What every transport promises about its lifecycle.
Contract == INSTANCE TransportContract WITH
    open <- handle,
    reader <- LiveReaders # {},
    link <- socket # NoFd
ImplementsContract == Contract!Spec
=============================================================================
