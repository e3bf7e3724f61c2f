----------------------------- MODULE TcpProofs -----------------------------
(***************************************************************************)
(* Theorems about Tcp, for every value of its constants.                   *)
(***************************************************************************)
EXTENDS Tcp, TLAPS

-----------------------------------------------------------------------------
(* Type correctness. *)

LEMMA InitType == Init => TypeOK
<1> SUFFICES ASSUME Init PROVE TypeOK
  OBVIOUS
<1>1. config \in Config
  BY ConfigsAssumption DEF Init
<1>2. /\ fd \in [Fds -> FdStates]
      /\ pc \in [Threads -> Labels] /\ op \in [Threads -> Ops]
  BY DEF Init, FdStates, Labels, Ops
<1> QED
  BY <1>1, <1>2 DEF Init, TypeOK

LEMMA CallType ==
  ASSUME TypeOK, NEW t \in Threads, Call(t)
  PROVE  TypeOK'
<1> USE DEF transport, locals, vars
<1>1. CASE CallOpen(t)
  BY <1>1 DEF TypeOK, CallOpen, Enter, Labels, Ops
<1>2. CASE CallClose(t)
  BY <1>2 DEF TypeOK, CallClose, Enter, Labels, Ops
<1>3. CASE CallDestroy(t)
  BY <1>3 DEF TypeOK, CallDestroy, Enter, Labels, Ops
<1>4. CASE CallConfigure(t)
  BY <1>4, ConfigsAssumption DEF TypeOK, CallConfigure, Enter, Labels, Ops
<1>5. CASE CallSetReceiveCallback(t)
  BY <1>5 DEF TypeOK, CallSetReceiveCallback, Enter, Labels, Ops
<1>6. CASE CallSend(t)
  BY <1>6 DEF TypeOK, CallSend, Enter, Labels, Ops
<1>7. CASE CallReceive(t)
  BY <1>7 DEF TypeOK, CallReceive, Enter, Labels, Ops
<1> QED
  BY <1>1, <1>2, <1>3, <1>4, <1>5, <1>6, <1>7 DEF Call

LEMMA LifecycleType ==
  ASSUME TypeOK, NEW t \in Threads, Lifecycle(t)
  PROVE  TypeOK'
<1> USE DEF transport, locals, TypeOK, Goto, Return, ReturnPoint, Labels, Ops, FdStates
<1>1. CASE OpenAlready(t)
  BY <1>1 DEF OpenAlready
<1>2. CASE OpenFails(t)
  BY <1>2 DEF OpenFails
<1>3. CASE OpenSucceeds(t)
  BY <1>3 DEF OpenSucceeds, Config
<1>4. CASE StartCheck(t)
  BY <1>4 DEF StartCheck
<1>5. CASE StartCas(t)
  BY <1>5 DEF StartCas
<1>6. CASE Spawn(t)
  BY <1>6 DEF Spawn, Threads
<1>7. CASE StopCas(t)
  BY <1>7 DEF StopCas, AfterStop
<1>8. CASE CloseActiveSocket(t)
  BY <1>8 DEF CloseActiveSocket, KernelClose
<1>9. CASE Join(t)
  BY <1>9 DEF Join, AfterStop, Threads
<1>10. CASE ResetHandle(t)
  BY <1>10 DEF ResetHandle, KernelClose
<1>11. CASE DestructorJoin(t)
  BY <1>11 DEF DestructorJoin, Threads
<1>12. CASE CheckLaunch(t)
  BY <1>12 DEF CheckLaunch
<1> QED
  BY <1>1, <1>2, <1>3, <1>4, <1>5, <1>6, <1>7, <1>8, <1>9, <1>10, <1>11, <1>12
  DEF Lifecycle

LEMMA DataType ==
  ASSUME TypeOK, NEW t \in Threads, Data(t)
  PROVE  TypeOK'
<1> USE DEF transport, locals, TypeOK, Goto, Return, ReturnPoint, FailWith,
            Labels, Ops, FdStates
<1>1. CASE ReceiveLoop(t)
  BY <1>1 DEF ReceiveLoop
<1>2. CASE NotifyReturns(t)
  BY <1>2 DEF NotifyReturns
<1>3. CASE EnsureConnected(t)
  BY <1>3 DEF EnsureConnected
<1>4. CASE CheckReconnect(t)
  BY <1>4 DEF CheckReconnect
<1>5. CASE ConnectFails(t)
  BY <1>5 DEF ConnectFails
<1>6. CASE ConnectSucceeds(t)
  BY <1>6 DEF ConnectSucceeds
<1>7. CASE AcceptSucceeds(t)
  BY <1>7 DEF AcceptSucceeds
<1>8. CASE AcceptFails(t)
  BY <1>8 DEF AcceptFails
<1>9. CASE InstallRefused(t)
  BY <1>9 DEF InstallRefused, ForgetLocals
<1>10. CASE Install(t)
  BY <1>10 DEF Install, KernelClose
<1>11. CASE Snapshot(t)
  <2>1. config.server \in BOOLEAN
    BY DEF Config
  <2>2. UNCHANGED <<transport, fd, lsn, stale>> /\ healthy' \in BOOLEAN
    BY <1>11 DEF Snapshot
  <2>3. /\ sock' \in [Threads -> Fds \cup {NoFd}]
        /\ asServer' \in [Threads -> BOOLEAN]
    BY <1>11, <2>1 DEF Snapshot
  <2>4. pc' \in [Threads -> Labels] /\ op' \in [Threads -> Ops]
    BY <1>11 DEF Snapshot
  <2> QED
    BY <2>2, <2>3, <2>4
<1>12. CASE IoTransfers(t)
  BY <1>12 DEF IoTransfers, ForgetLocals
<1>13. CASE IoTimesOut(t)
  BY <1>13 DEF IoTimesOut, ForgetLocals
<1>14. CASE IoBreaks(t)
  BY <1>14 DEF IoBreaks
<1>15. CASE DropConnection(t)
  <2>1. fd' \in [Fds -> FdStates] /\ socket' \in Fds \cup {NoFd}
    BY <1>15 DEF DropConnection
  <2>2. stale' \in [Threads -> BOOLEAN]
    BY <1>15, Zenon DEF DropConnection
  <2> QED
    BY <1>15, <2>1, <2>2 DEF DropConnection
<1> QED
  BY <1>1, <1>2, <1>3, <1>4, <1>5, <1>6, <1>7, <1>8, <1>9, <1>10, <1>11,
     <1>12, <1>13, <1>14, <1>15 DEF Data

LEMMA NextType == TypeOK /\ [Next]_vars => TypeOK'
<1> SUFFICES ASSUME TypeOK, [Next]_vars PROVE TypeOK'
  OBVIOUS
<1>1. ASSUME NEW t \in Threads, Call(t) PROVE TypeOK'
  BY <1>1, CallType
<1>2. ASSUME NEW t \in Threads, Step(t) PROVE TypeOK'
  BY <1>2, LifecycleType, DataType DEF Step
<1>3. CASE PeerBreaks
  BY <1>3 DEF PeerBreaks, TypeOK, transport, locals, FdStates
<1>4. CASE UNCHANGED vars
  BY <1>4 DEF TypeOK, vars, transport, locals
<1> QED
  BY <1>1, <1>2, <1>3, <1>4 DEF Next, Destroyed

\* Every variable keeps its type in every behaviour of the transport.
THEOREM TypeCorrect == Spec => []TypeOK
  BY InitType, NextType, PTL DEF Spec

-----------------------------------------------------------------------------
(* Descriptors. *)

\* The descriptor part of DescriptorsInv in the form the proofs use.
LEMMA DescriptorsUnfolded ==
  DescriptorsInv <=>
    /\ TypeOK /\ HandleNeverDangles /\ FlightsAreConnections
    /\ \A f \in Fds : fd[f] # "closed" =>
         f = socket \/ f = listen \/ \E t \in Threads : InFlight(t) /\ sock[t] = f
    /\ \A t \in Threads : InFlight(t) =>
         /\ sock[t] # socket /\ sock[t] # listen
         /\ \A u \in Threads : u # t /\ InFlight(u) => sock[u] # sock[t]
  BY DEF DescriptorsInv, DescriptorsOwned, Held

\* A step that leaves the handle, the kernel table and the descriptors in
\* flight alone cannot disturb the invariant.
LEMMA QuietStep ==
  ASSUME DescriptorsInv, TypeOK',
         UNCHANGED <<handle, socket, listen, fd>>,
         \A u \in Threads : InFlight(u)' <=> InFlight(u),
         \A u \in Threads : InFlight(u) => sock'[u] = sock[u]
  PROVE  DescriptorsInv'
  BY DEF DescriptorsInv, DescriptorsOwned, Held, HandleNeverDangles,
         FlightsAreConnections

LEMMA CallDescriptors ==
  ASSUME DescriptorsInv, NEW t \in Threads, Call(t)
  PROVE  DescriptorsInv'
<1>1. TypeOK'
  BY CallType DEF DescriptorsInv
<1>2. UNCHANGED <<handle, socket, listen, fd, sock>>
  BY DEF Call, CallOpen, CallClose, CallDestroy, CallConfigure,
         CallSetReceiveCallback, CallSend, CallReceive, transport, locals
<1>3. \A u \in Threads : InFlight(u)' <=> InFlight(u)
  BY DEF DescriptorsInv, TypeOK, Call, CallOpen, CallClose, CallDestroy,
         CallConfigure, CallSetReceiveCallback, CallSend, CallReceive, Enter,
         MayCall, CallPoint, InFlight
<1> QED
  BY <1>1, <1>2, <1>3, QuietStep

LEMMA LifecycleDescriptors ==
  ASSUME DescriptorsInv, NEW t \in Threads, Lifecycle(t)
  PROVE  DescriptorsInv'
<1>1. TypeOK /\ TypeOK'
  BY LifecycleType DEF DescriptorsInv
<1>2. CASE OpenSucceeds(t)
  <2>1. \A u \in Threads : InFlight(u)' <=> InFlight(u)
    BY <1>1, <1>2 DEF OpenSucceeds, Goto, Return, ReturnPoint, InFlight, TypeOK
  <2>2. socket = NoFd /\ listen = NoFd /\ sock' = sock
    BY <1>2 DEF OpenSucceeds, DescriptorsInv, HandleNeverDangles, locals
  <2>3. PICK f \in Fds :
          /\ fd[f] = "closed"
          /\ \/ fd' = [fd EXCEPT ![f] = "listening"] /\ listen' = f /\ socket' = NoFd
             \/ fd' = [fd EXCEPT ![f] = "connected"] /\ socket' = f /\ listen' = NoFd
    BY <1>2 DEF OpenSucceeds
  <2>4. \A u \in Threads : InFlight(u) => sock[u] \in Fds \ {f}
    BY <2>3 DEF DescriptorsInv, FlightsAreConnections
  <2>5. HandleNeverDangles'
    BY <1>1, <1>2, <2>3, FdsAssumption DEF HandleNeverDangles, OpenSucceeds, TypeOK
  <2>6. FlightsAreConnections'
    BY <1>1, <2>1, <2>2, <2>3, <2>4 DEF DescriptorsInv, FlightsAreConnections, TypeOK
  <2> QED
    BY <1>1, <2>1, <2>2, <2>3, <2>4, <2>5, <2>6, FdsAssumption
    DEF DescriptorsInv, DescriptorsOwned, Held, TypeOK
<1>3. ASSUME NEW S, KernelClose(S), sock' = sock,
             \A u \in Threads : InFlight(u)' <=> InFlight(u),
             \/ S = {socket} /\ socket' = NoFd /\ listen' = listen /\ handle' = handle
             \/ S = {socket, listen} /\ socket' = NoFd /\ listen' = NoFd
      PROVE  DescriptorsInv'
  <2>1. fd' = [f \in Fds |-> IF f \in S THEN "closed" ELSE fd[f]]
    BY <1>3 DEF KernelClose
  <2>2. \A u \in Threads : InFlight(u) => sock[u] \in Fds /\ sock[u] \notin S
    BY <1>3 DEF DescriptorsInv, FlightsAreConnections, DescriptorsOwned
  <2>3. listen \in Fds => listen # socket
    BY FdsAssumption DEF DescriptorsInv, HandleNeverDangles
  <2>4. HandleNeverDangles'
    BY <1>1, <1>3, <2>1, <2>3 DEF DescriptorsInv, HandleNeverDangles, TypeOK
  <2>5. FlightsAreConnections'
    BY <1>3, <2>1, <2>2 DEF DescriptorsInv, FlightsAreConnections
  <2> QED
    BY <1>1, <1>3, <2>1, <2>2, <2>4, <2>5, FdsAssumption
    DEF DescriptorsInv, DescriptorsOwned, Held, TypeOK
<1>4. CASE CloseActiveSocket(t)
  <2>1. \A u \in Threads : InFlight(u)' <=> InFlight(u)
    BY <1>1, <1>4 DEF CloseActiveSocket, Goto, InFlight, TypeOK
  <2> QED
    BY <1>3, <1>4, <2>1 DEF CloseActiveSocket
<1>5. CASE ResetHandle(t)
  <2>1. \A u \in Threads : InFlight(u)' <=> InFlight(u)
    BY <1>1, <1>5 DEF ResetHandle, Goto, Return, ReturnPoint, InFlight, TypeOK
  <2> QED
    BY <1>3, <1>5, <2>1 DEF ResetHandle
<1>6. CASE \/ OpenAlready(t) \/ OpenFails(t) \/ CheckLaunch(t) \/ StartCheck(t) \/ StartCas(t)
           \/ Spawn(t) \/ StopCas(t) \/ Join(t) \/ DestructorJoin(t)
  <2>1. UNCHANGED <<handle, socket, listen, fd, sock>>
    BY <1>6
    DEF OpenAlready, OpenFails, CheckLaunch, StartCheck, StartCas, Spawn, StopCas,
                Join, DestructorJoin, transport, locals
  <2>2. CASE \/ OpenAlready(t) \/ OpenFails(t) \/ CheckLaunch(t) \/ StartCheck(t) \/ StartCas(t)
             \/ StopCas(t)
    <3>1. \A u \in Threads : InFlight(u)' <=> InFlight(u)
      BY <1>1, <2>2
      DEF OpenAlready, OpenFails, CheckLaunch, StartCheck, StartCas, StopCas,
                        AfterStop, Goto, Return, ReturnPoint, InFlight, TypeOK
    <3> QED
      BY <1>1, <2>1, <3>1, QuietStep
  <2>3. CASE Spawn(t) \/ Join(t) \/ DestructorJoin(t)
    <3>1. \A u \in Threads : InFlight(u)' <=> InFlight(u)
      BY <1>1, <2>3 DEF Spawn, Join, DestructorJoin, AfterStop, Goto, Return,
                        ReturnPoint, InFlight, TypeOK, Threads
    <3> QED
      BY <1>1, <2>1, <3>1, QuietStep
  <2> QED
    BY <1>6, <2>2, <2>3
<1> QED
  BY <1>2, <1>4, <1>5, <1>6 DEF Lifecycle

LEMMA DataDescriptors ==
  ASSUME DescriptorsInv, NEW t \in Threads, Data(t)
  PROVE  DescriptorsInv'
<1>1. TypeOK /\ TypeOK'
  BY DataType DEF DescriptorsInv
<1>2. CASE ConnectSucceeds(t) \/ AcceptSucceeds(t)
  <2>1. PICK f \in Fds : /\ fd[f] = "closed"
                         /\ fd' = [fd EXCEPT ![f] = "connected"]
                         /\ sock' = [sock EXCEPT ![t] = f]
    BY <1>2 DEF ConnectSucceeds, AcceptSucceeds
  <2>2. UNCHANGED <<handle, socket, listen>> /\ ~InFlight(t)
    BY <1>2 DEF ConnectSucceeds, AcceptSucceeds, transport, InFlight
  <2>3. \A u \in Threads : InFlight(u)' <=> (InFlight(u) \/ u = t)
    BY <1>1, <1>2 DEF ConnectSucceeds, AcceptSucceeds, Goto, InFlight, TypeOK
  <2>4. \A u \in Threads : InFlight(u) => sock[u] \in Fds \ {f} /\ u # t
    BY <2>1, <2>2 DEF DescriptorsInv, FlightsAreConnections
  <2>5. f # socket /\ f # listen
    BY <2>1, FdsAssumption DEF DescriptorsInv, HandleNeverDangles
  <2>6. HandleNeverDangles'
    BY <1>1, <2>1, <2>2, <2>5 DEF DescriptorsInv, HandleNeverDangles, TypeOK
  <2>7. FlightsAreConnections'
    BY <1>1, <2>1, <2>3, <2>4 DEF DescriptorsInv, FlightsAreConnections, TypeOK
  <2> QED
    BY <1>1, <2>1, <2>2, <2>3, <2>4, <2>5, <2>6, <2>7
    DEF DescriptorsInv, DescriptorsOwned, Held, TypeOK
<1>3. CASE InstallRefused(t)
  <2>1. /\ InFlight(t) /\ UNCHANGED <<handle, socket, listen>>
        /\ fd' = [fd EXCEPT ![sock[t]] = "closed"]
        /\ sock' = [sock EXCEPT ![t] = NoFd]
    BY <1>3 DEF InstallRefused, InFlight, ForgetLocals, transport
  <2>2. \A u \in Threads : InFlight(u)' <=> (InFlight(u) /\ u # t)
    BY <1>1, <1>3 DEF InstallRefused, Return, ReturnPoint, InFlight, TypeOK
  <2>3. /\ sock[t] \in Fds /\ sock[t] # socket /\ sock[t] # listen
        /\ \A u \in Threads : u # t /\ InFlight(u) => sock[u] # sock[t]
    BY <2>1 DEF DescriptorsInv, FlightsAreConnections, DescriptorsOwned
  <2>4. HandleNeverDangles'
    BY <1>1, <2>1, <2>3 DEF DescriptorsInv, HandleNeverDangles, TypeOK
  <2>5. FlightsAreConnections'
    BY <1>1, <2>1, <2>2, <2>3 DEF DescriptorsInv, FlightsAreConnections, TypeOK
  <2> QED
    BY <1>1, <2>1, <2>2, <2>3, <2>4, <2>5
    DEF DescriptorsInv, DescriptorsOwned, Held, TypeOK
<1>4. CASE Install(t)
  <2>1. /\ InFlight(t) /\ handle /\ UNCHANGED <<handle, listen>>
        /\ fd' = [f \in Fds |-> IF f = socket THEN "closed" ELSE fd[f]]
        /\ socket' = sock[t]
        /\ sock' = [sock EXCEPT ![t] = NoFd]
    BY <1>4 DEF Install, MayInstall, InFlight, KernelClose
  <2>2. \A u \in Threads : InFlight(u)' <=> (InFlight(u) /\ u # t)
    BY <1>1, <1>4 DEF Install, Goto, InFlight, TypeOK
  <2>3. /\ sock[t] \in Fds /\ fd[sock[t]] \in {"connected", "broken"}
        /\ sock[t] # socket /\ sock[t] # listen
        /\ \A u \in Threads : u # t /\ InFlight(u) => sock[u] # sock[t]
    BY <2>1 DEF DescriptorsInv, FlightsAreConnections, DescriptorsOwned
  <2>4. listen \in Fds => listen # socket
    BY FdsAssumption DEF DescriptorsInv, HandleNeverDangles
  <2>5. HandleNeverDangles'
    BY <1>1, <2>1, <2>3, <2>4 DEF DescriptorsInv, HandleNeverDangles, TypeOK
  <2>6. \A u \in Threads : InFlight(u) => sock[u] \in Fds \ {socket}
    BY DEF DescriptorsInv, FlightsAreConnections, DescriptorsOwned
  <2>7. FlightsAreConnections'
    BY <1>1, <2>1, <2>2, <2>6 DEF DescriptorsInv, FlightsAreConnections, TypeOK
  <2>8. \A f \in Fds : fd'[f] # "closed" => f \in Held'
    BY <1>1, <2>1, <2>2 DEF DescriptorsInv, DescriptorsOwned, Held, TypeOK
  <2>9. ASSUME NEW u \in Threads, InFlight(u)'
        PROVE  /\ sock'[u] \notin {socket', listen'}
               /\ \A v \in Threads \ {u} : InFlight(v)' => sock'[v] # sock'[u]
    BY <1>1, <2>1, <2>2, <2>3, <2>9 DEF DescriptorsInv, DescriptorsOwned, TypeOK
  <2> QED
    BY <1>1, <2>5, <2>7, <2>8, <2>9 DEF DescriptorsInv, DescriptorsOwned
<1>5. CASE DropConnection(t)
  <2>1. \A u \in Threads : InFlight(u)' <=> InFlight(u)
    BY <1>1, <1>5 DEF DropConnection, Return, ReturnPoint, InFlight, TypeOK
  <2>2. ~InFlight(t) /\ sock' = [sock EXCEPT ![t] = NoFd]
        /\ UNCHANGED <<handle, listen>>
    BY <1>5 DEF DropConnection, InFlight
  <2>3. \A u \in Threads : InFlight(u) => sock'[u] = sock[u]
    BY <1>1, <2>2 DEF TypeOK
  <2>4. CASE UNCHANGED <<fd, socket>>
    BY <1>1, <2>1, <2>2, <2>3, <2>4, QuietStep
  <2>5. CASE /\ fd' = [f \in Fds |-> IF f = socket THEN "closed" ELSE fd[f]]
             /\ socket' = NoFd
    <3>1. \A u \in Threads : InFlight(u) => sock[u] \in Fds /\ sock[u] # socket
      BY DEF DescriptorsInv, FlightsAreConnections, DescriptorsOwned
    <3>2. listen \in Fds => listen # socket
      BY FdsAssumption DEF DescriptorsInv, HandleNeverDangles
    <3>3. HandleNeverDangles'
      BY <1>1, <2>2, <2>5, <3>2 DEF DescriptorsInv, HandleNeverDangles, TypeOK
    <3>4. FlightsAreConnections'
      BY <2>1, <2>3, <2>5, <3>1 DEF DescriptorsInv, FlightsAreConnections
    <3> QED
      BY <1>1, <2>1, <2>2, <2>3, <2>5, <3>1, <3>3, <3>4, FdsAssumption
      DEF DescriptorsInv, DescriptorsOwned, Held, TypeOK
  <2> QED
    BY <1>5, <2>4, <2>5 DEF DropConnection
<1>6. CASE \/ ReceiveLoop(t) \/ NotifyReturns(t) \/ EnsureConnected(t)
           \/ CheckReconnect(t) \/ ConnectFails(t) \/ AcceptFails(t)
           \/ Snapshot(t) \/ IoTransfers(t) \/ IoTimesOut(t) \/ IoBreaks(t)
  <2>1. UNCHANGED <<handle, socket, listen, fd>>
    BY <1>6 DEF ReceiveLoop, NotifyReturns, EnsureConnected, CheckReconnect,
                ConnectFails, AcceptFails, Snapshot, IoTransfers, IoTimesOut,
                IoBreaks, transport
  <2>2. ~InFlight(t)
    BY <1>6 DEF ReceiveLoop, NotifyReturns, EnsureConnected, CheckReconnect,
                ConnectFails, AcceptFails, Snapshot, IoTransfers, IoTimesOut,
                IoBreaks, InFlight
  <2>3. \A u \in Threads : u # t => sock'[u] = sock[u]
    BY <1>1, <1>6 DEF ReceiveLoop, NotifyReturns, EnsureConnected,
                CheckReconnect, ConnectFails, AcceptFails, Snapshot,
                IoTransfers, IoTimesOut, IoBreaks, ForgetLocals, locals, TypeOK
  <2>4. PICK l \in {"loop", "notify", "idle", "done", "ensure", "snapshot",
                    "reconnect", "accept", "connect", "io", "drop"} :
          pc' = pc \/ pc' = [pc EXCEPT ![t] = l]
    BY <1>6 DEF ReceiveLoop, NotifyReturns, EnsureConnected, CheckReconnect,
                ConnectFails, AcceptFails, Snapshot, IoTransfers, IoTimesOut,
                IoBreaks, Goto, Return, ReturnPoint, FailWith
  <2>5. \A u \in Threads : InFlight(u)' <=> InFlight(u)
    BY <1>1, <2>2, <2>4 DEF InFlight, TypeOK
  <2> QED
    BY <1>1, <2>1, <2>2, <2>3, <2>5, QuietStep
<1> QED
  BY <1>2, <1>3, <1>4, <1>5, <1>6 DEF Data

LEMMA PeerDescriptors == DescriptorsInv /\ PeerBreaks => DescriptorsInv'
<1> SUFFICES ASSUME DescriptorsInv, PeerBreaks PROVE DescriptorsInv'
  OBVIOUS
<1>1. TypeOK /\ TypeOK'
  BY NextType DEF DescriptorsInv, Next
<1>2. UNCHANGED <<handle, socket, listen, pc, sock>>
  BY DEF PeerBreaks, transport, locals
<1>3. PICK f \in Fds : fd[f] = "connected" /\ fd' = [fd EXCEPT ![f] = "broken"]
  BY DEF PeerBreaks
<1>4. \A u \in Threads : InFlight(u)' <=> InFlight(u)
  BY <1>2 DEF InFlight
<1>5. HandleNeverDangles' /\ FlightsAreConnections'
  BY <1>1, <1>2, <1>3, <1>4
  DEF DescriptorsInv, HandleNeverDangles, FlightsAreConnections, TypeOK
<1> QED
  BY <1>1, <1>2, <1>3, <1>4, <1>5 DEF DescriptorsInv, DescriptorsOwned, Held, TypeOK

LEMMA InitDescriptors == Init => DescriptorsInv
  BY InitType DEF Init, DescriptorsInv, HandleNeverDangles,
                  FlightsAreConnections, DescriptorsOwned, InFlight

LEMMA NextDescriptors == DescriptorsInv /\ [Next]_vars => DescriptorsInv'
<1> SUFFICES ASSUME DescriptorsInv, [Next]_vars PROVE DescriptorsInv'
  OBVIOUS
<1>1. CASE UNCHANGED vars
  BY <1>1 DEF vars, transport, locals, DescriptorsInv, TypeOK, DescriptorsOwned,
              Held, InFlight, HandleNeverDangles, FlightsAreConnections
<1>2. CASE Next
  BY <1>1, <1>2, CallDescriptors, LifecycleDescriptors, DataDescriptors,
     PeerDescriptors DEF Next, Step, Destroyed
<1> QED
  BY <1>1, <1>2

\* The kernel's open descriptors are exactly those the handle or a thread in
\* ensureConnected() holds, each held once, whatever threads open, close,
\* send, receive and reconnect at the same time: nothing leaks.
THEOREM NoDescriptorLeaks == Spec => []DescriptorsOwned
<1>1. DescriptorsInv => DescriptorsOwned
  BY DEF DescriptorsInv
<1> QED
  BY <1>1, InitDescriptors, NextDescriptors, PTL DEF Spec

\* The handle refers to live sockets of the right kind only, so close() and
\* reconnection never close a descriptor that has been handed out again.
THEOREM HandleStaysValid == Spec => []HandleNeverDangles
<1>1. DescriptorsInv => HandleNeverDangles
  BY DEF DescriptorsInv
<1> QED
  BY <1>1, InitDescriptors, NextDescriptors, PTL DEF Spec
-----------------------------------------------------------------------------
(* The lifecycle of a transport that one application thread controls. *)

\* A step of one thread that leaves running_, receiveThread_ and handle_
\* alone and neither leaves nor enters the places LifecycleInv speaks of.
LEMMA QuietLifecycle ==
  ASSUME NEW o, LifecycleInv(o), TypeOK, NEW t \in Threads, NEW l,
         UNCHANGED <<handle, running, rxObj>>,
         pc' = [pc EXCEPT ![t] = l],
         l \in Controlling => t = o,
         l \notin {"spawn", "stopClose", "join", "reset", "dtorJoin",
                  "startCas", "terminated", "absent"},
         pc[t] \notin {"spawn", "stopClose", "join", "absent"}
  PROVE  LifecycleInv(o)'
  BY DEF LifecycleInv, TypeOK, Threads

LEMMA CallLifecycle ==
  ASSUME NEW o, SingleOwner(o), LifecycleInv(o), TypeOK, NEW t \in Threads, Call(t)
  PROVE  LifecycleInv(o)'
<1>1. UNCHANGED <<handle, running, rxObj>>
  BY DEF Call, CallOpen, CallClose, CallDestroy, CallConfigure,
         CallSetReceiveCallback, CallSend, CallReceive, transport
<1>2. pc[t] \in {"idle", "notify"}
  BY DEF Call, CallOpen, CallClose, CallDestroy, CallConfigure, MayCall,
         CallPoint, CallSetReceiveCallback, CallSend, CallReceive
<1>3. CASE pc' = pc
  BY <1>1, <1>3 DEF LifecycleInv
<1>4. CASE pc' = [pc EXCEPT ![t] = "ensure"]
  BY <1>1, <1>2, <1>4, QuietLifecycle DEF Controlling
<1>5. CASE t = o /\ \E l \in {"open", "setcb", "start", "stopCas"} : pc' = [pc EXCEPT ![t] = l]
  BY <1>1, <1>2, <1>5, QuietLifecycle
<1> QED
  BY <1>3, <1>4, <1>5 DEF SingleOwner, Call, CallOpen, CallClose, CallDestroy,
     CallConfigure, CallSetReceiveCallback, CallSend, CallReceive, Enter

LEMMA DataLifecycle ==
  ASSUME NEW o, LifecycleInv(o), TypeOK, NEW t \in Threads, Data(t)
  PROVE  LifecycleInv(o)'
<1> USE DEF ReceiveLoop, NotifyReturns, EnsureConnected, CheckReconnect,
            ConnectFails, ConnectSucceeds, AcceptSucceeds, AcceptFails,
            InstallRefused, Install, Snapshot, IoTransfers, IoTimesOut,
            IoBreaks, DropConnection
<1>1. UNCHANGED <<handle, running, rxObj>>
  BY DEF Data, transport
<1>2. pc[t] \notin Controlling \cup {"absent"}
  BY DEF Data, Controlling
<1>3. PICK l \in {"loop", "notify", "idle", "done", "ensure", "snapshot",
                  "reconnect", "accept", "connect", "install",
                  "installAccepted", "io", "drop"} :
        pc' = pc \/ pc' = [pc EXCEPT ![t] = l]
  BY DEF Data, Goto, Return, ReturnPoint, FailWith
<1>4. CASE pc' = pc
  BY <1>1, <1>4 DEF LifecycleInv
<1>5. CASE pc' = [pc EXCEPT ![t] = l]
  BY <1>1, <1>2, <1>5, QuietLifecycle DEF Controlling
<1> QED
  BY <1>3, <1>4, <1>5

LEMMA ControlLifecycle ==
  ASSUME NEW o, SingleOwner(o), LifecycleInv(o), TypeOK,
         NEW t \in Threads, Lifecycle(t)
  PROVE  LifecycleInv(o)'
<1>1. t = o /\ o \in App /\ o \in Threads /\ o \notin Rx /\ NoRx # o
  <2>1. pc[t] \in Controlling
    BY DEF Lifecycle, OpenAlready, OpenFails, OpenSucceeds, CheckLaunch, StartCheck,
           StartCas, Spawn, StopCas, CloseActiveSocket, Join, ResetHandle,
           DestructorJoin, Controlling
  <2> QED
    BY <2>1, ThreadsAssumption DEF LifecycleInv, SingleOwner, Threads
<1>2. NoRx \notin Rx
  BY ThreadsAssumption DEF Threads
<1>3. CASE OpenAlready(t) \/ OpenFails(t)
  <2>1. UNCHANGED <<handle, running, rxObj>> /\ pc[t] = "open"
        /\ pc' = [pc EXCEPT ![t] = "idle"]
    BY <1>1, <1>3 DEF OpenAlready, OpenFails, Return, ReturnPoint, transport
  <2> QED
    BY <1>1, <2>1, QuietLifecycle DEF Controlling
<1>4. CASE OpenSucceeds(t)
  <2>1. UNCHANGED <<running, rxObj>> /\ handle' = TRUE /\ pc[o] = "open"
    BY <1>1, <1>4 DEF OpenSucceeds
  <2>2. pc' = [pc EXCEPT ![o] = "start"] \/ pc' = [pc EXCEPT ![o] = "idle"]
    BY <1>1, <1>4 DEF OpenSucceeds, Goto, Return, ReturnPoint
  <2> QED
    BY <1>1, <2>1, <2>2 DEF LifecycleInv, TypeOK, Threads, Controlling
<1>5. CASE StartCheck(t)
  <2>1. UNCHANGED <<handle, running, rxObj>> /\ pc[o] = "start"
    BY <1>1, <1>5 DEF StartCheck, transport
  <2>2. \/ pc' = [pc EXCEPT ![o] = "startCas"] /\ handle
        \/ pc' = [pc EXCEPT ![o] = "idle"]
    BY <1>1, <1>5 DEF StartCheck, ShouldSpawnReceiveThread, Goto, Return, ReturnPoint
  <2> QED
    BY <1>1, <2>1, <2>2 DEF LifecycleInv, TypeOK, Threads, Controlling
<1>14. CASE CheckLaunch(t)
  <2>1. UNCHANGED <<handle, running, rxObj>> /\ pc[o] = "setcb"
    BY <1>1, <1>14 DEF CheckLaunch, transport
  <2>2. pc' = [pc EXCEPT ![o] = "start"] \/ pc' = [pc EXCEPT ![o] = "idle"]
    BY <1>1, <1>14 DEF CheckLaunch, Goto, Return, ReturnPoint
  <2> QED
    BY <1>1, <2>1, <2>2 DEF LifecycleInv, TypeOK, Threads, Controlling
<1>6. CASE StartCas(t)
  <2>1. UNCHANGED <<handle, rxObj>> /\ pc[o] = "startCas" /\ running' = TRUE
    BY <1>1, <1>6 DEF StartCas
  <2>2. \/ running /\ pc' = [pc EXCEPT ![o] = "idle"]
        \/ ~running /\ pc' = [pc EXCEPT ![o] = "spawn"]
    BY <1>1, <1>6 DEF StartCas, Goto, Return, ReturnPoint
  <2> QED
    BY <1>1, <2>1, <2>2 DEF LifecycleInv, TypeOK, Threads, Controlling
<1>7. CASE Spawn(t)
  <2>1. UNCHANGED <<handle, running>> /\ pc[o] = "spawn" /\ rxObj = NoRx
    BY <1>1, <1>7 DEF Spawn, LifecycleInv
  <2>2. PICK r \in Rx : /\ pc[r] = "absent" /\ rxObj' = r
                        /\ pc' = [pc EXCEPT ![o] = "idle", ![r] = "loop"]
    BY <1>1, <1>7, <2>1 DEF Spawn, ReturnPoint
  <2> QED
    BY <1>1, <1>2, <2>1, <2>2 DEF LifecycleInv, TypeOK, Threads, Controlling
<1>8. CASE StopCas(t)
  <2>1. UNCHANGED <<handle, rxObj>> /\ pc[o] = "stopCas" /\ running' = FALSE
    BY <1>1, <1>8 DEF StopCas
  <2>2. \/ running /\ pc' = [pc EXCEPT ![o] = "stopClose"]
        \/ ~running /\ pc' = [pc EXCEPT ![o] = "idle"]
        \/ ~running /\ pc' = [pc EXCEPT ![o] = "reset"]
    BY <1>1, <1>8 DEF StopCas, AfterStop, Goto, Return, ReturnPoint
  <2> QED
    BY <1>1, <2>1, <2>2 DEF LifecycleInv, TypeOK, Threads, Controlling
<1>9. CASE CloseActiveSocket(t)
  <2>1. UNCHANGED <<handle, running, rxObj>> /\ pc[o] = "stopClose"
        /\ pc' = [pc EXCEPT ![o] = "join"]
    BY <1>1, <1>9 DEF CloseActiveSocket, Goto
  <2> QED
    BY <1>1, <2>1 DEF LifecycleInv, TypeOK, Threads, Controlling
<1>10. CASE Join(t)
  <2>1. UNCHANGED <<handle, running>> /\ pc[o] = "join"
    BY <1>1, <1>10 DEF Join
  <2>2. CASE /\ rxObj = NoRx /\ rxObj' = NoRx
             /\ pc' = [pc EXCEPT ![o] = "idle"] \/ pc' = [pc EXCEPT ![o] = "reset"]
    BY <1>1, <2>1, <2>2 DEF LifecycleInv, TypeOK, Threads, Controlling
  <2>3. CASE /\ rxObj \in Rx /\ rxObj' = NoRx
             /\ \/ pc' = [pc EXCEPT ![rxObj] = "absent", ![o] = "idle"]
                \/ pc' = [pc EXCEPT ![rxObj] = "absent", ![o] = "reset"]
    BY <1>1, <1>2, <2>1, <2>3 DEF LifecycleInv, TypeOK, Threads, Controlling
  <2> QED
    BY <1>1, <1>10, <2>2, <2>3 DEF Join, AfterStop, Goto, Return, ReturnPoint, TypeOK
<1>11. CASE ResetHandle(t)
  <2>1. UNCHANGED <<running, rxObj>> /\ pc[o] = "reset"
    BY <1>1, <1>11 DEF ResetHandle
  <2>2. \/ pc' = [pc EXCEPT ![o] = "open"]
        \/ pc' = [pc EXCEPT ![o] = "dtorJoin"]
        \/ pc' = [pc EXCEPT ![o] = "idle"]
    BY <1>1, <1>11 DEF ResetHandle, Goto, Return, ReturnPoint
  <2> QED
    BY <1>1, <2>1, <2>2 DEF LifecycleInv, TypeOK, Threads, Controlling
<1>12. CASE DestructorJoin(t)
  <2>1. UNCHANGED <<handle, running, rxObj>> /\ pc[o] = "dtorJoin"
        /\ rxObj = NoRx /\ pc' = [pc EXCEPT ![o] = "dead"]
    BY <1>1, <1>12 DEF DestructorJoin, Goto, LifecycleInv
  <2> QED
    BY <1>1, <2>1 DEF LifecycleInv, TypeOK, Threads, Controlling
<1> QED
  BY <1>3, <1>4, <1>5, <1>6, <1>7, <1>8, <1>9, <1>10, <1>11, <1>12, <1>14 DEF Lifecycle

LEMMA InitLifecycle == ASSUME NEW o \in App, Init PROVE LifecycleInv(o)
  BY ThreadsAssumption DEF Init, LifecycleInv, Threads, Controlling

LEMMA NextLifecycle ==
  ASSUME NEW o, SingleOwner(o), TypeOK, LifecycleInv(o), [Next]_vars
  PROVE  LifecycleInv(o)'
<1>1. CASE UNCHANGED vars
  BY <1>1 DEF vars, transport, LifecycleInv
<1>2. CASE PeerBreaks
  BY <1>2 DEF PeerBreaks, transport, LifecycleInv
<1> QED
  BY <1>1, <1>2, CallLifecycle, DataLifecycle, ControlLifecycle
  DEF Next, Step, Destroyed

LEMMA LifecycleAlways ==
  ASSUME NEW o, SingleOwner(o)
  PROVE  Spec => [](TypeOK /\ LifecycleInv(o))
<1>1. Init => LifecycleInv(o)
  BY InitLifecycle DEF SingleOwner
<1>2. TypeOK /\ LifecycleInv(o) /\ [Next]_vars => LifecycleInv(o)'
  BY NextLifecycle
<1> QED
  BY <1>1, <1>2, InitType, NextType, PTL DEF Spec

\* With one controlling thread, no call terminates the process.
THEOREM SingleOwnerNeverTerminates ==
  ASSUME NEW o, SingleOwner(o)
  PROVE  Spec => []NoTerminate
<1>1. LifecycleInv(o) => NoTerminate
  BY DEF LifecycleInv, NoTerminate, Aborted
<1> QED
  BY <1>1, LifecycleAlways, PTL

\* With one controlling thread, receiveThread_ owns the only receive loop.
THEOREM SingleOwnerOneReceiveLoop ==
  ASSUME NEW o, SingleOwner(o)
  PROVE  Spec => []OneReceiveLoop
<1>1. LifecycleInv(o) => OneReceiveLoop
  BY DEF LifecycleInv, OneReceiveLoop, LiveReaders
<1> QED
  BY <1>1, LifecycleAlways, PTL

\* With one controlling thread, a closed transport has no receive thread.
THEOREM SingleOwnerClosedIsQuiet ==
  ASSUME NEW o, SingleOwner(o)
  PROVE  Spec => []ClosedIsQuiet
<1>1. TypeOK /\ LifecycleInv(o) => ClosedIsQuiet
  BY ThreadsAssumption
  DEF TypeOK, LifecycleInv, ClosedIsQuiet, LiveReaders, Threads
<1> QED
  BY <1>1, LifecycleAlways, PTL
-----------------------------------------------------------------------------
(* The transport implements the contract of ICommunication. *)

\* Calls and data transfer, apart from the installation and the loss of a
\* connection, are invisible to the contract.
LEMMA DataImplements ==
  ASSUME DescriptorsInv, NEW o, LifecycleInv(o), NEW t \in Threads, Data(t)
  PROVE  [Contract!Next]_Contract!vars
<1>1. TypeOK
  BY DEF DescriptorsInv
<1>2. handle' = handle
  BY DEF Data, ReceiveLoop, NotifyReturns, EnsureConnected, CheckReconnect,
         ConnectFails, ConnectSucceeds, AcceptSucceeds, AcceptFails,
         InstallRefused, Install, Snapshot, IoTransfers, IoTimesOut,
         IoBreaks, DropConnection, transport
<1>3. LiveReaders' = LiveReaders
  <2>1. pc[t] # "absent"
    BY DEF Data, ReceiveLoop, NotifyReturns, EnsureConnected, CheckReconnect,
         ConnectFails, ConnectSucceeds, AcceptSucceeds, AcceptFails,
         InstallRefused, Install, Snapshot, IoTransfers, IoTimesOut,
         IoBreaks, DropConnection
  <2>2. PICK l \in Labels \ {"absent"} : pc' = pc \/ pc' = [pc EXCEPT ![t] = l]
    BY DEF Data, ReceiveLoop, NotifyReturns, EnsureConnected, CheckReconnect,
         ConnectFails, ConnectSucceeds, AcceptSucceeds, AcceptFails,
         InstallRefused, Install, Snapshot, IoTransfers, IoTimesOut,
         IoBreaks, DropConnection, Goto, Return, ReturnPoint, FailWith, Labels
  <2> QED
    BY <1>1, <2>1, <2>2 DEF LiveReaders, TypeOK, Threads
<1>4. \/ socket' = socket
      \/ handle /\ socket' \in Fds
      \/ socket # NoFd /\ socket' = NoFd
  BY <1>1 DEF Data, ReceiveLoop, NotifyReturns, EnsureConnected, CheckReconnect,
         ConnectFails, ConnectSucceeds, AcceptSucceeds, AcceptFails,
         InstallRefused, Install, MayInstall, InFlight, Snapshot, IoTransfers,
         IoTimesOut, IoBreaks, DropConnection, transport, DescriptorsInv,
         FlightsAreConnections
<1> QED
  BY <1>2, <1>3, <1>4, FdsAssumption
  DEF Contract!Next, Contract!vars, Contract!LinkUp, Contract!LinkDown

LEMMA CallImplements ==
  ASSUME DescriptorsInv, NEW t \in Threads, Call(t)
  PROVE  UNCHANGED Contract!vars
<1>1. UNCHANGED <<handle, socket>>
  BY DEF Call, CallOpen, CallClose, CallDestroy, CallConfigure,
         CallSetReceiveCallback, CallSend, CallReceive, transport
<1>2. LiveReaders' = LiveReaders
  <2>1. pc[t] \in {"idle", "notify"}
    BY DEF Call, CallOpen, CallClose, CallDestroy, CallConfigure, MayCall,
           CallPoint, CallSetReceiveCallback, CallSend, CallReceive
  <2>2. PICK l \in {"open", "setcb", "start", "stopCas", "ensure"} :
          pc' = pc \/ pc' = [pc EXCEPT ![t] = l]
    BY DEF Call, CallOpen, CallClose, CallDestroy, CallConfigure,
           CallSetReceiveCallback, CallSend, CallReceive, Enter
  <2> QED
    BY <2>1, <2>2 DEF LiveReaders, DescriptorsInv, TypeOK, Threads
<1> QED
  BY <1>1, <1>2 DEF Contract!vars

LEMMA ControlImplements ==
  ASSUME NEW o, SingleOwner(o), DescriptorsInv, LifecycleInv(o),
         NEW t \in Threads, Lifecycle(t)
  PROVE  [Contract!Next]_Contract!vars
<1>1. TypeOK /\ t = o /\ o \in App /\ o \in Threads /\ o \notin Rx /\ NoRx \notin Rx
  <2>1. pc[t] \in Controlling
    BY DEF Lifecycle, OpenAlready, OpenFails, OpenSucceeds, CheckLaunch, StartCheck,
           StartCas, Spawn, StopCas, CloseActiveSocket, Join, ResetHandle,
           DestructorJoin, Controlling
  <2> QED
    BY <2>1, ThreadsAssumption DEF LifecycleInv, SingleOwner, Threads, DescriptorsInv
<1>2. rxObj = NoRx => LiveReaders = {}
  BY <1>1 DEF LifecycleInv, LiveReaders
<1>3. CASE OpenSucceeds(t)
  <2>1. LiveReaders = {} /\ LiveReaders' = LiveReaders
    <3>1. rxObj = NoRx
      BY <1>3 DEF OpenSucceeds, LifecycleInv
    <3>2. pc' = [pc EXCEPT ![o] = "start"] \/ pc' = [pc EXCEPT ![o] = "idle"]
      BY <1>1, <1>3 DEF OpenSucceeds, Goto, Return, ReturnPoint
    <3> QED
      BY <1>1, <1>2, <3>1, <3>2 DEF LiveReaders, TypeOK, Threads
  <2>2. ~handle /\ handle' = TRUE
    BY <1>3 DEF OpenSucceeds
  <2> QED
    BY <2>1, <2>2 DEF Contract!Next, Contract!Open
<1>4. CASE Spawn(t)
  <2>1. /\ handle /\ UNCHANGED <<handle, socket>> /\ pc[o] = "spawn"
        /\ rxObj = NoRx
    BY <1>1, <1>4 DEF Spawn, LifecycleInv
  <2>2. PICK r \in Rx : pc' = [pc EXCEPT ![o] = "idle", ![r] = "loop"]
    BY <1>1, <1>4, <2>1 DEF Spawn, ReturnPoint
  <2>3. LiveReaders = {} /\ r \in LiveReaders'
    BY <1>1, <1>2, <2>1, <2>2 DEF LiveReaders, TypeOK, Threads
  <2> QED
    BY <2>1, <2>3 DEF Contract!Next, Contract!StartReader
<1>5. CASE Join(t)
  <2>1. UNCHANGED <<handle, socket>> /\ pc[o] = "join"
    BY <1>1, <1>5 DEF Join
  <2>2. CASE rxObj = NoRx
    <3>1. pc' = [pc EXCEPT ![o] = "idle"] \/ pc' = [pc EXCEPT ![o] = "reset"]
      BY <1>1, <1>5, <2>2, ThreadsAssumption
      DEF Join, AfterStop, Goto, Return, ReturnPoint
    <3>2. LiveReaders' = LiveReaders
      BY <1>1, <3>1 DEF LiveReaders, TypeOK, Threads
    <3> QED
      BY <2>1, <3>2 DEF Contract!vars
  <2>3. CASE rxObj \in Rx
    <3>1. \/ pc' = [pc EXCEPT ![rxObj] = "absent", ![o] = "idle"]
          \/ pc' = [pc EXCEPT ![rxObj] = "absent", ![o] = "reset"]
      BY <1>1, <1>5, <2>3 DEF Join, ReturnPoint
    <3>2. pc[rxObj] = "done"
      BY <1>1, <1>5, <2>3 DEF Join
    <3>3. rxObj \in LiveReaders /\ LiveReaders' = {}
      BY <1>1, <2>3, <3>1, <3>2 DEF LiveReaders, LifecycleInv, TypeOK, Threads
    <3> QED
      BY <2>1, <3>3 DEF Contract!Next, Contract!StopReader
  <2> QED
    BY <1>1, <2>2, <2>3 DEF TypeOK
<1>6. ASSUME NEW l \in Labels \ {"absent"}, pc' = [pc EXCEPT ![o] = l]
      PROVE  LiveReaders' = LiveReaders
  BY <1>1, <1>6 DEF LiveReaders, TypeOK, Threads
<1>7. CASE CloseActiveSocket(t)
  <2>1. handle' = handle /\ socket' = NoFd /\ pc' = [pc EXCEPT ![o] = "join"]
    BY <1>1, <1>7 DEF CloseActiveSocket, Goto
  <2>2. LiveReaders' = LiveReaders
    BY <1>6, <2>1 DEF Labels
  <2> QED
    BY <2>1, <2>2 DEF Contract!Next, Contract!vars, Contract!LinkDown
<1>8. CASE ResetHandle(t)
  <2>1. handle' = FALSE /\ socket' = NoFd /\ pc[o] = "reset"
    BY <1>1, <1>8 DEF ResetHandle
  <2>2. LiveReaders = {}
    BY <1>2, <2>1 DEF LifecycleInv
  <2>3. LiveReaders' = LiveReaders
    <3>1. \/ pc' = [pc EXCEPT ![o] = "open"]
          \/ pc' = [pc EXCEPT ![o] = "dtorJoin"]
          \/ pc' = [pc EXCEPT ![o] = "idle"]
      BY <1>1, <1>8 DEF ResetHandle, Goto, Return, ReturnPoint
    <3> QED
      BY <1>6, <3>1 DEF Labels
  <2>4. ~handle => socket = NoFd
    BY DEF DescriptorsInv, HandleNeverDangles
  <2> QED
    BY <1>1, <2>1, <2>2, <2>3, <2>4
    DEF Contract!Next, Contract!vars, Contract!Close, TypeOK
<1>9. CASE OpenAlready(t) \/ OpenFails(t) \/ CheckLaunch(t) \/ StartCheck(t) \/ StartCas(t) \/ StopCas(t)
  <2>1. UNCHANGED <<handle, socket>>
    BY <1>9
    DEF OpenAlready, OpenFails, CheckLaunch, StartCheck, StartCas, StopCas, transport
  <2>2. PICK l \in Labels \ {"absent"} : pc' = [pc EXCEPT ![o] = l]
    BY <1>1, <1>9
    DEF OpenAlready, OpenFails, CheckLaunch, StartCheck, StartCas, StopCas,
       AfterStop, Goto, Return, ReturnPoint, Labels
  <2> QED
    BY <1>6, <2>1, <2>2 DEF Contract!vars
<1>10. CASE DestructorJoin(t)
  <2>1. UNCHANGED <<handle, socket>> /\ pc' = [pc EXCEPT ![o] = "dead"]
    BY <1>1, <1>10 DEF DestructorJoin, Goto, LifecycleInv
  <2> QED
    BY <1>6, <2>1 DEF Contract!vars, Labels
<1> QED
  BY <1>3, <1>4, <1>5, <1>7, <1>8, <1>9, <1>10 DEF Lifecycle

LEMMA NextImplements ==
  ASSUME NEW o, SingleOwner(o), DescriptorsInv, LifecycleInv(o), [Next]_vars
  PROVE  [Contract!Next]_Contract!vars
<1>1. CASE UNCHANGED vars \/ PeerBreaks \/ Destroyed
  BY <1>1 DEF vars, transport, PeerBreaks, Destroyed, Contract!vars, LiveReaders
<1> QED
  BY <1>1, CallImplements, DataImplements, ControlImplements DEF Next, Step

LEMMA InitImplements == Init => Contract!Init
  BY ThreadsAssumption DEF Init, Contract!Init, LiveReaders, Threads

\* With one controlling thread, the TCP transport implements the contract:
\* resources are released only when the receive thread is gone, and a
\* connection exists only while the transport is open.
THEOREM TcpImplementsContract ==
  ASSUME NEW o, SingleOwner(o)
  PROVE  Spec => ImplementsContract
<1>1. DescriptorsInv /\ LifecycleInv(o) /\ [Next]_vars
        => [Contract!Next]_Contract!vars
  BY NextImplements
<1> QED
  BY <1>1, InitImplements, InitDescriptors, NextDescriptors, LifecycleAlways, PTL
  DEF Spec, ImplementsContract, Contract!Spec

-----------------------------------------------------------------------------
(* Whether the transport reads in the background, and what isHealthy() says. *)

LEMMA CallReading ==
  ASSUME NEW o, SingleUser(o), DescriptorsInv, LifecycleInv(o), ReadingInv(o),
         NEW t \in Threads, Call(t)
  PROVE  ReadingInv(o)'
<1>1. /\ TypeOK /\ NoRx \notin Threads /\ NoFd \notin Fds
      /\ Owners = {o} /\ Senders \subseteq Rx /\ Receivers \subseteq Rx
      /\ o \in App /\ o \in Threads /\ o \notin Rx
  BY ThreadsAssumption, FdsAssumption
  DEF SingleUser, SingleOwner, Threads, DescriptorsInv
<1> USE DEF LifecycleInv, TypeOK, Threads, Controlling, transport, Using,
     ReadingInv, Spawns
<1>2. CASE CallOpen(t)
  BY <1>1, <1>2 DEF CallOpen, MayCall, CallPoint, Enter
<1>3. CASE CallClose(t)
  BY <1>1, <1>3 DEF CallClose, MayCall, CallPoint, Enter
<1>4. CASE CallDestroy(t)
  BY <1>1, <1>4 DEF CallDestroy, MayCall, CallPoint, Enter
<1>5. CASE CallConfigure(t)
  BY <1>1, <1>5 DEF CallConfigure, MayCall, CallPoint, Enter
<1>6. CASE CallSetReceiveCallback(t)
  BY <1>1, <1>6 DEF CallSetReceiveCallback, MayCall, CallPoint, Enter
<1>7. CASE CallSend(t)
  BY <1>1, <1>7 DEF CallSend, MayCall, CallPoint, Enter
<1>8. CASE CallReceive(t)
  BY <1>1, <1>8 DEF CallReceive, MayCall, CallPoint, Enter
<1> QED
  BY <1>2, <1>3, <1>4, <1>5, <1>6, <1>7, <1>8 DEF Call

LEMMA LifecycleReading ==
  ASSUME NEW o, SingleUser(o), DescriptorsInv, LifecycleInv(o), ReadingInv(o),
         NEW t \in Threads, Lifecycle(t)
  PROVE  ReadingInv(o)'
<1>1. /\ TypeOK /\ NoRx \notin Threads /\ NoFd \notin Fds
      /\ Owners = {o} /\ Senders \subseteq Rx /\ Receivers \subseteq Rx
      /\ o \in App /\ o \in Threads /\ o \notin Rx
  BY ThreadsAssumption, FdsAssumption
  DEF SingleUser, SingleOwner, Threads, DescriptorsInv
<1> USE DEF LifecycleInv, TypeOK, Threads, Controlling, transport, Using,
     ReadingInv, Spawns
<1>2. CASE OpenAlready(t)
  BY <1>1, <1>2 DEF OpenAlready, Goto, Return, ReturnPoint
<1>3. CASE OpenFails(t)
  BY <1>1, <1>3 DEF OpenFails, Goto, Return, ReturnPoint
<1>4. CASE OpenSucceeds(t)
  BY <1>1, <1>4 DEF OpenSucceeds, Goto, Return, ReturnPoint
<1>5. CASE CheckLaunch(t)
  BY <1>1, <1>5 DEF CheckLaunch, Goto, Return, ReturnPoint
<1>6. CASE StartCheck(t)
  BY <1>1, <1>6 DEF StartCheck, Goto, Return, ReturnPoint, ShouldSpawnReceiveThread
<1>7. CASE StartCas(t)
  BY <1>1, <1>7 DEF StartCas, Goto, Return, ReturnPoint
<1>8. CASE Spawn(t)
  BY <1>1, <1>8 DEF Spawn, Goto, Return, ReturnPoint
<1>9. CASE StopCas(t)
  BY <1>1, <1>9 DEF StopCas, Goto, Return, ReturnPoint, AfterStop
<1>10. CASE CloseActiveSocket(t)
  BY <1>1, <1>10 DEF CloseActiveSocket, Goto, Return, ReturnPoint, KernelClose
<1>11. CASE Join(t)
  BY <1>1, <1>11 DEF Join, Goto, Return, ReturnPoint, AfterStop
<1>12. CASE ResetHandle(t)
  BY <1>1, <1>12 DEF ResetHandle, Goto, Return, ReturnPoint, KernelClose
<1>13. CASE DestructorJoin(t)
  BY <1>1, <1>13 DEF DestructorJoin, Goto, Return, ReturnPoint
<1> QED
  BY <1>2, <1>3, <1>4, <1>5, <1>6, <1>7, <1>8, <1>9, <1>10, <1>11, <1>12, <1>13 DEF
     Lifecycle

LEMMA DataReading ==
  ASSUME NEW o, SingleUser(o), DescriptorsInv, LifecycleInv(o), ReadingInv(o),
         NEW t \in Threads, Data(t)
  PROVE  ReadingInv(o)'
<1>1. /\ TypeOK /\ NoRx \notin Threads /\ NoFd \notin Fds
      /\ Owners = {o} /\ Senders \subseteq Rx /\ Receivers \subseteq Rx
      /\ o \in App /\ o \in Threads /\ o \notin Rx
  BY ThreadsAssumption, FdsAssumption
  DEF SingleUser, SingleOwner, Threads, DescriptorsInv
<1> USE DEF LifecycleInv, TypeOK, Threads, Controlling, transport, Using,
     ReadingInv, Spawns
<1>2. CASE ReceiveLoop(t)
  BY <1>1, <1>2 DEF ReceiveLoop, Goto, Return, ReturnPoint
<1>3. CASE NotifyReturns(t)
  BY <1>1, <1>3 DEF NotifyReturns, Goto, Return, ReturnPoint
<1>4. CASE EnsureConnected(t)
  BY <1>1, <1>4 DEF EnsureConnected, Goto, Return, ReturnPoint, FailWith
<1>5. CASE CheckReconnect(t)
  BY <1>1, <1>5 DEF CheckReconnect, Goto, Return, ReturnPoint, FailWith
<1>6. CASE ConnectFails(t)
  BY <1>1, <1>6 DEF ConnectFails, Goto, Return, ReturnPoint, FailWith
<1>7. CASE ConnectSucceeds(t)
  BY <1>1, <1>7 DEF ConnectSucceeds, Goto, Return, ReturnPoint
<1>8. CASE AcceptSucceeds(t)
  BY <1>1, <1>8 DEF AcceptSucceeds, Goto, Return, ReturnPoint
<1>9. CASE AcceptFails(t)
  BY <1>1, <1>9 DEF AcceptFails, Goto, Return, ReturnPoint, FailWith
<1>10. CASE InstallRefused(t)
  BY <1>1, <1>10 DEF InstallRefused, Goto, Return, ReturnPoint
<1>11. CASE Install(t)
  BY <1>1, <1>11 DEF Install, Goto, Return, ReturnPoint, MayInstall, InFlight,
     DescriptorsInv, FlightsAreConnections
<1>12. CASE Snapshot(t)
  BY <1>1, <1>12 DEF Snapshot, Goto, Return, ReturnPoint, FailWith
<1>13. CASE IoTransfers(t)
  BY <1>1, <1>13 DEF IoTransfers, Goto, Return, ReturnPoint
<1>14. CASE IoTimesOut(t)
  BY <1>1, <1>14 DEF IoTimesOut, Goto, Return, ReturnPoint
<1>15. CASE IoBreaks(t)
  BY <1>1, <1>15 DEF IoBreaks, Goto, Return, ReturnPoint
<1>16. CASE DropConnection(t)
  BY <1>1, <1>16 DEF DropConnection, Goto, Return, ReturnPoint
<1> QED
  BY <1>2, <1>3, <1>4, <1>5, <1>6, <1>7, <1>8, <1>9, <1>10, <1>11, <1>12, <1>13,
     <1>14, <1>15, <1>16 DEF Data

LEMMA CallHealth ==
  ASSUME NEW o, SingleUser(o), DescriptorsInv, LifecycleInv(o), ReadingInv(o), HealthInv(o),
         NEW t \in Threads, Call(t)
  PROVE  HealthInv(o)'
<1>1. /\ TypeOK /\ NoRx \notin Threads /\ NoFd \notin Fds
      /\ Owners = {o} /\ Senders \subseteq Rx /\ Receivers \subseteq Rx
      /\ o \in App /\ o \in Threads /\ o \notin Rx
  BY ThreadsAssumption, FdsAssumption
  DEF SingleUser, SingleOwner, Threads, DescriptorsInv
<1> USE DEF LifecycleInv, TypeOK, Threads, Controlling, transport, locals, Using,
     ReadingInv, HealthInv
<1>2. CASE CallOpen(t)
  BY <1>1, <1>2 DEF CallOpen, MayCall, CallPoint, Enter
<1>3. CASE CallClose(t)
  BY <1>1, <1>3 DEF CallClose, MayCall, CallPoint, Enter
<1>4. CASE CallDestroy(t)
  BY <1>1, <1>4 DEF CallDestroy, MayCall, CallPoint, Enter
<1>5. CASE CallConfigure(t)
  BY <1>1, <1>5 DEF CallConfigure, MayCall, CallPoint, Enter
<1>6. CASE CallSetReceiveCallback(t)
  BY <1>1, <1>6 DEF CallSetReceiveCallback, MayCall, CallPoint, Enter
<1>7. CASE CallSend(t)
  BY <1>1, <1>7 DEF CallSend, MayCall, CallPoint, Enter
<1>8. CASE CallReceive(t)
  BY <1>1, <1>8 DEF CallReceive, MayCall, CallPoint, Enter
<1> QED
  BY <1>2, <1>3, <1>4, <1>5, <1>6, <1>7, <1>8 DEF Call

LEMMA LifecycleHealth ==
  ASSUME NEW o, SingleUser(o), DescriptorsInv, LifecycleInv(o), ReadingInv(o), HealthInv(o),
         NEW t \in Threads, Lifecycle(t)
  PROVE  HealthInv(o)'
<1>1. /\ TypeOK /\ NoRx \notin Threads /\ NoFd \notin Fds
      /\ Owners = {o} /\ Senders \subseteq Rx /\ Receivers \subseteq Rx
      /\ o \in App /\ o \in Threads /\ o \notin Rx
  BY ThreadsAssumption, FdsAssumption
  DEF SingleUser, SingleOwner, Threads, DescriptorsInv
<1> USE DEF LifecycleInv, TypeOK, Threads, Controlling, transport, locals, Using,
     ReadingInv, HealthInv
<1>2. CASE OpenAlready(t)
  BY <1>1, <1>2 DEF OpenAlready, Goto, Return, ReturnPoint
<1>3. CASE OpenFails(t)
  BY <1>1, <1>3 DEF OpenFails, Goto, Return, ReturnPoint
<1>4. CASE OpenSucceeds(t)
  BY <1>1, <1>4 DEF OpenSucceeds, Goto, Return, ReturnPoint
<1>5. CASE CheckLaunch(t)
  BY <1>1, <1>5 DEF CheckLaunch, Goto, Return, ReturnPoint
<1>6. CASE StartCheck(t)
  BY <1>1, <1>6 DEF StartCheck, Goto, Return, ReturnPoint, ShouldSpawnReceiveThread
<1>7. CASE StartCas(t)
  BY <1>1, <1>7 DEF StartCas, Goto, Return, ReturnPoint
<1>8. CASE Spawn(t)
  BY <1>1, <1>8 DEF Spawn, Goto, Return, ReturnPoint
<1>9. CASE StopCas(t)
  BY <1>1, <1>9 DEF StopCas, Goto, Return, ReturnPoint, AfterStop
<1>10. CASE CloseActiveSocket(t)
  BY <1>1, <1>10 DEF CloseActiveSocket, Goto, Return, ReturnPoint, KernelClose
<1>11. CASE Join(t)
  BY <1>1, <1>11 DEF Join, Goto, Return, ReturnPoint, AfterStop
<1>12. CASE ResetHandle(t)
  BY <1>1, <1>12 DEF ResetHandle, Goto, Return, ReturnPoint, KernelClose
<1>13. CASE DestructorJoin(t)
  BY <1>1, <1>13 DEF DestructorJoin, Goto, Return, ReturnPoint
<1> QED
  BY <1>2, <1>3, <1>4, <1>5, <1>6, <1>7, <1>8, <1>9, <1>10, <1>11, <1>12, <1>13 DEF
     Lifecycle

LEMMA DataHealth ==
  ASSUME NEW o, SingleUser(o), DescriptorsInv, LifecycleInv(o), ReadingInv(o), HealthInv(o),
         NEW t \in Threads, Data(t)
  PROVE  HealthInv(o)'
<1>1. /\ TypeOK /\ NoRx \notin Threads /\ NoFd \notin Fds
      /\ Owners = {o} /\ Senders \subseteq Rx /\ Receivers \subseteq Rx
      /\ o \in App /\ o \in Threads /\ o \notin Rx
  BY ThreadsAssumption, FdsAssumption
  DEF SingleUser, SingleOwner, Threads, DescriptorsInv
<1> USE DEF LifecycleInv, TypeOK, Threads, Controlling, transport, locals, Using,
     ReadingInv, HealthInv
<1>2. CASE ReceiveLoop(t)
  BY <1>1, <1>2 DEF ReceiveLoop, Goto, Return, ReturnPoint
<1>3. CASE NotifyReturns(t)
  BY <1>1, <1>3 DEF NotifyReturns, Goto, Return, ReturnPoint
<1>4. CASE EnsureConnected(t)
  BY <1>1, <1>4 DEF EnsureConnected, Goto, Return, ReturnPoint, FailWith
<1>5. CASE CheckReconnect(t)
  BY <1>1, <1>5 DEF CheckReconnect, Goto, Return, ReturnPoint, FailWith
<1>6. CASE ConnectFails(t)
  BY <1>1, <1>6 DEF ConnectFails, Goto, Return, ReturnPoint, FailWith
<1>7. CASE ConnectSucceeds(t)
  BY <1>1, <1>7 DEF ConnectSucceeds, Goto, Return, ReturnPoint
<1>8. CASE AcceptSucceeds(t)
  BY <1>1, <1>8 DEF AcceptSucceeds, Goto, Return, ReturnPoint
<1>9. CASE AcceptFails(t)
  BY <1>1, <1>9 DEF AcceptFails, Goto, Return, ReturnPoint, FailWith
<1>10. CASE InstallRefused(t)
  BY <1>1, <1>10 DEF InstallRefused, Goto, Return, ReturnPoint
<1>11. CASE Install(t)
  BY <1>1, <1>11 DEF Install, Goto, Return, ReturnPoint, MayInstall, InFlight,
     DescriptorsInv, FlightsAreConnections
<1>12. CASE Snapshot(t)
  BY <1>1, <1>12 DEF Snapshot, Goto, Return, ReturnPoint, FailWith
<1>13. CASE IoTransfers(t)
  BY <1>1, <1>13 DEF IoTransfers, Goto, Return, ReturnPoint
<1>14. CASE IoTimesOut(t)
  BY <1>1, <1>14 DEF IoTimesOut, Goto, Return, ReturnPoint
<1>15. CASE IoBreaks(t)
  BY <1>1, <1>15 DEF IoBreaks, Goto, Return, ReturnPoint
<1>16. CASE DropConnection(t)
  BY <1>1, <1>16 DEF DropConnection, Goto, Return, ReturnPoint
<1> QED
  BY <1>2, <1>3, <1>4, <1>5, <1>6, <1>7, <1>8, <1>9, <1>10, <1>11, <1>12, <1>13,
     <1>14, <1>15, <1>16 DEF Data

LEMMA UseAlways ==
  ASSUME NEW o, SingleUser(o)
  PROVE  Spec => [](LifecycleInv(o) /\ ReadingInv(o) /\ HealthInv(o))
<1>1. SingleOwner(o) /\ o \in Threads /\ o \notin Rx
  BY ThreadsAssumption DEF SingleUser, SingleOwner, Threads
<1>2. Init => ReadingInv(o) /\ HealthInv(o)
  BY <1>1 DEF Init, ReadingInv, HealthInv, Using, Threads
<1>3. DescriptorsInv /\ LifecycleInv(o) /\ ReadingInv(o) /\ HealthInv(o) /\ [Next]_vars
        => ReadingInv(o)' /\ HealthInv(o)'
  <2> SUFFICES ASSUME DescriptorsInv, LifecycleInv(o), ReadingInv(o), HealthInv(o),
                      [Next]_vars
               PROVE  ReadingInv(o)' /\ HealthInv(o)'
    OBVIOUS
  <2>1. CASE UNCHANGED vars \/ PeerBreaks
    BY <2>1 DEF vars, PeerBreaks, transport, ReadingInv, HealthInv, Spawns
  <2> QED
    BY <2>1, CallReading, LifecycleReading, DataReading, CallHealth, LifecycleHealth,
       DataHealth
    DEF Next, Step, Destroyed
<1> QED
  BY <1>1, <1>2, <1>3, LifecycleAlways, InitDescriptors, NextDescriptors, PTL DEF Spec

\* A transport that one thread controls and only the receive thread and its
\* callbacks use reads in the background when it is configured to.
THEOREM SingleUserReads ==
  ASSUME NEW o, SingleUser(o)
  PROVE  Spec => []OpenMeansReading
<1>1. ReadingInv(o) => OpenMeansReading
  BY DEF ReadingInv, OpenMeansReading, Controlling, SingleUser, SingleOwner, Threads
<1> QED
  BY <1>1, UseAlways, PTL

\* A client of that kind that has lost its connection is unhealthy until it has
\* a new one.
THEOREM SingleUserSeesLinkLoss ==
  ASSUME NEW o, SingleUser(o)
  PROVE  Spec => []HealthSeesLinkLoss
<1>1. HealthInv(o) => HealthSeesLinkLoss
  BY DEF HealthInv, HealthSeesLinkLoss, SingleUser, SingleOwner, Threads
<1> QED
  BY <1>1, UseAlways, PTL

-----------------------------------------------------------------------------
(* The connection that the receive thread uses is taken away by nobody but *)
(* a closing owner, and replaced by nobody.                                *)

LEMMA CallConnection ==
  ASSUME NEW o, SingleUser(o), DescriptorsInv, LifecycleInv(o), ReadingInv(o),
         ConnectionInv, NEW t \in Threads, Call(t)
  PROVE  ConnectionInv'
<1>1. /\ TypeOK /\ NoRx \notin Threads /\ NoFd \notin Fds
      /\ Owners = {o} /\ Senders \subseteq Rx /\ Receivers \subseteq Rx
      /\ o \in App /\ o \in Threads /\ o \notin Rx
  BY ThreadsAssumption, FdsAssumption
  DEF SingleUser, SingleOwner, Threads, DescriptorsInv
<1> USE DEF LifecycleInv, TypeOK, Threads, Controlling, transport, locals, Using,
     ReadingInv, ConnectionInv, Reconnecting
<1>2. CASE CallOpen(t)
  BY <1>1, <1>2 DEF CallOpen, MayCall, CallPoint, Enter
<1>3. CASE CallClose(t)
  BY <1>1, <1>3 DEF CallClose, MayCall, CallPoint, Enter
<1>4. CASE CallDestroy(t)
  BY <1>1, <1>4 DEF CallDestroy, MayCall, CallPoint, Enter
<1>5. CASE CallConfigure(t)
  BY <1>1, <1>5 DEF CallConfigure, MayCall, CallPoint, Enter
<1>6. CASE CallSetReceiveCallback(t)
  BY <1>1, <1>6 DEF CallSetReceiveCallback, MayCall, CallPoint, Enter
<1>7. CASE CallSend(t)
  BY <1>1, <1>7 DEF CallSend, MayCall, CallPoint, Enter
<1>8. CASE CallReceive(t)
  BY <1>1, <1>8 DEF CallReceive, MayCall, CallPoint, Enter
<1> QED
  BY <1>2, <1>3, <1>4, <1>5, <1>6, <1>7, <1>8 DEF Call

LEMMA LifecycleConnection ==
  ASSUME NEW o, SingleUser(o), DescriptorsInv, LifecycleInv(o), ReadingInv(o),
         ConnectionInv, NEW t \in Threads, Lifecycle(t)
  PROVE  ConnectionInv'
<1>1. /\ TypeOK /\ NoRx \notin Threads /\ NoFd \notin Fds
      /\ Owners = {o} /\ Senders \subseteq Rx /\ Receivers \subseteq Rx
      /\ o \in App /\ o \in Threads /\ o \notin Rx
  BY ThreadsAssumption, FdsAssumption
  DEF SingleUser, SingleOwner, Threads, DescriptorsInv
<1> USE DEF LifecycleInv, TypeOK, Threads, Controlling, transport, locals, Using,
     ReadingInv, ConnectionInv, Reconnecting
<1>2. CASE OpenAlready(t)
  BY <1>1, <1>2 DEF OpenAlready, Goto, Return, ReturnPoint
<1>3. CASE OpenFails(t)
  BY <1>1, <1>3 DEF OpenFails, Goto, Return, ReturnPoint
<1>4. CASE OpenSucceeds(t)
  BY <1>1, <1>4 DEF OpenSucceeds, Goto, Return, ReturnPoint
<1>5. CASE CheckLaunch(t)
  BY <1>1, <1>5 DEF CheckLaunch, Goto, Return, ReturnPoint
<1>6. CASE StartCheck(t)
  BY <1>1, <1>6 DEF StartCheck, Goto, Return, ReturnPoint
<1>7. CASE StartCas(t)
  BY <1>1, <1>7 DEF StartCas, Goto, Return, ReturnPoint
<1>8. CASE Spawn(t)
  BY <1>1, <1>8 DEF Spawn, Goto, Return, ReturnPoint
<1>9. CASE StopCas(t)
  BY <1>1, <1>9 DEF StopCas, Goto, Return, ReturnPoint, AfterStop
<1>10. CASE CloseActiveSocket(t)
  BY <1>1, <1>10 DEF CloseActiveSocket, Goto, Return, ReturnPoint, KernelClose,
     DescriptorsInv, DescriptorsOwned, InFlight
<1>11. CASE Join(t)
  BY <1>1, <1>11 DEF Join, Goto, Return, ReturnPoint, AfterStop
<1>12. CASE ResetHandle(t)
  BY <1>1, <1>12 DEF ResetHandle, Goto, Return, ReturnPoint, KernelClose
<1>13. CASE DestructorJoin(t)
  BY <1>1, <1>13 DEF DestructorJoin, Goto, Return, ReturnPoint
<1> QED
  BY <1>2, <1>3, <1>4, <1>5, <1>6, <1>7, <1>8, <1>9, <1>10, <1>11, <1>12, <1>13 DEF Lifecycle

LEMMA DataConnection ==
  ASSUME NEW o, SingleUser(o), DescriptorsInv, LifecycleInv(o), ReadingInv(o),
         ConnectionInv, NEW t \in Threads, Data(t)
  PROVE  ConnectionInv'
<1>1. /\ TypeOK /\ NoRx \notin Threads /\ NoFd \notin Fds
      /\ Owners = {o} /\ Senders \subseteq Rx /\ Receivers \subseteq Rx
      /\ o \in App /\ o \in Threads /\ o \notin Rx
  BY ThreadsAssumption, FdsAssumption
  DEF SingleUser, SingleOwner, Threads, DescriptorsInv
<1> USE DEF LifecycleInv, TypeOK, Threads, Controlling, transport, locals, Using,
     ReadingInv, ConnectionInv, Reconnecting
<1>2. CASE ReceiveLoop(t)
  BY <1>1, <1>2 DEF ReceiveLoop, Goto, Return, ReturnPoint
<1>3. CASE NotifyReturns(t)
  BY <1>1, <1>3 DEF NotifyReturns, Goto, Return, ReturnPoint
<1>4. CASE EnsureConnected(t)
  BY <1>1, <1>4 DEF EnsureConnected, Goto, Return, ReturnPoint, FailWith
<1>5. CASE CheckReconnect(t)
  BY <1>1, <1>5 DEF CheckReconnect, Goto, Return, ReturnPoint, FailWith
<1>6. CASE ConnectFails(t)
  BY <1>1, <1>6 DEF ConnectFails, Goto, Return, ReturnPoint, FailWith
<1>7. CASE ConnectSucceeds(t)
  BY <1>1, <1>7 DEF ConnectSucceeds, Goto, Return, ReturnPoint
<1>8. CASE AcceptSucceeds(t)
  BY <1>1, <1>8 DEF AcceptSucceeds, Goto, Return, ReturnPoint
<1>9. CASE AcceptFails(t)
  BY <1>1, <1>9 DEF AcceptFails, Goto, Return, ReturnPoint, FailWith
<1>10. CASE InstallRefused(t)
  BY <1>1, <1>10 DEF InstallRefused, Goto, Return, ReturnPoint, ForgetLocals
<1>11. CASE Install(t)
  BY <1>1, <1>11 DEF Install, Goto, Return, ReturnPoint, KernelClose
<1>12. CASE Snapshot(t)
  BY <1>1, <1>12 DEF Snapshot, Goto, Return, ReturnPoint, FailWith
<1>13. CASE IoTransfers(t)
  BY <1>1, <1>13 DEF IoTransfers, Goto, Return, ReturnPoint, ForgetLocals
<1>14. CASE IoTimesOut(t)
  BY <1>1, <1>14 DEF IoTimesOut, Goto, Return, ReturnPoint, ForgetLocals
<1>15. CASE IoBreaks(t)
  BY <1>1, <1>15 DEF IoBreaks, Goto, Return, ReturnPoint
<1>16. CASE DropConnection(t)
  BY <1>1, <1>16 DEF DropConnection, Goto, Return, ReturnPoint
<1> QED
  BY <1>2, <1>3, <1>4, <1>5, <1>6, <1>7, <1>8, <1>9, <1>10, <1>11, <1>12, <1>13, <1>14, <1>15, <1>16 DEF Data

LEMMA ConnectionAlways ==
  ASSUME NEW o, SingleUser(o)
  PROVE  Spec => [](ReadingInv(o) /\ ConnectionInv)
<1>1. Init => ConnectionInv
  BY ThreadsAssumption DEF Init, ConnectionInv, Reconnecting, Threads
<1>2. DescriptorsInv /\ LifecycleInv(o) /\ ReadingInv(o) /\ ConnectionInv /\ [Next]_vars
        => ConnectionInv'
  <2> SUFFICES ASSUME DescriptorsInv, LifecycleInv(o), ReadingInv(o), ConnectionInv,
                      [Next]_vars
               PROVE  ConnectionInv'
    OBVIOUS
  <2>1. CASE UNCHANGED vars \/ PeerBreaks
    BY <2>1 DEF vars, PeerBreaks, transport, locals, ConnectionInv
  <2> QED
    BY <2>1, CallConnection, LifecycleConnection, DataConnection
    DEF Next, Step, Destroyed
<1> QED
  BY <1>1, <1>2, UseAlways, InitDescriptors, NextDescriptors, PTL DEF Spec

\* Only the receive thread puts a connection in place, and it does so when
\* there is none: in a transport of that kind ensureConnected() never closes
\* a live connection to make room for its own.
THEOREM SingleUserReplacesNothing ==
  ASSUME NEW o, SingleUser(o)
  PROVE  Spec => ReconnectReplacesNothing
<1>1. ReadingInv(o) /\ ConnectionInv /\ [Next]_vars =>
        [\A t \in Threads : InFlight(t) /\ pc'[t] = "snapshot" => socket = NoFd]_vars
  BY DEF ReadingInv, ConnectionInv, InFlight, Using, Reconnecting
<1> QED
  BY <1>1, ConnectionAlways, PTL DEF Spec, ReconnectReplacesNothing

\* The connection that dropClientConnection() or resetServerConnection() closes
\* after a failed transfer is the one that failed, although they look it up in
\* the handle again: a connection closed meanwhile has no successor yet.
THEOREM SingleUserDropsOnlyFailed ==
  ASSUME NEW o, SingleUser(o)
  PROVE  Spec => DropOnlyFailed
<1>1. ASSUME TypeOK, ReadingInv(o), ConnectionInv, [Next]_vars,
             NEW t \in Threads, pc[t] = "drop", pc'[t] # "drop", socket' # socket
      PROVE  ~stale[t]
  <2>1. t \in Rx /\ TypeOK
    BY <1>1 DEF ReadingInv, Using
  <2>2. ~stale[t] \/ socket = NoFd
    BY <1>1, <2>1 DEF ConnectionInv
  <2>3. SUFFICES ASSUME socket = NoFd PROVE FALSE
    BY <2>2
  <2>4. PICK u \in Threads : OpenSucceeds(u) \/ Install(u)
    <3>1. ASSUME NEW u \in Threads, Call(u) PROVE socket' = socket
      BY <3>1 DEF Call, CallOpen, CallClose, CallDestroy, CallConfigure,
         CallSetReceiveCallback, CallSend, CallReceive, transport
    <3>2. ASSUME NEW u \in Threads, Lifecycle(u), ~OpenSucceeds(u) PROVE socket' = socket
      BY <2>3, <3>2 DEF Lifecycle, OpenAlready, OpenFails, CheckLaunch, StartCheck,
         StartCas, Spawn, StopCas, CloseActiveSocket, Join, ResetHandle,
         DestructorJoin, transport
    <3>3. ASSUME NEW u \in Threads, Data(u), ~Install(u) PROVE socket' = socket
      BY <2>3, <3>3 DEF Data, ReceiveLoop, NotifyReturns, EnsureConnected,
         CheckReconnect, ConnectFails, ConnectSucceeds, AcceptSucceeds, AcceptFails,
         InstallRefused, Snapshot, IoTransfers, IoTimesOut, IoBreaks, DropConnection,
         transport
    <3> QED
      BY <1>1, <3>1, <3>2, <3>3
      DEF Next, Step, PeerBreaks, Destroyed, vars, transport
  <2>5. pc[u] # "drop" /\ \E l \in Labels : pc' = [pc EXCEPT ![u] = l]
    BY <2>4 DEF OpenSucceeds, Install, Goto, Return, ReturnPoint, Labels
  <2> QED
    BY <1>1, <2>1, <2>5 DEF TypeOK
<1>2. TypeOK /\ ReadingInv(o) /\ ConnectionInv /\ [Next]_vars =>
        [\A t \in Threads :
           pc[t] = "drop" /\ pc'[t] # "drop" /\ socket' # socket => ~stale[t]]_vars
  BY <1>1
<1> QED
  BY <1>2, ConnectionAlways, TypeCorrect, PTL DEF Spec, DropOnlyFailed
=============================================================================
