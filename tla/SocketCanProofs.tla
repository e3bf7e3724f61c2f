-------------------------- MODULE SocketCanProofs --------------------------
(***************************************************************************)
(* Theorems about SocketCan, for every value of its constants.             *)
(***************************************************************************)
EXTENDS SocketCan, TLAPS

-----------------------------------------------------------------------------
(* Type correctness. *)

LEMMA InitType == Init => TypeOK
  BY ConfigsAssumption DEF Init, TypeOK, FdStates, Labels, Ops

LEMMA CallType ==
  ASSUME TypeOK, NEW t \in Threads, Call(t)
  PROVE  TypeOK'
<1> USE DEF TypeOK, transport, Enter, Labels, Ops, Transfers
<1>1. CASE CallOpen(t)
  BY <1>1 DEF CallOpen
<1>2. CASE CallClose(t)
  BY <1>2 DEF CallClose
<1>3. CASE CallDestroy(t)
  BY <1>3 DEF CallDestroy
<1>4. CASE CallConfigure(t)
  BY <1>4, ConfigsAssumption DEF CallConfigure
<1>5. CASE CallSetReceiveCallback(t)
  BY <1>5 DEF CallSetReceiveCallback
<1>6. CASE CallTransfer(t)
  BY <1>6 DEF CallTransfer
<1> QED
  BY <1>1, <1>2, <1>3, <1>4, <1>5, <1>6 DEF Call

LEMMA LifecycleType ==
  ASSUME TypeOK, NEW t \in Threads, Lifecycle(t)
  PROVE  TypeOK'
<1> USE DEF TypeOK, transport, Enter, Goto, Return, ReturnPoint, Unlocks, Labels, Ops,
            FdStates
<1>1. CASE OpenAlready(t)
  BY <1>1 DEF OpenAlready
<1>2. CASE OpenSocket(t)
  BY <1>2 DEF OpenSocket
<1>3. CASE SetupFails(t)
  BY <1>3 DEF SetupFails
<1>4. CASE SetupSucceeds(t)
  BY <1>4 DEF SetupSucceeds
<1>5. CASE StartCas(t)
  BY <1>5 DEF StartCas
<1>6. CASE Spawn(t)
  BY <1>6 DEF Spawn, Threads
<1>7. CASE StopCas(t)
  BY <1>7 DEF StopCas
<1>8. CASE Join(t)
  BY <1>8 DEF Join, Threads
<1>9. CASE Close(t)
  BY <1>9 DEF Close
<1>10. CASE DestructorJoin(t)
  BY <1>10 DEF DestructorJoin
<1>11. CASE ConfigureFilters(t)
  BY <1>11 DEF ConfigureFilters
<1>12. CASE ApplyFilters(t)
  BY <1>12 DEF ApplyFilters
<1>13. CASE CheckLaunch(t)
  BY <1>13 DEF CheckLaunch
<1> QED
  BY <1>1, <1>2, <1>3, <1>4, <1>5, <1>6, <1>7, <1>8, <1>9, <1>10, <1>11, <1>12, <1>13
  DEF Lifecycle

LEMMA TransferType ==
  ASSUME TypeOK, NEW t \in Threads, Data(t) \/ Bus(t)
  PROVE  TypeOK'
<1> USE DEF TypeOK, transport, Enter, Goto, Return, ReturnPoint, Forget, Labels, Ops
<1>1. CASE ReceiveLoop(t)
  BY <1>1 DEF ReceiveLoop
<1>2. CASE NotifyReturns(t)
  BY <1>2 DEF NotifyReturns
<1>3. CASE Snapshot(t)
  BY <1>3 DEF Snapshot, Refused
<1>4. CASE IoTimesOut(t)
  BY <1>4 DEF IoTimesOut
<1>5. CASE IoTransfers(t)
  BY <1>5 DEF IoTransfers, Receives
<1>6. CASE IoFails(t)
  BY <1>6 DEF IoFails
<1> QED
  BY <1>1, <1>2, <1>3, <1>4, <1>5, <1>6 DEF Data, Bus

LEMMA NextType == TypeOK /\ [Next]_vars => TypeOK'
<1> SUFFICES ASSUME TypeOK, [Next]_vars PROVE TypeOK'
  OBVIOUS
<1>1. CASE UNCHANGED vars
  BY <1>1 DEF TypeOK, vars, transport
<1> QED
  BY <1>1, CallType, LifecycleType, TransferType DEF Next, Step, Destroyed

\* Every variable keeps its type in every behaviour of the transport.
THEOREM TypeCorrect == Spec => []TypeOK
  BY InitType, NextType, PTL DEF Spec

-----------------------------------------------------------------------------
(* The socket. *)

\* A step that leaves the socket, the kernel table and the lock alone.
LEMMA QuietOwned ==
  ASSUME OwnedInv, TypeOK', UNCHANGED <<socket, fd, lock>>,
         \A u \in Threads : pc'[u] = "setup" => pc[u] = "setup"
  PROVE  OwnedInv'
  BY DEF OwnedInv, SocketOwned

LEMMA LifecycleOwned ==
  ASSUME OwnedInv, NEW t \in Threads, Lifecycle(t)
  PROVE  OwnedInv'
<1>1. TypeOK /\ TypeOK'
  BY LifecycleType DEF OwnedInv
<1>2. NoThread \notin Threads
  BY ThreadsAssumption
<1>3. CASE OpenSocket(t)
  <2>1. /\ lock = NoThread /\ socket = NoFd
        /\ \A u \in Threads : pc[u] # "setup"
    BY <1>2, <1>3 DEF OpenSocket, OwnedInv
  <2>2. CASE UNCHANGED <<fd, socket, lock>>
    BY <1>1, <1>3, <2>1, <2>2, QuietOwned
    DEF OpenSocket, Goto, Return, Enter, ReturnPoint, TypeOK
  <2>3. CASE /\ \E f \in Fds : /\ fd[f] = "closed"
                               /\ fd' = [fd EXCEPT ![f] = "untimed"] /\ socket' = f
             /\ lock' = t /\ Goto(t, "setup")
    BY <1>1, <2>1, <2>3, FdsAssumption DEF OwnedInv, SocketOwned, Goto, TypeOK
  <2> QED
    BY <1>3, <2>2, <2>3 DEF OpenSocket
<1>4. CASE SetupFails(t) \/ SetupSucceeds(t)
  <2>1. /\ lock = t /\ socket \in Fds
        /\ \A u \in Threads : pc[u] = "setup" => u = t
    BY <1>1, <1>4 DEF SetupFails, SetupSucceeds, OwnedInv, TypeOK
  <2>2. \A u \in Threads : pc'[u] # "setup"
    BY <1>1, <1>4, <2>1
    DEF SetupFails, SetupSucceeds, Goto, Return, Enter, ReturnPoint, TypeOK
  <2> QED
    BY <1>1, <1>4, <2>1, <2>2, FdsAssumption
    DEF SetupFails, SetupSucceeds, OwnedInv, SocketOwned, TypeOK
<1>5. CASE StartCas(t) \/ Spawn(t)
  <2>1. UNCHANGED <<socket, fd>> /\ lock' \in {lock, IF lock = t THEN NoThread ELSE lock}
    BY <1>5 DEF StartCas, Spawn, Unlocks
  <2>2. \A u \in Threads : pc'[u] = "setup" => pc[u] = "setup" /\ u # t
    BY <1>1, <1>5
    DEF StartCas, Spawn, Goto, Return, Enter, ReturnPoint, TypeOK, Threads
  <2> QED
    BY <1>1, <2>1, <2>2 DEF OwnedInv, SocketOwned
<1>6. CASE Close(t)
  <2>1. \A u \in Threads : pc[u] # "setup" /\ pc'[u] # "setup"
    BY <1>1, <1>2, <1>6
    DEF Close, OwnedInv, Goto, Return, Enter, ReturnPoint, TypeOK
  <2> QED
    BY <1>1, <1>6, <2>1, FdsAssumption DEF Close, OwnedInv, SocketOwned
<1>7. CASE \/ OpenAlready(t) \/ StopCas(t) \/ Join(t) \/ DestructorJoin(t)
           \/ ConfigureFilters(t) \/ ApplyFilters(t) \/ CheckLaunch(t)
  <2>1. UNCHANGED <<socket, fd, lock>>
    BY <1>7 DEF OpenAlready, StopCas, Join, DestructorJoin, ConfigureFilters,
                ApplyFilters, CheckLaunch, transport
  <2>2. \A u \in Threads : pc'[u] = "setup" => pc[u] = "setup"
    BY <1>1, <1>7 DEF OpenAlready, StopCas, Join, DestructorJoin, ConfigureFilters,
       ApplyFilters, CheckLaunch, Goto, Return, Enter, ReturnPoint, TypeOK, Threads
  <2> QED
    BY <1>1, <2>1, <2>2, QuietOwned
<1> QED
  BY <1>3, <1>4, <1>5, <1>6, <1>7 DEF Lifecycle

LEMMA NextOwned == OwnedInv /\ [Next]_vars => OwnedInv'
<1> SUFFICES ASSUME OwnedInv, [Next]_vars PROVE OwnedInv'
  OBVIOUS
<1>1. TypeOK /\ TypeOK'
  BY NextType DEF OwnedInv
<1>2. CASE UNCHANGED vars
  BY <1>1, <1>2, QuietOwned DEF vars, transport
<1>3. ASSUME NEW t \in Threads, Call(t) PROVE OwnedInv'
  BY <1>1, <1>3, QuietOwned
  DEF Call, CallOpen, CallClose, CallDestroy, CallConfigure, CallSetReceiveCallback,
      CallTransfer, Enter, transport, TypeOK
<1>4. ASSUME NEW t \in Threads, Data(t) \/ Bus(t) PROVE OwnedInv'
  BY <1>1, <1>4, QuietOwned
  DEF Data, Bus, ReceiveLoop, NotifyReturns, Snapshot, IoTimesOut, IoTransfers, IoFails,
      Goto, Return, Enter, ReturnPoint, transport, TypeOK
<1> QED
  BY <1>2, <1>3, <1>4, LifecycleOwned DEF Next, Step, Destroyed

\* Whatever threads open, close and configure at the same time, no socket
\* leaks and socket_ names an open one.
THEOREM SocketAlwaysOwned == Spec => []SocketOwned
<1>1. Init => OwnedInv
  BY InitType, FdsAssumption DEF Init, OwnedInv, SocketOwned
<1>2. OwnedInv => SocketOwned
  BY DEF OwnedInv
<1> QED
  BY <1>1, <1>2, NextOwned, PTL DEF Spec

-----------------------------------------------------------------------------
(* The lifecycle of a transport that one application thread controls. *)

\* A step of one thread that leaves the socket, running_ and receiveThread_
\* alone and neither leaves nor enters the places LifecycleInv speaks of.
LEMMA QuietLifecycle ==
  ASSUME NEW o \in Threads, LifecycleInv(o), TypeOK, NEW t \in Threads, NEW l,
         UNCHANGED <<socket, running, rxObj>>,
         pc' = [pc EXCEPT ![t] = l],
         l \in Controlling => t = o,
         l \notin {"spawn", "join", "close", "dtorJoin", "setup", "startCas",
                  "terminated", "absent"},
         pc[t] \notin {"spawn", "join", "absent"},
         \A r \in Rx : pc'[r] = "io" =>
           \/ pc[r] = "io" /\ local'[r] = local[r]
           \/ local'[r] = socket /\ socket # NoFd
  PROVE  LifecycleInv(o)'
<1>1. ReaderOwnsDescriptor'
  BY DEF LifecycleInv, ReaderOwnsDescriptor
<1> QED
  BY <1>1 DEF LifecycleInv, TypeOK, Threads

LEMMA CallLifecycle ==
  ASSUME NEW o, SingleOwner(o), LifecycleInv(o), TypeOK, NEW t \in Threads, Call(t)
  PROVE  LifecycleInv(o)'
<1>1. UNCHANGED <<socket, running, rxObj, local>> /\ pc[t] \in {"idle", "notify"}
  BY DEF Call, CallOpen, CallClose, CallDestroy, CallConfigure, MayCall,
         CallSetReceiveCallback, CallTransfer, transport
<1>2. PICK l \in {"open", "stopCas", "filters", "setcb", "snapshot"} :
        pc' = [pc EXCEPT ![t] = l] /\ (l \in Controlling => t \in Owners)
  BY DEF Call, CallOpen, CallClose, CallDestroy, CallConfigure, Enter,
         CallSetReceiveCallback, CallTransfer, Controlling
<1>3. \A r \in Rx : pc'[r] = "io" => local'[r] = local[r] /\ pc[r] = "io"
  BY <1>1, <1>2 DEF TypeOK, Threads
<1> QED
  BY <1>1, <1>2, <1>3, QuietLifecycle DEF SingleOwner, Threads

LEMMA TransferLifecycle ==
  ASSUME NEW o \in Threads, LifecycleInv(o), TypeOK, NEW t \in Threads,
         Data(t) \/ Bus(t)
  PROVE  LifecycleInv(o)'
<1> USE DEF ReceiveLoop, NotifyReturns, Snapshot, IoTimesOut, IoTransfers, IoFails
<1>1. UNCHANGED <<socket, running, rxObj>>
      /\ pc[t] \in {"loop", "notify", "snapshot", "io"}
  BY DEF Data, Bus, transport
<1>2. PICK l \in {"loop", "snapshot", "done", "io", "idle", "notify"} :
        pc' = [pc EXCEPT ![t] = l]
  BY DEF Data, Bus, Goto, Return, Enter, ReturnPoint
<1>3. \A r \in Rx : pc'[r] = "io" =>
        \/ pc[r] = "io" /\ local'[r] = local[r]
        \/ local'[r] = socket /\ socket # NoFd
  BY DEF Data, Bus, Goto, Return, Enter, ReturnPoint, Forget, TypeOK, Threads
<1> QED
  BY <1>1, <1>2, <1>3, QuietLifecycle DEF Controlling

LEMMA ControlLifecycle ==
  ASSUME NEW o, SingleOwner(o), LifecycleInv(o), TypeOK,
         NEW t \in Threads, Lifecycle(t)
  PROVE  LifecycleInv(o)'
<1> USE DEF Goto, Return, Enter, ReturnPoint
<1>1. NoThread \notin Rx /\ o \in Threads \ Rx /\ local' = local
  BY ThreadsAssumption DEF SingleOwner, Threads, Lifecycle, OpenAlready, OpenSocket,
     SetupFails, SetupSucceeds, StartCas, Spawn, StopCas, Join, Close,
     DestructorJoin, ConfigureFilters, ApplyFilters, CheckLaunch
<1>2. CASE ConfigureFilters(t) \/ ApplyFilters(t)
  <2>1. UNCHANGED <<socket, running, rxObj>> /\ pc[t] \in {"filters", "applyFilters"}
    BY <1>2 DEF ConfigureFilters, ApplyFilters, transport
  <2>2. PICK l \in {"applyFilters", "idle", "loop", "notify"} : pc' = [pc EXCEPT ![t] = l]
    BY <1>2 DEF ConfigureFilters, ApplyFilters
  <2>3. \A r \in Rx : pc'[r] = "io" => local'[r] = local[r] /\ pc[r] = "io"
    BY <1>1, <2>2 DEF TypeOK, Threads
  <2> QED
    BY <1>1, <2>1, <2>2, <2>3, QuietLifecycle DEF Controlling
<1>3. ASSUME ~(ConfigureFilters(t) \/ ApplyFilters(t)) PROVE t = o
  BY <1>3 DEF Lifecycle, OpenAlready, OpenSocket, SetupFails, SetupSucceeds, StartCas,
     Spawn, StopCas, Join, Close, DestructorJoin, CheckLaunch, Controlling, LifecycleInv
<1> USE DEF LifecycleInv, ReaderOwnsDescriptor, TypeOK, Threads, Controlling
<1>4. CASE t = o /\ (OpenAlready(t) \/ OpenSocket(t))
  <2>1. CASE UNCHANGED <<socket, running, rxObj>>
    <3>1. pc[o] = "open" /\ pc' = [pc EXCEPT ![o] = "idle"]
      BY <1>1, <1>4, <2>1, FdsAssumption DEF OpenAlready, OpenSocket, SingleOwner
    <3> QED
      BY <1>1, <2>1, <3>1
  <2>2. CASE socket' # socket
    <3>1. /\ pc[o] = "open" /\ pc' = [pc EXCEPT ![o] = "setup"]
          /\ socket' # NoFd /\ UNCHANGED <<running, rxObj>>
          /\ rxObj = NoThread /\ ~running
      BY <1>4, <2>2, FdsAssumption DEF OpenAlready, OpenSocket, transport
    <3> QED
      BY <1>1, <3>1
  <2> QED
    BY <1>4, <2>1, <2>2 DEF OpenAlready, OpenSocket, transport
<1>5. CASE t = o /\ (SetupFails(t) \/ SetupSucceeds(t))
  BY <1>1, <1>5 DEF SetupFails, SetupSucceeds, SingleOwner
<1>6. CASE t = o /\ StartCas(t)
  BY <1>1, <1>6 DEF StartCas, SingleOwner
<1>7. CASE t = o /\ Spawn(t)
  BY <1>1, <1>7 DEF Spawn, SingleOwner
<1>8. CASE t = o /\ StopCas(t)
  BY <1>1, <1>8 DEF StopCas
<1>9. CASE t = o /\ Join(t)
  <2>1. UNCHANGED <<socket, running>> /\ pc[o] = "join" /\ ~running
    BY <1>9 DEF Join
  <2>2. CASE rxObj = NoThread
    <3>1. rxObj' = NoThread /\ pc' = [pc EXCEPT ![o] = "close"]
      BY <1>1, <1>9, <2>2, ThreadsAssumption DEF Join
    <3> QED
      BY <1>1, <2>1, <2>2, <3>1
  <2>3. CASE rxObj \in Rx
    <3>1. rxObj' = NoThread /\ pc' = [pc EXCEPT ![rxObj] = "absent", ![o] = "close"]
      BY <1>1, <1>9, <2>3 DEF Join
    <3> QED
      BY <1>1, <2>1, <2>3, <3>1
  <2> QED
    BY <2>2, <2>3
<1>10. CASE t = o /\ Close(t)
  BY <1>1, <1>10 DEF Close, SingleOwner
<1>11. CASE t = o /\ DestructorJoin(t)
  BY <1>1, <1>11 DEF DestructorJoin
<1>12. CASE t = o /\ CheckLaunch(t)
  BY <1>1, <1>12 DEF CheckLaunch, SingleOwner, transport
<1> QED
  BY <1>2, <1>3, <1>4, <1>5, <1>6, <1>7, <1>8, <1>9, <1>10, <1>11, <1>12 DEF Lifecycle

LEMMA LifecycleAlways ==
  ASSUME NEW o, SingleOwner(o)
  PROVE  Spec => [](TypeOK /\ LifecycleInv(o))
<1>1. Init => LifecycleInv(o)
  BY ThreadsAssumption
  DEF Init, LifecycleInv, ReaderOwnsDescriptor, Controlling, SingleOwner, Threads
<1>2. TypeOK /\ LifecycleInv(o) /\ [Next]_vars => LifecycleInv(o)'
  <2> SUFFICES ASSUME TypeOK, LifecycleInv(o), [Next]_vars PROVE LifecycleInv(o)'
    OBVIOUS
  <2>1. CASE UNCHANGED vars
    BY <2>1 DEF vars, transport, LifecycleInv, ReaderOwnsDescriptor
  <2> QED
    BY <2>1, CallLifecycle, TransferLifecycle, ControlLifecycle
    DEF Next, Step, Destroyed, SingleOwner, Threads
<1> QED
  BY <1>1, <1>2, InitType, NextType, PTL DEF Spec

\* With one controlling thread, no call ends the process, a closed transport
\* has no receive thread, and the receive thread and its callbacks only ever
\* touch the open socket, whatever other threads send and receive.
THEOREM SingleOwnerIsSafe ==
  ASSUME NEW o, SingleOwner(o)
  PROVE  Spec => [](NoTerminate /\ ClosedIsQuiet /\ ReaderOwnsDescriptor)
<1>1. TypeOK /\ LifecycleInv(o) => NoTerminate /\ ClosedIsQuiet /\ ReaderOwnsDescriptor
  <2> SUFFICES ASSUME TypeOK, LifecycleInv(o)
               PROVE  NoTerminate /\ ClosedIsQuiet /\ ReaderOwnsDescriptor
    OBVIOUS
  <2>1. NoTerminate /\ ReaderOwnsDescriptor
    BY DEF LifecycleInv, NoTerminate, Aborted
  <2>2. ClosedIsQuiet
    BY ThreadsAssumption
    DEF LifecycleInv, ClosedIsQuiet, Settled, Controlling, LiveReaders, TypeOK, SingleOwner,
        Threads
  <2> QED
    BY <2>1, <2>2
<1> QED
  BY <1>1, LifecycleAlways, PTL

-----------------------------------------------------------------------------
(* Whether the transport reads in the background. *)

LEMMA NextReading ==
  ASSUME NEW o, SingleOwner(o), TypeOK, LifecycleInv(o), ReadingInv(o), [Next]_vars
  PROVE  ReadingInv(o)'
<1> USE DEF ReadingInv, Goto, Return, Enter, ReturnPoint
<1>1. o \in Threads \ Rx
  BY ThreadsAssumption DEF SingleOwner, Threads
<1>2. ASSUME UNCHANGED <<config, socket, running, hasCb, seen>>,
             pc'[o] = pc[o] \/ pc[o] \notin {"setup", "startCas", "setcb", "join", "close"}
      PROVE  ReadingInv(o)'
  BY <1>2 DEF Spawns
<1>3. ASSUME NEW t \in Threads, Call(t) PROVE ReadingInv(o)'
  <2>1. CASE CallConfigure(t)
    BY <2>1 DEF CallConfigure
  <2>2. CASE CallSetReceiveCallback(t)
    BY <1>1, <2>2 DEF CallSetReceiveCallback, SingleOwner, TypeOK
  <2>3. CASE CallOpen(t) \/ CallClose(t) \/ CallDestroy(t) \/ CallTransfer(t)
    <3>1. UNCHANGED <<config, socket, running, hasCb, seen>>
      BY <2>3 DEF CallOpen, CallClose, CallDestroy, CallTransfer, transport
    <3>2. pc'[o] = pc[o] \/ pc[o] \in {"idle", "notify"}
      BY <1>1, <2>3 DEF CallOpen, CallClose, CallDestroy, CallTransfer, MayCall, TypeOK
    <3> QED
      BY <1>2, <3>1, <3>2
  <2> QED
    BY <1>3, <2>1, <2>2, <2>3 DEF Call
<1>4. ASSUME NEW t \in Threads, Data(t) \/ Bus(t) PROVE ReadingInv(o)'
  <2>1. UNCHANGED <<config, socket, running, hasCb, seen>>
    BY <1>4 DEF Data, Bus, ReceiveLoop, NotifyReturns, Snapshot, IoTimesOut,
                IoTransfers, IoFails, transport
  <2>2. pc'[o] = pc[o] \/ pc[o] \in {"loop", "notify", "snapshot", "io"}
    BY <1>1, <1>4 DEF Data, Bus, ReceiveLoop, NotifyReturns, Snapshot, IoTimesOut,
                IoTransfers, IoFails, TypeOK
  <2> QED
    BY <1>2, <2>1, <2>2
<1>5. ASSUME NEW t \in Threads, ConfigureFilters(t) \/ ApplyFilters(t) PROVE ReadingInv(o)'
  <2>1. UNCHANGED <<config, socket, running, hasCb, seen>>
    BY <1>5 DEF ConfigureFilters, ApplyFilters, transport
  <2>2. pc'[o] = pc[o] \/ pc[o] \in {"filters", "applyFilters"}
    BY <1>1, <1>5 DEF ConfigureFilters, ApplyFilters, TypeOK
  <2> QED
    BY <1>2, <2>1, <2>2
<1>6. ASSUME NEW t \in Threads, Lifecycle(t), ~(ConfigureFilters(t) \/ ApplyFilters(t))
      PROVE  t = o
  BY <1>6 DEF Lifecycle, OpenAlready, OpenSocket, SetupFails, SetupSucceeds, StartCas,
     Spawn, StopCas, Join, Close, DestructorJoin, CheckLaunch, Controlling, LifecycleInv
<1>7. CASE OpenAlready(o) \/ DestructorJoin(o)
  BY <1>1, <1>2, <1>7 DEF OpenAlready, DestructorJoin, transport
<1>8. CASE OpenSocket(o) \/ SetupFails(o) \/ Close(o)
  BY <1>1, <1>8 DEF OpenSocket, SetupFails, Close, TypeOK
<1>9. CASE SetupSucceeds(o) \/ CheckLaunch(o)
  BY <1>1, <1>9 DEF SetupSucceeds, CheckLaunch, transport, TypeOK
<1>10. CASE StartCas(o)
  BY <1>10 DEF StartCas
<1>11. CASE Spawn(o)
  BY <1>11 DEF Spawn, LifecycleInv
<1>12. CASE StopCas(o) \/ Join(o)
  BY <1>1, <1>12, ThreadsAssumption DEF StopCas, Join, LifecycleInv, TypeOK
<1>13. CASE UNCHANGED vars
  BY <1>13 DEF vars, transport, Spawns
<1> QED
  BY <1>3, <1>4, <1>5, <1>6, <1>7, <1>8, <1>9, <1>10, <1>11, <1>12, <1>13
  DEF Next, Step, Lifecycle, Destroyed

\* With one controlling thread, an open transport that is configured to read in
\* the background and has a callback reads.
THEOREM SingleOwnerReads ==
  ASSUME NEW o, SingleOwner(o)
  PROVE  Spec => []OpenMeansReading
<1>1. Init => ReadingInv(o)
  BY DEF Init, ReadingInv
<1>2. TypeOK /\ LifecycleInv(o) /\ ReadingInv(o) /\ [Next]_vars => ReadingInv(o)'
  BY NextReading
<1>3. ReadingInv(o) => OpenMeansReading
  BY DEF ReadingInv, OpenMeansReading, Settled, Controlling, SingleOwner, Threads
<1> QED
  BY <1>1, <1>2, <1>3, LifecycleAlways, PTL DEF Spec

-----------------------------------------------------------------------------
(* The transport implements the contract of ICommunication. *)

LEMMA NextImplements ==
  ASSUME NEW o, SingleOwner(o), TypeOK, LifecycleInv(o), [Next]_vars
  PROVE  [Contract!Next]_Contract!vars
<1> USE DEF Goto, Return, Enter, ReturnPoint
<1>1. NoThread \notin Rx /\ o \in Threads \ Rx
  BY ThreadsAssumption DEF SingleOwner, Threads
<1>2. rxObj = NoThread => LiveReaders = {}
  BY <1>1 DEF LifecycleInv, LiveReaders
<1>3. ASSUME NEW t \in Threads, NEW l \in Labels \ {"absent"}, pc[t] # "absent",
             socket' = socket, pc' = [pc EXCEPT ![t] = l]
      PROVE  UNCHANGED Contract!vars
  BY <1>3 DEF LiveReaders, TypeOK, Threads, Contract!vars
<1>4. ASSUME NEW t \in Threads, Call(t) PROVE UNCHANGED Contract!vars
  <2>1. socket' = socket /\ pc[t] # "absent"
    BY <1>4 DEF Call, CallOpen, CallClose, CallDestroy, CallConfigure, MayCall,
         CallSetReceiveCallback, CallTransfer, transport
  <2>2. PICK l \in Labels \ {"absent"} : pc' = [pc EXCEPT ![t] = l]
    BY <1>4 DEF Call, CallOpen, CallClose, CallDestroy, CallConfigure,
         CallSetReceiveCallback, CallTransfer, Labels
  <2> QED
    BY <1>3, <2>1, <2>2
<1>5. ASSUME NEW t \in Threads,
             \/ Data(t) \/ Bus(t) \/ OpenAlready(t) \/ SetupSucceeds(t) \/ StartCas(t)
             \/ StopCas(t) \/ ConfigureFilters(t) \/ ApplyFilters(t) \/ CheckLaunch(t)
      PROVE  UNCHANGED Contract!vars
  <2> USE DEF Data, Bus, ReceiveLoop, NotifyReturns, Snapshot, IoTimesOut, IoTransfers,
              IoFails, OpenAlready, SetupSucceeds, StartCas, StopCas,
              ConfigureFilters, ApplyFilters, CheckLaunch
  <2>1. socket' = socket /\ pc[t] # "absent"
    BY <1>5 DEF transport
  <2>2. PICK l \in Labels \ {"absent"} : pc' = [pc EXCEPT ![t] = l]
    BY <1>5 DEF Labels
  <2> QED
    BY <1>3, <2>1, <2>2
<1>6. ASSUME NEW t \in Threads,
             \/ OpenSocket(t) \/ SetupFails(t) \/ Close(t)
             \/ Spawn(t) \/ Join(t) \/ DestructorJoin(t)
      PROVE  t = o
  BY <1>6 DEF OpenSocket, SetupFails, Close, Spawn, Join, DestructorJoin, Controlling,
              LifecycleInv
<1>7. CASE OpenSocket(o) \/ SetupFails(o) \/ Close(o)
  <2>1. rxObj = NoThread
    BY <1>1, <1>7 DEF OpenSocket, SetupFails, Close, LifecycleInv
  <2>2. LiveReaders' = {} /\ LiveReaders = {}
    BY <1>1, <1>2, <1>7, <2>1
    DEF OpenSocket, SetupFails, Close, LiveReaders, TypeOK, Threads
  <2> QED
    BY <1>7, <2>2, FdsAssumption
    DEF OpenSocket, SetupFails, Close, Contract!Next, Contract!vars, Contract!Open,
        Contract!Close
<1>8. CASE Spawn(o)
  <2>1. socket # NoFd /\ socket' = socket /\ rxObj = NoThread
    BY <1>8 DEF Spawn, LifecycleInv
  <2>2. LiveReaders = {} /\ LiveReaders' # {}
    BY <1>1, <1>2, <1>8, <2>1 DEF Spawn, LiveReaders, TypeOK, Threads
  <2> QED
    BY <2>1, <2>2 DEF Contract!Next, Contract!StartReader
<1>9. CASE Join(o)
  <2>1. CASE rxObj = NoThread
    BY <1>1, <1>3, <1>9, <2>1 DEF Join, Labels
  <2>2. CASE rxObj \in Rx
    <3>1. pc[rxObj] = "done" /\ pc' = [pc EXCEPT ![rxObj] = "absent", ![o] = "close"]
          /\ socket' = socket
      BY <1>1, <1>9, <2>2 DEF Join
    <3>2. LiveReaders # {} /\ LiveReaders' = {}
      BY <1>1, <2>2, <3>1 DEF LiveReaders, LifecycleInv, TypeOK, Threads
    <3> QED
      BY <3>1, <3>2 DEF Contract!Next, Contract!StopReader
  <2> QED
    BY <2>1, <2>2 DEF TypeOK
<1>10. CASE DestructorJoin(o)
  <2>1. rxObj = NoThread
    BY <1>10 DEF DestructorJoin, LifecycleInv
  <2>2. LiveReaders' = {} /\ LiveReaders = {} /\ socket' = socket
    BY <1>1, <1>2, <1>10, <2>1 DEF DestructorJoin, LiveReaders, TypeOK, Threads
  <2> QED
    BY <2>2 DEF Contract!vars
<1>11. CASE UNCHANGED vars
  BY <1>11 DEF vars, transport, LiveReaders, Contract!vars
<1> QED
  BY <1>4, <1>5, <1>6, <1>7, <1>8, <1>9, <1>10, <1>11
  DEF Next, Step, Lifecycle, Destroyed

\* A transport that one thread controls keeps the contract every transport
\* promises: a receive thread and a socket only between open() and close().
THEOREM ContractKept ==
  ASSUME NEW o, SingleOwner(o)
  PROVE  Spec => ImplementsContract
<1>1. Init => Contract!Init
  BY ThreadsAssumption DEF Init, Contract!Init, LiveReaders, Threads
<1>2. TypeOK /\ LifecycleInv(o) /\ [Next]_vars => [Contract!Next]_Contract!vars
  BY NextImplements
<1> QED
  BY <1>1, <1>2, LifecycleAlways, PTL DEF Spec, ImplementsContract, Contract!Spec
=============================================================================
