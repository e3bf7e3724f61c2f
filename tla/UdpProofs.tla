---------------------------- MODULE UdpProofs -----------------------------
(***************************************************************************)
(* Theorems about Udp, for every value of its constants.                   *)
(***************************************************************************)
EXTENDS Udp, TLAPS

-----------------------------------------------------------------------------
(* Type correctness. *)

LEMMA InitType == Init => TypeOK
<1> SUFFICES ASSUME Init PROVE TypeOK
  OBVIOUS
<1>1. \A t \in Threads : (IF t \in App THEN "idle" ELSE "absent") \in Labels
  BY DEF Labels
<1>2. "none" \in Ops
  BY DEF Ops
<1> QED
  <2>1. pc \in [Threads -> Labels] /\ op \in [Threads -> Ops]
    BY <1>1, <1>2 DEF Init
  <2>2. config \in Config /\ stale \in [Threads -> BOOLEAN] /\ idle \in 0 .. 2
    BY ConfigsAssumption DEF Init
  <2> QED
    BY <2>1, <2>2 DEF Init, TypeOK

LEMMA CallType ==
  ASSUME TypeOK, NEW t \in Threads, Call(t)
  PROVE  TypeOK'
<1> USE DEF TypeOK, transport, health, Enter, Labels, Ops
<1>1. CASE CallOpen(t)
  BY <1>1 DEF CallOpen
<1>2. CASE CallClose(t)
  BY <1>2 DEF CallClose
<1>3. CASE CallDestroy(t)
  BY <1>3 DEF CallDestroy
<1>4. CASE CallConfigure(t)
  BY <1>4, ConfigsAssumption DEF CallConfigure
<1>5. CASE CallSetReceiveCallback(t)
  BY <1>5 DEF CallSetReceiveCallback
<1>6. CASE CallSend(t)
  BY <1>6 DEF CallSend
<1>7. CASE CallReceive(t)
  BY <1>7 DEF CallReceive
<1> QED
  BY <1>1, <1>2, <1>3, <1>4, <1>5, <1>6, <1>7
  DEF Call

LEMMA LifecycleType ==
  ASSUME TypeOK, NEW t \in Threads, Lifecycle(t)
  PROVE  TypeOK'
<1> USE DEF TypeOK, transport, health, Enter, Goto, Return, ReturnPoint,
            Labels, Ops, AfterStart, AfterStop, StopNext
<1>1. CASE OpenAlready(t)
  BY <1>1 DEF OpenAlready
<1>2. CASE OpenFails(t)
  BY <1>2 DEF OpenFails
<1>3. CASE OpenSucceeds(t)
  BY <1>3 DEF OpenSucceeds
<1>4. CASE CheckLaunch(t)
  BY <1>4 DEF CheckLaunch
<1>5. CASE ApplyConfig(t)
  BY <1>5 DEF ApplyConfig
<1>6. CASE StartCheck(t)
  BY <1>6 DEF StartCheck
<1>7. CASE StartCas(t)
  BY <1>7 DEF StartCas
<1>8. CASE Spawn(t)
  BY <1>8 DEF Spawn, Threads
<1>9. CASE ScheduleHealthCheck(t)
  BY <1>9 DEF ScheduleHealthCheck
<1>10. CASE SpawnMonitor(t)
  BY <1>10 DEF SpawnMonitor, Threads
<1>11. CASE StopCas(t)
  BY <1>11 DEF StopCas
<1>12. CASE Join(t)
  BY <1>12 DEF Join, Threads
<1>13. CASE StopHealthMonitor(t)
  BY <1>13 DEF StopHealthMonitor
<1>14. CASE JoinMonitor(t)
  BY <1>14 DEF JoinMonitor, Threads
<1>15. CASE ResetHandle(t)
  BY <1>15 DEF ResetHandle, ResetsHandle
<1>16. CASE DestructorJoin(t)
  BY <1>16 DEF DestructorJoin
<1> QED
  BY <1>1, <1>2, <1>3, <1>4, <1>5, <1>6, <1>7, <1>8, <1>9, <1>10, <1>11,
     <1>12, <1>13, <1>14, <1>15, <1>16
  DEF Lifecycle

LEMMA DataType ==
  ASSUME TypeOK, NEW t \in Threads, Data(t)
  PROVE  TypeOK'
<1> USE DEF TypeOK, transport, health, Enter, Goto, Return, ReturnPoint,
            Labels, Ops, Forget
<1>1. CASE ReceiveLoop(t)
  BY <1>1 DEF ReceiveLoop
<1>2. CASE NotifyReturns(t)
  BY <1>2 DEF NotifyReturns
<1>3. CASE Snapshot(t)
  BY <1>3 DEF Snapshot
<1>4. CASE SendWithoutDestination(t)
  BY <1>4 DEF SendWithoutDestination
<1>5. CASE SendTransfers(t)
  BY <1>5 DEF SendTransfers
<1>6. CASE ReceiveDatagram(t)
  BY <1>6 DEF ReceiveDatagram
<1>7. CASE ReceiveNothing(t)
  BY <1>7 DEF ReceiveNothing
<1>8. CASE ReceiveFails(t)
  BY <1>8 DEF ReceiveFails
<1> QED
  BY <1>1, <1>2, <1>3, <1>4, <1>5, <1>6, <1>7, <1>8
  DEF Data

LEMMA MonitorType ==
  ASSUME TypeOK, NEW t \in Threads, Monitor(t)
  PROVE  TypeOK'
<1> USE DEF TypeOK, transport, health, Enter, Goto, Return, ReturnPoint, Labels, Ops
<1>1. CASE Tick(t)
  BY <1>1 DEF Tick
<1>2. CASE CheckHealth(t)
  BY <1>2 DEF CheckHealth
<1>3. CASE AttemptRebind(t)
  BY <1>3 DEF AttemptRebind
<1>4. CASE Unbind(t)
  BY <1>4 DEF Unbind, ResetsHandle
<1> QED
  BY <1>1, <1>2, <1>3, <1>4
  DEF Monitor

LEMMA NextType == TypeOK /\ [Next]_vars => TypeOK'
<1> SUFFICES ASSUME TypeOK, [Next]_vars PROVE TypeOK'
  OBVIOUS
<1>1. CASE UNCHANGED vars
  BY <1>1 DEF TypeOK, vars, transport, health
<1>2. CASE Idles
  BY <1>2 DEF TypeOK, Idles, transport
<1> QED
  BY <1>1, <1>2, CallType, LifecycleType, DataType, MonitorType
  DEF Next, Step, Destroyed

\* Every variable keeps its type in every behaviour of the transport.
THEOREM TypeCorrect == Spec => []TypeOK
  BY InitType, NextType, PTL DEF Spec
-----------------------------------------------------------------------------
(* One thread, the owner or the monitor, controls the transport at a time. *)

UdpInv(o) == TypeOK /\ ControlInv(o) /\ MonitorInv(o) /\ ReaderInv

\* Thread t, the owner or the monitor re-binding, is the one in control.
Alone(o, t) ==
    /\ \A u \in Threads : pc[u] \in Controlling => u = t
    /\ \/ t = o
       \/ /\ t # o /\ t = hmObj /\ t \in Hm /\ op[t] = "rebind"
          /\ config.autoRebind /\ monitoring

LEMMA LifecycleControls ==
  ASSUME NEW t \in Threads, Lifecycle(t) \/ Unbind(t)
  PROVE  pc[t] \in Controlling
  BY DEF Lifecycle, Controlling, OpenAlready, OpenFails, OpenSucceeds,
     CheckLaunch, ApplyConfig, StartCheck, StartCas, Spawn, ScheduleHealthCheck,
     SpawnMonitor, StopCas, Join, StopHealthMonitor, JoinMonitor, ResetHandle,
     DestructorJoin, Unbind

LEMMA ControllersAreAlone ==
  ASSUME NEW o, SingleOwner(o), UdpInv(o), NEW t \in Threads, pc[t] \in Controlling
  PROVE  Alone(o, t)
<1>1. o \in Threads /\ NoThread \notin Threads
  BY ThreadsAssumption DEF SingleOwner, Threads
<1>2. ASSUME NEW u \in Threads, u # o, pc[u] \in Controlling
      PROVE  /\ u = hmObj /\ u \in Hm /\ op[u] = "rebind" /\ config.autoRebind
             /\ monitoring /\ pc[o] \notin Controlling
  <2>1. /\ u = hmObj /\ op[u] = "rebind" /\ config.autoRebind /\ hmObj # NoThread
        /\ pc[o] \notin Controlling
    BY <1>1, <1>2 DEF UdpInv, ControlInv
  <2>2. monitoring
    BY <2>1 DEF UdpInv, TypeOK, MonitorInv, Controlling
  <2> QED
    BY <2>1, <2>2 DEF UdpInv, TypeOK
<1> QED
  BY <1>2 DEF Alone

LEMMA LifecycleControl ==
  ASSUME NEW o, SingleOwner(o), UdpInv(o), NEW t \in Threads, Lifecycle(t) \/ Unbind(t)
  PROVE  ControlInv(o)'
<1>1. /\ pc[t] \in Controlling /\ TypeOK
      /\ o \in App /\ o \in Threads /\ NoThread \notin Threads
      /\ o \notin Rx /\ o \notin Hm /\ App \cap Hm = {} /\ Rx \cap Hm = {}
  BY ThreadsAssumption, LifecycleControls DEF SingleOwner, Threads, UdpInv
<1>2. Alone(o, t)
  BY <1>1, ControllersAreAlone
<1> USE DEF UdpInv, ControlInv, MonitorInv, ReaderInv, Alone, Controlling,
     TypeOK, Threads
<1>3. CASE OpenAlready(t)
  BY <1>1, <1>2, <1>3 DEF OpenAlready, Return, Enter, ReturnPoint, transport
<1>4. CASE OpenFails(t)
  BY <1>1, <1>2, <1>4 DEF OpenFails, Return, Enter, ReturnPoint, transport
<1>5. CASE OpenSucceeds(t)
  BY <1>1, <1>2, <1>5 DEF OpenSucceeds, Goto
<1>6. CASE CheckLaunch(t)
  BY <1>1, <1>2, <1>6 DEF CheckLaunch, Goto, Return, Enter, ReturnPoint,
     transport
<1>7. CASE ApplyConfig(t)
  BY <1>1, <1>2, <1>7 DEF ApplyConfig, Goto, Return, Enter, ReturnPoint,
     transport
<1>8. CASE StartCheck(t)
  BY <1>1, <1>2, <1>8 DEF StartCheck, AfterStart, Goto, Return, Enter,
     ReturnPoint, ShouldSpawnReceiveThread, transport
<1>9. CASE StartCas(t)
  BY <1>1, <1>2, <1>9 DEF StartCas, AfterStart, Goto, Return, Enter, ReturnPoint
<1>10. CASE Spawn(t)
  BY <1>1, <1>2, <1>10 DEF Spawn, Goto, ReturnPoint
<1>11. CASE ScheduleHealthCheck(t)
  BY <1>1, <1>2, <1>11 DEF ScheduleHealthCheck, Goto, Return, Enter, ReturnPoint
<1>12. CASE SpawnMonitor(t)
  BY <1>1, <1>2, <1>12 DEF SpawnMonitor, Goto, ReturnPoint
<1>13. CASE StopCas(t)
  BY <1>1, <1>2, <1>13 DEF StopCas, Goto, AfterStop, StopNext, Enter,
     ReturnPoint
<1>14. CASE Join(t)
  BY <1>1, <1>2, <1>14 DEF Join, Goto, AfterStop, StopNext, Enter, ReturnPoint
<1>15. CASE StopHealthMonitor(t)
  BY <1>1, <1>2, <1>15 DEF StopHealthMonitor, Goto
<1>16. CASE JoinMonitor(t)
  BY <1>1, <1>2, <1>16 DEF JoinMonitor, Goto
<1>17. CASE ResetHandle(t)
  BY <1>1, <1>2, <1>17 DEF ResetHandle, ResetsHandle, Goto, Return, Enter,
     ReturnPoint
<1>18. CASE DestructorJoin(t)
  BY <1>1, <1>2, <1>18 DEF DestructorJoin
<1>19. CASE Unbind(t)
  BY <1>1, <1>2, <1>19 DEF Unbind, ResetsHandle, Goto
<1> QED
  BY <1>3, <1>4, <1>5, <1>6, <1>7, <1>8, <1>9, <1>10, <1>11, <1>12, <1>13,
     <1>14, <1>15, <1>16, <1>17, <1>18, <1>19 DEF Lifecycle

LEMMA LifecycleMonitor ==
  ASSUME NEW o, SingleOwner(o), UdpInv(o), NEW t \in Threads, Lifecycle(t) \/ Unbind(t)
  PROVE  MonitorInv(o)'
<1>1. /\ pc[t] \in Controlling /\ TypeOK
      /\ o \in App /\ o \in Threads /\ NoThread \notin Threads
      /\ o \notin Rx /\ o \notin Hm /\ App \cap Hm = {} /\ Rx \cap Hm = {}
  BY ThreadsAssumption, LifecycleControls DEF SingleOwner, Threads, UdpInv
<1>2. Alone(o, t)
  BY <1>1, ControllersAreAlone
<1> USE DEF UdpInv, MonitorInv, ControlInv, Alone, Controlling, TypeOK,
     Threads
<1>3. CASE OpenAlready(t)
  BY <1>1, <1>2, <1>3 DEF OpenAlready, Return, Enter, ReturnPoint, transport
<1>4. CASE OpenFails(t)
  BY <1>1, <1>2, <1>4 DEF OpenFails, Return, Enter, ReturnPoint, transport
<1>5. CASE OpenSucceeds(t)
  BY <1>1, <1>2, <1>5 DEF OpenSucceeds, Goto
<1>6. CASE CheckLaunch(t)
  BY <1>1, <1>2, <1>6 DEF CheckLaunch, Goto, Return, Enter, ReturnPoint,
     transport
<1>7. CASE ApplyConfig(t)
  BY <1>1, <1>2, <1>7 DEF ApplyConfig, Goto, Return, Enter, ReturnPoint,
     transport
<1>8. CASE StartCheck(t)
  BY <1>1, <1>2, <1>8 DEF StartCheck, AfterStart, Goto, Return, Enter,
     ReturnPoint, ShouldSpawnReceiveThread, transport
<1>9. CASE StartCas(t)
  BY <1>1, <1>2, <1>9 DEF StartCas, AfterStart, Goto, Return, Enter, ReturnPoint
<1>10. CASE Spawn(t)
  BY <1>1, <1>2, <1>10 DEF Spawn, Goto, ReturnPoint
<1>11. CASE ScheduleHealthCheck(t)
  BY <1>1, <1>2, <1>11 DEF ScheduleHealthCheck, Goto, Return, Enter, ReturnPoint
<1>12. CASE SpawnMonitor(t)
  <2>1. t = o /\ monitoring /\ hmObj = NoThread /\ handle
    BY <1>1, <1>2, <1>12 DEF SpawnMonitor, ReaderInv
  <2>2. PICK h \in Hm : /\ hmObj' = h
                        /\ pc' = [pc EXCEPT ![t] = "idle", ![h] = "tick"]
    BY <1>1, <2>1, <1>12 DEF SpawnMonitor, ReturnPoint
  <2>3. \A u \in Threads : pc'[u] = IF u = h THEN "tick" ELSE IF u = t THEN "idle" ELSE pc[u]
    BY <1>1, <2>1, <2>2
  <2> QED
    BY <1>1, <2>1, <2>2, <2>3, <1>12 DEF SpawnMonitor
<1>13. CASE StopCas(t)
  BY <1>1, <1>2, <1>13 DEF StopCas, Goto, AfterStop, StopNext, Enter,
     ReturnPoint
<1>14. CASE Join(t)
  BY <1>1, <1>2, <1>14 DEF Join, Goto, AfterStop, StopNext, Enter, ReturnPoint
<1>15. CASE StopHealthMonitor(t)
  BY <1>1, <1>2, <1>15 DEF StopHealthMonitor, Goto
<1>16. CASE JoinMonitor(t)
  BY <1>1, <1>2, <1>16 DEF JoinMonitor, Goto
<1>17. CASE ResetHandle(t)
  BY <1>1, <1>2, <1>17 DEF ResetHandle, ResetsHandle, Goto, Return, Enter,
     ReturnPoint
<1>18. CASE DestructorJoin(t)
  BY <1>1, <1>2, <1>18 DEF DestructorJoin
<1>19. CASE Unbind(t)
  BY <1>1, <1>2, <1>19 DEF Unbind, ResetsHandle, Goto
<1> QED
  BY <1>3, <1>4, <1>5, <1>6, <1>7, <1>8, <1>9, <1>10, <1>11, <1>12, <1>13,
     <1>14, <1>15, <1>16, <1>17, <1>18, <1>19 DEF Lifecycle

LEMMA LifecycleReader ==
  ASSUME NEW o, SingleOwner(o), UdpInv(o), NEW t \in Threads, Lifecycle(t) \/ Unbind(t)
  PROVE  ReaderInv'
<1>1. /\ pc[t] \in Controlling /\ TypeOK
      /\ o \in App /\ o \in Threads /\ NoThread \notin Threads
      /\ o \notin Rx /\ o \notin Hm /\ App \cap Hm = {} /\ Rx \cap Hm = {}
  BY ThreadsAssumption, LifecycleControls DEF SingleOwner, Threads, UdpInv
<1>2. Alone(o, t)
  BY <1>1, ControllersAreAlone
<1> USE DEF UdpInv, ReaderInv, ControlInv, MonitorInv, Alone, Controlling,
     TypeOK, Threads
<1>3. CASE OpenAlready(t)
  BY <1>1, <1>2, <1>3 DEF OpenAlready, Return, Enter, ReturnPoint, transport
<1>4. CASE OpenFails(t)
  BY <1>1, <1>2, <1>4 DEF OpenFails, Return, Enter, ReturnPoint, transport
<1>5. CASE OpenSucceeds(t)
  BY <1>1, <1>2, <1>5 DEF OpenSucceeds, Goto
<1>6. CASE CheckLaunch(t)
  BY <1>1, <1>2, <1>6 DEF CheckLaunch, Goto, Return, Enter, ReturnPoint,
     transport
<1>7. CASE ApplyConfig(t)
  BY <1>1, <1>2, <1>7 DEF ApplyConfig, Goto, Return, Enter, ReturnPoint,
     transport
<1>8. CASE StartCheck(t)
  BY <1>1, <1>2, <1>8 DEF StartCheck, AfterStart, Goto, Return, Enter,
     ReturnPoint, ShouldSpawnReceiveThread, transport
<1>9. CASE StartCas(t)
  BY <1>1, <1>2, <1>9 DEF StartCas, AfterStart, Goto, Return, Enter, ReturnPoint
<1>10. CASE Spawn(t)
  BY <1>1, <1>2, <1>10 DEF Spawn, Goto, ReturnPoint
<1>11. CASE ScheduleHealthCheck(t)
  BY <1>1, <1>2, <1>11 DEF ScheduleHealthCheck, Goto, Return, Enter, ReturnPoint
<1>12. CASE SpawnMonitor(t)
  BY <1>1, <1>2, <1>12 DEF SpawnMonitor, Goto, ReturnPoint
<1>13. CASE StopCas(t)
  BY <1>1, <1>2, <1>13 DEF StopCas, Goto, AfterStop, StopNext, Enter,
     ReturnPoint
<1>14. CASE Join(t)
  BY <1>1, <1>2, <1>14 DEF Join, Goto, AfterStop, StopNext, Enter, ReturnPoint
<1>15. CASE StopHealthMonitor(t)
  BY <1>1, <1>2, <1>15 DEF StopHealthMonitor, Goto
<1>16. CASE JoinMonitor(t)
  BY <1>1, <1>2, <1>16 DEF JoinMonitor, Goto
<1>17. CASE ResetHandle(t)
  BY <1>1, <1>2, <1>17 DEF ResetHandle, ResetsHandle, Goto, Return, Enter,
     ReturnPoint
<1>18. CASE DestructorJoin(t)
  BY <1>1, <1>2, <1>18 DEF DestructorJoin
<1>19. CASE Unbind(t)
  BY <1>1, <1>2, <1>19 DEF Unbind, ResetsHandle, Goto
<1> QED
  BY <1>3, <1>4, <1>5, <1>6, <1>7, <1>8, <1>9, <1>10, <1>11, <1>12, <1>13,
     <1>14, <1>15, <1>16, <1>17, <1>18, <1>19 DEF Lifecycle

\* A step outside the calls that control the transport.
LEMMA QuietStep ==
  ASSUME NEW o, SingleOwner(o), UdpInv(o), TypeOK', NEW t \in Threads, NEW l,
         UNCHANGED <<config, handle, running, rxObj, monitoring, hmObj>>,
         pc' = [pc EXCEPT ![t] = l],
         pc[t] \notin Controlling \cup {"absent"},
         l \notin Controlling \cup {"absent", "terminated"},
         l \in {"tick", "recent", "late", "silent", "rebind"} => t \in Hm,
         \A u \in Threads : op'[u] = op[u] \/ (u = t /\ op'[u] # "rebind")
  PROVE  UdpInv(o)'
<1>1. o \in Threads
  BY DEF SingleOwner, Threads
<1>2. \A u \in Threads : pc'[u] = IF u = t THEN l ELSE pc[u]
  BY DEF UdpInv, TypeOK
<1>3. ControlInv(o)'
  BY <1>1, <1>2 DEF UdpInv, ControlInv, Controlling
<1>4. MonitorInv(o)'
  BY <1>1, <1>2 DEF UdpInv, MonitorInv, Controlling, Threads
<1>5. ReaderInv'
  BY <1>1, <1>2 DEF UdpInv, ReaderInv, Controlling, Threads
<1> QED
  BY <1>3, <1>4, <1>5 DEF UdpInv

LEMMA DataStep ==
  ASSUME NEW o, SingleOwner(o), UdpInv(o), NEW t \in Threads, Data(t)
  PROVE  UdpInv(o)'
<1> USE DEF ReceiveLoop, NotifyReturns, Snapshot, SendWithoutDestination, SendTransfers,
            ReceiveDatagram, ReceiveNothing, ReceiveFails, Goto, Return, Enter
<1>1. TypeOK /\ TypeOK'
  BY DataType DEF UdpInv
<1>2. UNCHANGED transport /\ pc[t] \in {"loop", "notify", "snapshot", "send", "recv"}
  BY DEF Data
<1>3. PICK l \in {"loop", "done", "snapshot", "send", "recv", "notify", ReturnPoint(t)} :
        pc' = [pc EXCEPT ![t] = l]
  <2>1. CASE ReceiveLoop(t)
    BY <1>1, <2>1 DEF TypeOK
  <2>2. CASE Snapshot(t)
    BY <2>2
  <2>3. CASE NotifyReturns(t) \/ ReceiveDatagram(t)
    BY <2>3
  <2>4. CASE \/ SendWithoutDestination(t) \/ SendTransfers(t)
             \/ ReceiveNothing(t) \/ ReceiveFails(t)
    BY <2>4
  <2> QED
    BY <2>1, <2>2, <2>3, <2>4 DEF Data
<1>4. op' \in {op, [op EXCEPT ![t] = "none"]}
  BY DEF Data
<1>5. /\ l \notin Controlling \cup {"absent", "terminated"}
      /\ l \in {"tick", "recent", "late", "silent", "rebind"} => t \in Hm
  BY <1>3 DEF ReturnPoint, Controlling
<1>6. \A u \in Threads : op'[u] = op[u] \/ (u = t /\ op'[u] # "rebind")
  BY <1>1, <1>4 DEF TypeOK
<1>7. UNCHANGED <<config, handle, running, rxObj, monitoring, hmObj>>
  BY <1>2 DEF transport
<1>8. pc[t] \notin Controlling \cup {"absent"}
  BY <1>2 DEF Controlling
<1> HIDE DEF ReceiveLoop, NotifyReturns, Snapshot, SendWithoutDestination, SendTransfers,
             ReceiveDatagram, ReceiveNothing, ReceiveFails
<1> QED
  BY <1>1, <1>3, <1>5, <1>6, <1>7, <1>8, QuietStep

LEMMA MonitorStep ==
  ASSUME NEW o, SingleOwner(o), UdpInv(o), NEW t \in Threads,
         Tick(t) \/ CheckHealth(t) \/ AttemptRebind(t)
  PROVE  UdpInv(o)'
<1>1. TypeOK /\ TypeOK' /\ o \in Threads /\ NoThread \notin Threads
  BY MonitorType, ThreadsAssumption DEF UdpInv, Monitor, SingleOwner, Threads
<1>2. /\ UNCHANGED transport
      /\ pc[t] \in {"tick", "recent", "late", "silent", "rebind"}
  BY DEF Tick, CheckHealth, AttemptRebind
<1>3. t \in Hm /\ t # o /\ t = hmObj
  BY <1>2, ThreadsAssumption DEF UdpInv, ControlInv, MonitorInv, SingleOwner
<1>4. CASE pc'[t] # "stopCas"
  <2>1. op' = op
    BY <1>1, <1>4 DEF Tick, CheckHealth, AttemptRebind, Goto, Enter, TypeOK
  <2>2. PICK l \in {"tick", "recent", "late", "silent", "rebind", "done"} :
          pc' = [pc EXCEPT ![t] = l]
    BY <1>1, <1>4 DEF Tick, CheckHealth, AttemptRebind, Goto, Enter, TypeOK
  <2>3. UNCHANGED <<config, handle, running, rxObj, monitoring, hmObj>>
    BY <1>2 DEF transport
  <2>4. l \notin Controlling \cup {"absent", "terminated"}
    BY <2>2 DEF Controlling
  <2>5. pc[t] \notin Controlling \cup {"absent"}
    BY <1>2 DEF Controlling
  <2> QED
    BY <1>1, <1>3, <2>1, <2>2, <2>3, <2>4, <2>5, QuietStep
<1>5. CASE pc'[t] = "stopCas"
  <2>1. /\ config.autoRebind /\ op' = [op EXCEPT ![t] = "rebind"]
        /\ pc' = [pc EXCEPT ![t] = "stopCas"]
    BY <1>1, <1>5 DEF Tick, CheckHealth, AttemptRebind, Goto, Enter, TypeOK
  <2>2. \A u \in Threads : pc[u] \notin Controlling
    BY <1>1, <1>2, <1>3, <2>1 DEF UdpInv, ControlInv, Controlling
  <2> QED
    BY <1>1, <1>2, <1>3, <2>1, <2>2
    DEF UdpInv, ControlInv, MonitorInv, ReaderInv, Controlling, transport, TypeOK, Threads
<1> QED
  BY <1>4, <1>5

LEMMA CallStep ==
  ASSUME NEW o, SingleOwner(o), UdpInv(o), NEW t \in Threads, Call(t)
  PROVE  UdpInv(o)'
<1>1. TypeOK /\ TypeOK' /\ o \in Threads /\ NoThread \notin Threads /\ o \notin Hm
  BY CallType, ThreadsAssumption DEF UdpInv, SingleOwner, Threads
<1>2. pc[t] \in {"idle", "notify"} /\ UNCHANGED <<handle, running, rxObj, monitoring, hmObj>>
  BY DEF Call, CallOpen, CallClose, CallDestroy, CallConfigure, CallSetReceiveCallback,
         CallSend, CallReceive, MayManage, MayCall, transport
<1>3. CASE CallSend(t) \/ CallReceive(t)
  <2>1. PICK l \in {"idle", "notify", "snapshot"} : pc' = [pc EXCEPT ![t] = l]
    <3>1. CASE pc' = pc
      BY <1>1, <1>2, <3>1 DEF TypeOK
    <3>2. CASE pc' = [pc EXCEPT ![t] = "snapshot"]
      BY <3>2
    <3> QED
      BY <1>3, <3>1, <3>2 DEF CallSend, CallReceive, Enter
  <2>2. \A u \in Threads : op'[u] = op[u] \/ (u = t /\ op'[u] # "rebind")
    BY <1>1, <1>3 DEF CallSend, CallReceive, Enter, TypeOK
  <2>3. config' = config
    BY <1>3 DEF CallSend, CallReceive, transport
  <2>4. l \notin Controlling \cup {"absent", "terminated"}
        /\ l \notin {"tick", "recent", "late", "silent", "rebind"}
    BY <2>1 DEF Controlling
  <2>5. pc[t] \notin Controlling \cup {"absent"}
    BY <1>2 DEF Controlling
  <2> QED
    BY <1>1, <1>2, <2>1, <2>2, <2>3, <2>4, <2>5, QuietStep
<1>4. CASE ~(CallSend(t) \/ CallReceive(t))
  <2>1. t = o /\ pc[o] = "idle" /\ ~(config.autoRebind /\ monitoring)
    BY <1>4 DEF Call, CallOpen, CallClose, CallDestroy, CallConfigure,
       CallSetReceiveCallback, MayManage, MayCall, SingleOwner
  <2>2. config' = config \/ ~config'.autoRebind \/ ~monitoring
    BY <1>4 DEF Call, CallOpen, CallClose, CallDestroy, CallConfigure,
       CallSetReceiveCallback, transport, SingleOwner
  <2>3. /\ \A u \in Threads : pc[u] \notin Controlling
        /\ hmObj # NoThread <=> monitoring
    BY <1>1, <2>1 DEF UdpInv, ControlInv, MonitorInv, Controlling, TypeOK
  <2>4. PICK l \in {"idle", "open", "stopCas", "applyStop", "applyStart", "setcb"},
             c \in {"none", "open", "close", "destroy", "configure", "toggle", "setcb"} :
          pc' = [pc EXCEPT ![o] = l] /\ (op' = op \/ op' = [op EXCEPT ![o] = c])
    <3>1. CASE pc' = pc /\ op' = op
      BY <1>1, <2>1, <3>1 DEF TypeOK
    <3>2. CASE CallConfigure(t)
      BY <2>1, <3>1, <3>2 DEF CallConfigure, Enter
    <3> QED
      BY <1>4, <2>1, <3>2
      DEF Call, CallOpen, CallClose, CallDestroy, CallSetReceiveCallback, Enter
  <2>5. ControlInv(o)'
    BY <1>1, <1>2, <2>1, <2>2, <2>3, <2>4 DEF UdpInv, ControlInv, Controlling, TypeOK
  <2>6. MonitorInv(o)'
    BY <1>1, <1>2, <2>1, <2>2, <2>3, <2>4
    DEF UdpInv, MonitorInv, Controlling, TypeOK, Threads
  <2>7. ReaderInv'
    BY <1>1, <1>2, <2>1, <2>3, <2>4 DEF UdpInv, ReaderInv, Controlling, TypeOK, Threads
  <2> QED
    BY <1>1, <2>5, <2>6, <2>7 DEF UdpInv
<1> QED
  BY <1>3, <1>4

LEMMA UdpInvAlways ==
  ASSUME NEW o, SingleOwner(o)
  PROVE  Spec => []UdpInv(o)
<1>1. Init => UdpInv(o)
  BY InitType, ThreadsAssumption
  DEF Init, UdpInv, ControlInv, MonitorInv, ReaderInv, Controlling, SingleOwner, Threads
<1>2. UdpInv(o) /\ [Next]_vars => UdpInv(o)'
  <2> SUFFICES ASSUME UdpInv(o), [Next]_vars PROVE UdpInv(o)'
    OBVIOUS
  <2>1. TypeOK'
    BY NextType DEF UdpInv
  <2>2. CASE UNCHANGED vars \/ Idles
    BY <2>1, <2>2 DEF vars, Idles, transport, UdpInv, ControlInv, MonitorInv, ReaderInv
  <2>3. ASSUME NEW t \in Threads, Lifecycle(t) \/ Unbind(t) PROVE UdpInv(o)'
    BY <2>1, <2>3, LifecycleControl, LifecycleMonitor, LifecycleReader DEF UdpInv
  <2> QED
    BY <2>2, <2>3, CallStep, DataStep, MonitorStep DEF Next, Step, Monitor, Destroyed
<1> QED
  BY <1>1, <1>2, PTL DEF Spec

\* With one controlling thread that leaves a transport whose monitor may re-bind
\* it alone, no call and no re-bind ends the process, for every number of threads
\* that send and receive.
THEOREM SingleOwnerNeverTerminates ==
  ASSUME NEW o, SingleOwner(o)
  PROVE  Spec => []NoTerminate
<1>1. UdpInv(o) => NoTerminate
  BY DEF UdpInv, ControlInv, NoTerminate, Aborted
<1> QED
  BY <1>1, UdpInvAlways, PTL

\* Under the same discipline a transport without a socket has no receive thread,
\* and a monitor only to try the re-bind again.
THEOREM SingleOwnerClosedIsQuiet ==
  ASSUME NEW o, SingleOwner(o)
  PROVE  Spec => []ClosedIsQuiet
<1>1. UdpInv(o) => ClosedIsQuiet
  <2>1. NoThread \notin Threads /\ o \in Threads
    BY ThreadsAssumption DEF SingleOwner, Threads
  <2> QED
    BY <2>1 DEF UdpInv, ClosedIsQuiet, Settled, Controlling, LiveReaders, LiveMonitors,
                MonitorInv, ReaderInv, TypeOK, Threads
<1> QED
  BY <1>1, UdpInvAlways, PTL

-----------------------------------------------------------------------------
(* Whether the transport reads in the background. *)

LEMMA LifecycleReading ==
  ASSUME NEW o, SingleOwner(o), UdpInv(o), ReadingInv(o),
         NEW t \in Threads, Lifecycle(t) \/ Unbind(t)
  PROVE  ReadingInv(o)'
<1>1. /\ pc[t] \in Controlling /\ TypeOK
      /\ o \in App /\ o \in Threads /\ NoThread \notin Threads
      /\ o \notin Rx /\ o \notin Hm /\ App \cap Hm = {} /\ Rx \cap Hm = {}
  BY ThreadsAssumption, LifecycleControls DEF SingleOwner, Threads, UdpInv
<1>2. Alone(o, t)
  BY <1>1, ControllersAreAlone
<1> USE DEF UdpInv, ReadingInv, ReaderInv, ControlInv, MonitorInv, Spawns,
     Alone, Controlling, TypeOK, Threads
<1>3. CASE OpenAlready(t)
  BY <1>1, <1>2, <1>3 DEF OpenAlready, Return, Enter, ReturnPoint, transport
<1>4. CASE OpenFails(t)
  BY <1>1, <1>2, <1>4 DEF OpenFails, Return, Enter, ReturnPoint, transport
<1>5. CASE OpenSucceeds(t)
  BY <1>1, <1>2, <1>5 DEF OpenSucceeds, Goto
<1>6. CASE CheckLaunch(t)
  BY <1>1, <1>2, <1>6 DEF CheckLaunch, Goto, Return, Enter, ReturnPoint,
     transport
<1>7. CASE ApplyConfig(t)
  BY <1>1, <1>2, <1>7 DEF ApplyConfig, Goto, Return, Enter, ReturnPoint,
     transport
<1>8. CASE StartCheck(t)
  BY <1>1, <1>2, <1>8 DEF StartCheck, AfterStart, Goto, Return, Enter,
     ReturnPoint, ShouldSpawnReceiveThread, transport
<1>9. CASE StartCas(t)
  BY <1>1, <1>2, <1>9 DEF StartCas, AfterStart, Goto, Return, Enter, ReturnPoint
<1>10. CASE Spawn(t)
  BY <1>1, <1>2, <1>10 DEF Spawn, Goto, ReturnPoint
<1>11. CASE ScheduleHealthCheck(t)
  BY <1>1, <1>2, <1>11 DEF ScheduleHealthCheck, Goto, Return, Enter, ReturnPoint
<1>12. CASE SpawnMonitor(t)
  BY <1>1, <1>2, <1>12 DEF SpawnMonitor, Goto, ReturnPoint
<1>13. CASE StopCas(t)
  BY <1>1, <1>2, <1>13 DEF StopCas, Goto, AfterStop, StopNext, Enter,
     ReturnPoint
<1>14. CASE Join(t)
  BY <1>1, <1>2, <1>14 DEF Join, Goto, AfterStop, StopNext, Enter, ReturnPoint
<1>15. CASE StopHealthMonitor(t)
  BY <1>1, <1>2, <1>15 DEF StopHealthMonitor, Goto
<1>16. CASE JoinMonitor(t)
  BY <1>1, <1>2, <1>16 DEF JoinMonitor, Goto
<1>17. CASE ResetHandle(t)
  BY <1>1, <1>2, <1>17 DEF ResetHandle, ResetsHandle, Goto, Return, Enter,
     ReturnPoint
<1>18. CASE DestructorJoin(t)
  BY <1>1, <1>2, <1>18 DEF DestructorJoin
<1>19. CASE Unbind(t)
  BY <1>1, <1>2, <1>19 DEF Unbind, ResetsHandle, Goto
<1> QED
  BY <1>3, <1>4, <1>5, <1>6, <1>7, <1>8, <1>9, <1>10, <1>11, <1>12, <1>13,
     <1>14, <1>15, <1>16, <1>17, <1>18, <1>19 DEF Lifecycle

LEMMA NextReading ==
  ASSUME NEW o, SingleOwner(o), UdpInv(o), ReadingInv(o), [Next]_vars
  PROVE  ReadingInv(o)'
<1>1. TypeOK /\ o \in Threads /\ o \notin Rx /\ o \notin Hm
  BY ThreadsAssumption DEF UdpInv, SingleOwner, Threads
<1>2. ASSUME NEW t \in Threads, Data(t) \/ Tick(t) \/ CheckHealth(t) \/ AttemptRebind(t)
      PROVE  ReadingInv(o)'
  <2> USE DEF ReceiveLoop, NotifyReturns, Snapshot, SendWithoutDestination, SendTransfers,
              ReceiveDatagram, ReceiveNothing, ReceiveFails, Tick, CheckHealth, AttemptRebind,
              Goto, Return, Enter
  <2>1. UNCHANGED transport /\ pc[t] \notin Controlling
    BY <1>2 DEF Data, Controlling
  <2>2. \A u \in Threads : u # t => pc'[u] = pc[u] /\ op'[u] = op[u]
    BY <1>1, <1>2 DEF Data, TypeOK
  <2>3. t = o => pc'[t] \notin {"applyStop", "stopCas", "join"}
    BY <1>1, <1>2 DEF Data, ReturnPoint, TypeOK, SingleOwner, UdpInv, ControlInv
  <2>4. t \in Rx /\ pc'[t] = "done" => pc[t] = "done" \/ ~running
    BY <1>1, <1>2, ThreadsAssumption
    DEF Data, ReturnPoint, TypeOK, UdpInv, ControlInv
  <2> HIDE DEF ReceiveLoop, NotifyReturns, Snapshot, SendWithoutDestination, SendTransfers,
               ReceiveDatagram, ReceiveNothing, ReceiveFails, Tick, CheckHealth, AttemptRebind
  <2> QED
    BY <1>1, <2>1, <2>2, <2>3, <2>4
    DEF ReadingInv, Spawns, Controlling, transport, Threads
<1>3. ASSUME NEW t \in Threads, CallSend(t) \/ CallReceive(t) PROVE ReadingInv(o)'
  <2>1. /\ UNCHANGED transport /\ pc[t] \in {"idle", "notify"}
        /\ pc' \in {pc, [pc EXCEPT ![t] = "snapshot"]}
        /\ \A u \in Threads : u # t => op'[u] = op[u]
        /\ t = o /\ pc' = pc => op'[o] = op[o]
    BY <1>1, <1>3 DEF CallSend, CallReceive, MayCall, Enter, TypeOK
  <2> QED
    BY <1>1, <2>1 DEF ReadingInv, Spawns, TypeOK, Threads, transport
<1>4. ASSUME NEW t \in Threads, Call(t), ~(CallSend(t) \/ CallReceive(t))
      PROVE  ReadingInv(o)'
  <2> USE DEF ReadingInv, Spawns, TypeOK, Threads, Enter
  <2>1. t = o /\ pc[o] = "idle"
    BY <1>4 DEF Call, CallOpen, CallClose, CallDestroy, CallConfigure,
       CallSetReceiveCallback, MayManage, MayCall, SingleOwner
  <2>2. CASE CallOpen(o) \/ CallClose(o) \/ CallDestroy(o)
    BY <1>1, <2>1, <2>2 DEF CallOpen, CallClose, CallDestroy, transport
  <2>3. CASE CallSetReceiveCallback(o)
    BY <1>1, <2>1, <2>3 DEF CallSetReceiveCallback
  <2>4. CASE CallConfigure(o)
    BY <1>1, <2>1, <2>4 DEF CallConfigure
  <2> QED
    BY <1>4, <2>1, <2>2, <2>3, <2>4 DEF Call
<1>5. CASE UNCHANGED vars \/ Idles
  BY <1>5 DEF vars, Idles, transport, ReadingInv, Spawns
<1> QED
  BY <1>2, <1>3, <1>4, <1>5, LifecycleReading DEF Next, Step, Monitor, Destroyed

\* Under the same discipline no re-bind, re-configuration or change of the
\* callback loses the receive thread.
THEOREM SingleOwnerReads ==
  ASSUME NEW o, SingleOwner(o)
  PROVE  Spec => []OpenMeansReading
<1>1. Init => ReadingInv(o)
  BY ThreadsAssumption DEF Init, ReadingInv, SingleOwner, Threads
<1>2. UdpInv(o) /\ ReadingInv(o) /\ [Next]_vars => ReadingInv(o)'
  BY NextReading
<1>3. UdpInv(o) /\ ReadingInv(o) => OpenMeansReading
  <2> SUFFICES ASSUME UdpInv(o), ReadingInv(o), Settled, handle, Spawns(config), hasCb
               PROVE  running /\ rxObj # NoThread /\ pc[rxObj] # "done"
    BY DEF OpenMeansReading
  <2>1. \A c \in Threads : pc[c] \notin Controlling
    BY DEF Settled
  <2>2. running
    BY <2>1 DEF ReadingInv, Controlling
  <2>3. rxObj # NoThread
    BY <2>1, <2>2 DEF UdpInv, ReaderInv, Controlling
  <2> QED
    BY <2>2, <2>3 DEF ReadingInv, UdpInv, TypeOK
<1> QED
  BY <1>1, <1>2, <1>3, UdpInvAlways, PTL DEF Spec

-----------------------------------------------------------------------------
(* The transport implements the contract of ICommunication. *)

LEMMA NextImplements ==
  ASSUME NEW o, SingleOwner(o), UdpInv(o), [Next]_vars
  PROVE  [Contract!Next]_Contract!vars
<1> USE DEF Goto, Return, Enter, ReturnPoint
<1>1. TypeOK /\ NoThread \notin Rx /\ Rx \cap Hm = {} /\ o \notin Rx
  BY ThreadsAssumption DEF UdpInv, SingleOwner, Threads
<1>2. rxObj = NoThread => LiveReaders = {}
  BY <1>1 DEF UdpInv, ReaderInv, LiveReaders
<1>3. ASSUME handle' = handle,
             \A r \in Rx : pc'[r] # "absent" <=> pc[r] # "absent"
      PROVE  UNCHANGED Contract!vars
  BY <1>3 DEF LiveReaders, Contract!vars
<1>4. ASSUME NEW t \in Threads, Call(t) PROVE UNCHANGED Contract!vars
  <2>1. handle' = handle /\ pc[t] # "absent"
    BY <1>4
    DEF Call, CallOpen, CallClose, CallDestroy, CallConfigure, MayManage, MayCall,
         CallSetReceiveCallback, CallSend, CallReceive, transport
  <2>2. \A u \in Threads : pc'[u] # "absent" <=> pc[u] # "absent"
    BY <1>1, <1>4, <2>1 DEF Call, CallOpen, CallClose, CallDestroy, CallConfigure,
         CallSetReceiveCallback, CallSend, CallReceive, TypeOK
  <2> QED
    BY <1>3, <2>1, <2>2 DEF Threads
<1>5. ASSUME NEW t \in Threads,
             Data(t) \/ Tick(t) \/ CheckHealth(t) \/ AttemptRebind(t)
      PROVE  UNCHANGED Contract!vars
  <2> USE DEF ReceiveLoop, NotifyReturns, Snapshot, SendWithoutDestination, SendTransfers,
              ReceiveDatagram, ReceiveNothing, ReceiveFails, Tick, CheckHealth, AttemptRebind
  <2>1. handle' = handle /\ pc[t] # "absent"
    BY <1>5 DEF Data, transport
  <2>2. \A u \in Threads : pc'[u] # "absent" <=> pc[u] # "absent"
    BY <1>1, <1>5, <2>1 DEF Data, TypeOK
  <2> HIDE DEF ReceiveLoop, NotifyReturns, Snapshot, SendWithoutDestination, SendTransfers,
               ReceiveDatagram, ReceiveNothing, ReceiveFails, Tick, CheckHealth, AttemptRebind
  <2> QED
    BY <1>3, <2>1, <2>2 DEF Threads
<1>6. ASSUME NEW t \in Threads,
             \/ OpenAlready(t) \/ OpenFails(t) \/ CheckLaunch(t) \/ ApplyConfig(t)
             \/ StartCheck(t) \/ StartCas(t) \/ ScheduleHealthCheck(t) \/ SpawnMonitor(t)
             \/ StopCas(t) \/ StopHealthMonitor(t) \/ JoinMonitor(t)
      PROVE  UNCHANGED Contract!vars
  <2> USE DEF OpenAlready, OpenFails, CheckLaunch, ApplyConfig, StartCheck, StartCas,
              ScheduleHealthCheck, SpawnMonitor, StopCas, StopHealthMonitor, JoinMonitor
  <2>1. handle' = handle /\ pc[t] # "absent"
    BY <1>6 DEF transport, AfterStart, AfterStop
  <2>2. CASE ~(SpawnMonitor(t) \/ JoinMonitor(t))
    BY <1>1, <1>3, <1>6, <2>1, <2>2 DEF AfterStart, AfterStop, StopNext, TypeOK, Threads
  <2>3. CASE SpawnMonitor(t) \/ JoinMonitor(t)
    BY <1>1, <1>3, <2>1, <2>3 DEF TypeOK, Threads
  <2> QED
    BY <1>6, <2>2, <2>3
<1>7. ASSUME NEW t \in Threads, OpenSucceeds(t) \/ ResetHandle(t) \/ Unbind(t)
      PROVE  [Contract!Next]_Contract!vars
  <2>1. pc[t] \in Controlling /\ pc[t] \in {"open", "reset", "unbind"}
    BY <1>7 DEF OpenSucceeds, ResetHandle, Unbind, Controlling
  <2>2. Alone(o, t)
    BY <2>1, ControllersAreAlone
  <2>3. rxObj = NoThread
    BY <1>7, <2>1, <2>2
    DEF Alone, UdpInv, ReaderInv, OpenSucceeds, ResetHandle, Unbind, Controlling
  <2>4. LiveReaders = {} /\ LiveReaders' = {}
    BY <1>1, <1>2, <1>7, <2>1, <2>3
    DEF OpenSucceeds, ResetHandle, ResetsHandle, Unbind, LiveReaders, TypeOK, Threads
  <2>5. CASE OpenSucceeds(t)
    BY <2>4, <2>5 DEF OpenSucceeds, Contract!Next, Contract!Open
  <2>6. CASE ResetHandle(t) \/ Unbind(t)
    <3>1. handle' = FALSE
      BY <2>6 DEF ResetHandle, Unbind, ResetsHandle
    <3>2. CASE handle
      BY <2>4, <3>1, <3>2 DEF Contract!Next, Contract!Close
    <3>3. CASE ~handle
      BY <1>1, <2>4, <3>1, <3>3 DEF Contract!vars, TypeOK
    <3> QED
      BY <3>2, <3>3
  <2> QED
    BY <1>7, <2>5, <2>6
<1>8. ASSUME NEW t \in Threads, Spawn(t) PROVE [Contract!Next]_Contract!vars
  <2>1. handle /\ handle' = handle /\ rxObj = NoThread
    BY <1>8 DEF Spawn, UdpInv, ReaderInv
  <2>2. LiveReaders = {} /\ LiveReaders' # {}
    BY <1>1, <1>2, <1>8, <2>1 DEF Spawn, LiveReaders, TypeOK, Threads
  <2> QED
    BY <2>1, <2>2 DEF Contract!Next, Contract!StartReader
<1>9. ASSUME NEW t \in Threads, Join(t) PROVE [Contract!Next]_Contract!vars
  <2>1. pc[t] = "join" /\ handle' = handle /\ pc[t] \in Controlling /\ NoThread \notin Threads
    BY <1>9, ThreadsAssumption DEF Join, Controlling
  <2>2. t \notin Rx
    BY <1>1, <2>1, ControllersAreAlone DEF Alone
  <2>3. CASE rxObj = NoThread
    BY <1>1, <1>3, <1>9, <2>1, <2>2, <2>3
    DEF Join, AfterStop, StopNext, TypeOK, Threads
  <2>4. CASE rxObj \in Rx
    <3>1. /\ pc[rxObj] = "done"
          /\ pc' = [pc EXCEPT ![rxObj] = "absent", ![t] = StopNext(t)]
      BY <1>1, <1>9, <2>1, <2>2, <2>4 DEF Join
    <3>2. LiveReaders # {} /\ LiveReaders' = {}
      BY <1>1, <2>2, <2>4, <3>1 DEF LiveReaders, UdpInv, ReaderInv, TypeOK, Threads
    <3> QED
      BY <2>1, <3>2 DEF Contract!Next, Contract!StopReader
  <2> QED
    BY <1>1, <2>3, <2>4 DEF TypeOK
<1>10. ASSUME NEW t \in Threads, DestructorJoin(t) PROVE [Contract!Next]_Contract!vars
  <2>1. pc[t] \in Controlling /\ pc[t] = "dtorJoin"
    BY <1>10 DEF DestructorJoin, Controlling
  <2>2. Alone(o, t)
    BY <2>1, ControllersAreAlone
  <2>3. rxObj = NoThread
    BY <2>1, <2>2 DEF Alone, UdpInv, ReaderInv, Controlling
  <2>4. LiveReaders' = {} /\ LiveReaders = {} /\ handle' = handle
    BY <1>1, <1>2, <1>10, <2>3 DEF DestructorJoin, LiveReaders, TypeOK, Threads
  <2> QED
    BY <2>4 DEF Contract!vars
<1>11. CASE UNCHANGED vars \/ Idles
  BY <1>11 DEF vars, Idles, transport, LiveReaders, Contract!vars
<1> QED
  BY <1>4, <1>5, <1>6, <1>7, <1>8, <1>9, <1>10, <1>11
  DEF Next, Step, Lifecycle, Monitor, Destroyed

\* Under the same discipline the transport, re-binds included, keeps the
\* contract every transport promises.
THEOREM ContractKept ==
  ASSUME NEW o, SingleOwner(o)
  PROVE  Spec => ImplementsContract
<1>1. Init => Contract!Init
  BY ThreadsAssumption DEF Init, Contract!Init, LiveReaders, Threads
<1>2. UdpInv(o) /\ [Next]_vars => [Contract!Next]_Contract!vars
  BY NextImplements
<1> QED
  BY <1>1, <1>2, UdpInvAlways, PTL DEF Spec, ImplementsContract, Contract!Spec
=============================================================================
