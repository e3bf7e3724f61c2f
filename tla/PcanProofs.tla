---------------------------- MODULE PcanProofs ----------------------------
(***************************************************************************)
(* Theorems about Pcan, for every value of its constants.                  *)
(***************************************************************************)
EXTENDS Pcan, TLAPS

-----------------------------------------------------------------------------
(* Type correctness. *)

LEMMA InitType == Init => AttemptInv
<1> SUFFICES ASSUME Init PROVE AttemptInv
  OBVIOUS
<1>1. \A t \in Threads : (IF t \in App THEN "idle" ELSE "absent") \in Labels
  BY DEF Labels
<1>2. pc \in [Threads -> Labels] /\ op \in [Threads -> Ops]
  BY <1>1 DEF Init, Ops
<1>3. config \in Config /\ attempt \in [Threads -> 0 .. MaxAttempts]
  BY ConfigsAssumption, BuildAssumption DEF Init
<1>4. TypeOK
  BY <1>2, <1>3 DEF Init, TypeOK
<1> QED
  BY <1>4 DEF Init, AttemptInv

LEMMA CallType ==
  ASSUME AttemptInv, NEW t \in Threads, Call(t)
  PROVE  AttemptInv'
<1>1. TypeOK /\ Configs \subseteq Config
  BY ConfigsAssumption DEF AttemptInv
<1> USE DEF AttemptInv, TypeOK, transport, Labels, Ops
<1>2. CASE CallOpen(t)
  BY <1>1, <1>2 DEF CallOpen, MayCall, Enter
<1>3. CASE CallClose(t)
  BY <1>1, <1>3 DEF CallClose, MayCall, Enter
<1>4. CASE CallDestroy(t)
  BY <1>1, <1>4 DEF CallDestroy, MayCall, Enter
<1>5. CASE CallConfigure(t)
  BY <1>1, <1>5 DEF CallConfigure, MayCall, Enter
<1>6. CASE CallSetReceiveCallback(t)
  BY <1>1, <1>6 DEF CallSetReceiveCallback, MayCall, Enter
<1>7. CASE CallSend(t)
  BY <1>1, <1>7 DEF CallSend, MayCall, Enter, Begins
<1>8. CASE CallReceive(t)
  BY <1>1, <1>8 DEF CallReceive, MayCall, Enter, Begins
<1> QED
  BY <1>2, <1>3, <1>4, <1>5, <1>6, <1>7, <1>8 DEF Call

LEMMA ChannelType ==
  ASSUME AttemptInv, NEW t \in Threads, Channel(t)
  PROVE  AttemptInv'
<1>1. config.channel \in Handles
  BY DEF AttemptInv, TypeOK, Config
<1>2. MaxAttempts \in Nat
  BY BuildAssumption
<1> USE DEF AttemptInv, TypeOK, transport, Labels, Ops
<1>3. CASE InitializeCheck(t)
  BY <1>1, <1>2, <1>3 DEF InitializeCheck, Goto, Return, Enter, ReturnPoint
<1>4. CASE DriverInitialize(t)
  <2>1. CASE channels' = channels
    <3>1. healthy' = FALSE /\ lock' \in {lock, NoThread} /\ initialized' = initialized
          /\ UNCHANGED <<config, running, rxObj, hasCb, attempt, shut>>
      BY <2>1, <1>4 DEF DriverInitialize, Unlocks
    <3>2. Return(t) \/ (Goto(t, "retry") /\ attempt[t] # MaxAttempts)
      BY <2>1, <1>4 DEF DriverInitialize, NotInitialized, Goto
    <3>3. CASE Return(t)
      BY <2>1, <3>1, <3>3 DEF Return, Enter, ReturnPoint
    <3>4. CASE Goto(t, "retry") /\ attempt[t] # MaxAttempts
      <4>1. attempt[t] \in Nat /\ attempt[t] < MaxAttempts
        BY <1>2, <3>4
      <4>2. pc' = [pc EXCEPT ![t] = "retry"] /\ op' = op
        BY <3>4 DEF Goto
      <4> QED
        BY <2>1, <3>1, <4>1, <4>2
    <3> QED
      BY <3>2, <3>3, <3>4
  <2>2. CASE channels' # channels
    BY <1>1, <2>2, <1>4 DEF DriverInitialize, Goto
  <2> QED
    BY <2>1, <2>2
<1>5. CASE ApplyMode(t)
  <2>1. healthy' \in BOOLEAN /\ lock' \in {lock, NoThread}
        /\ UNCHANGED <<config, initialized, running, rxObj, hasCb, channels, attempt, shut>>
    BY <1>5 DEF ApplyMode, HealthAfter, Unlocks
  <2>2. \/ Return(t) \/ Goto(t, "halted") \/ Goto(t, "start")
        \/ Goto(t, "retry") /\ attempt[t] # MaxAttempts
    BY <1>5 DEF ApplyMode, NotInitialized, Initialized
  <2> QED
    BY <1>2, <2>1, <2>2 DEF Goto, Return, Enter, ReturnPoint
<1>6. CASE Uninitialize(t)
  BY <1>1, <1>2, <1>6 DEF Uninitialize, Goto, Return, Enter, ReturnPoint
<1>7. CASE Clear(t)
  BY <1>1, <1>2, <1>7 DEF Clear, Goto, Return, Enter, ReturnPoint
<1>8. CASE Cleared(t)
  <2>1. lock' \in {lock, NoThread} /\ shut' \in BOOLEAN
        /\ UNCHANGED <<config, healthy, initialized, running, rxObj, hasCb, channels, attempt>>
    BY <1>8 DEF Cleared, Unlocks
  <2>2. \/ Return(t) \/ Goto(t, "halted") \/ Goto(t, "dtorJoin") \/ Goto(t, "init")
        \/ Goto(t, "retry") /\ attempt[t] = 0 /\ MaxAttempts > 0
    BY <1>2, BuildAssumption, <1>8 DEF Cleared
  <2> QED
    BY <1>2, <2>1, <2>2 DEF Goto, Return, Enter, ReturnPoint
<1> QED
  BY <1>3, <1>4, <1>5, <1>6, <1>7, <1>8 DEF Channel

LEMMA LifecycleType ==
  ASSUME AttemptInv, NEW t \in Threads, Lifecycle(t)
  PROVE  AttemptInv'
<1> USE DEF AttemptInv, TypeOK, transport, Labels, Ops, Threads
<1>1. CASE Open(t)
  BY <1>1 DEF Open, Goto, Return, Enter, ReturnPoint
<1>2. CASE OpenEnd(t)
  BY <1>2 DEF OpenEnd, Goto, Return, Enter, ReturnPoint
<1>3. CASE CloseLocks(t)
  BY <1>3 DEF CloseLocks, Goto, Return, Enter, ReturnPoint
<1>4. CASE DestructorJoin(t)
  BY <1>4 DEF DestructorJoin, Goto, Return, Enter, ReturnPoint
<1>5. CASE Reinitialize(t)
  BY <1>5 DEF Reinitialize, Goto, Return, Enter, ReturnPoint
<1>6. CASE StartCheck(t)
  BY <1>6 DEF StartCheck, Goto, Return, Enter, ReturnPoint, AfterStart
<1>7. CASE StartCas(t)
  BY <1>7 DEF StartCas, Goto, Return, Enter, ReturnPoint, AfterStart
<1>8. CASE Spawn(t)
  BY <1>8 DEF Spawn, Goto, Return, Enter, ReturnPoint
<1>9. CASE StopCas(t)
  BY <1>9 DEF StopCas, Goto, Return, Enter, ReturnPoint, StopNext
<1>10. CASE Join(t)
  BY <1>10 DEF Join, Goto, Return, Enter, ReturnPoint, StopNext
<1> QED
  BY <1>1, <1>2, <1>3, <1>4, <1>5, <1>6, <1>7, <1>8, <1>9, <1>10 DEF Lifecycle

LEMMA DataType ==
  ASSUME AttemptInv, NEW t \in Threads, Data(t)
  PROVE  AttemptInv'
<1>1. MaxAttempts \in Nat \ {0}
  BY BuildAssumption
<1> USE DEF AttemptInv, TypeOK, transport, Labels, Ops
<1>2. CASE ReceiveLoop(t)
  BY <1>1, <1>2 DEF ReceiveLoop, Goto, Return, Enter, ReturnPoint, Begins
<1>3. CASE NotifyReturns(t)
  BY <1>1, <1>3 DEF NotifyReturns, Goto, Return, Enter, ReturnPoint
<1>4. CASE CheckInitialized(t)
  BY <1>1, <1>4 DEF CheckInitialized, Goto, Return, Enter, ReturnPoint
<1>5. CASE IoTransfers(t)
  BY <1>1, <1>5 DEF IoTransfers, Goto, Return, Enter, ReturnPoint
<1>6. CASE IoReturns(t)
  BY <1>1, <1>6 DEF IoReturns, Goto, Return, Enter, ReturnPoint
<1>7. CASE RecoverIfNeeded(t)
  <2>1. attempt' \in [Threads -> 0 .. MaxAttempts] /\ attempt'[t] = 0
        /\ \A u \in Threads \ {t} : attempt'[u] = attempt[u]
    BY <1>1, <1>7 DEF RecoverIfNeeded
  <2>2. pc' = [pc EXCEPT ![t] = "uninit"] /\ op' = op /\ healthy' = FALSE
        /\ UNCHANGED <<config, initialized, running, rxObj, hasCb, lock, channels, shut>>
    BY <1>7 DEF RecoverIfNeeded, Goto
  <2> QED
    BY <2>1, <2>2
<1>8. CASE Retry(t)
  BY <1>1, <1>8 DEF Retry, Goto, Return, Enter, ReturnPoint
<1> QED
  BY <1>2, <1>3, <1>4, <1>5, <1>6, <1>7, <1>8 DEF Data

LEMMA NextType == AttemptInv /\ [Next]_vars => AttemptInv'
<1> SUFFICES ASSUME AttemptInv, [Next]_vars PROVE AttemptInv'
  OBVIOUS
<1>1. CASE UNCHANGED vars
  BY <1>1 DEF AttemptInv, TypeOK, vars, transport
<1> QED
  BY <1>1, CallType, ChannelType, LifecycleType, DataType
  DEF Next, Step, Destroyed, Spins

\* Every variable keeps its type in every behaviour of the transport: a recovery
\* never makes more than MaxAttempts attempts.
THEOREM TypeCorrect == Spec => []TypeOK
<1>1. AttemptInv => TypeOK
  BY DEF AttemptInv
<1> QED
  BY <1>1, InitType, NextType, PTL DEF Spec

-----------------------------------------------------------------------------
(* The channel of a transport that one application thread controls and only *)
(* callbacks use.                                                           *)

PcanInv(o) == AttemptInv /\ ThreadInv(o) /\ ChannelInv(o)

LEMMA CallThreads ==
  ASSUME NEW o, SingleOwner(o), PcanInv(o), NEW t \in Threads, Call(t)
  PROVE  ThreadInv(o)'
<1>1. /\ TypeOK /\ NoThread \notin Threads
      /\ o \in App /\ o \in Threads /\ o \notin Rx /\ config \in Configs
      /\ Owners = {o} /\ Users \subseteq Rx
      /\ \A c, d \in Configs : c.channel = d.channel
  BY ThreadsAssumption DEF SingleOwner, Threads, PcanInv, AttemptInv, ThreadInv
<1> USE DEF PcanInv, AttemptInv, ThreadInv, ChannelInv, TypeOK, Threads,
     Controlling, Switching, transport
<1>2. CASE CallOpen(t)
  BY <1>1, <1>2 DEF CallOpen, MayCall, Enter
<1>3. CASE CallClose(t)
  BY <1>1, <1>3 DEF CallClose, MayCall, Enter
<1>4. CASE CallDestroy(t)
  BY <1>1, <1>4 DEF CallDestroy, MayCall, Enter
<1>5. CASE CallConfigure(t)
  BY <1>1, <1>5 DEF CallConfigure, MayCall, Enter
<1>6. CASE CallSetReceiveCallback(t)
  BY <1>1, <1>6 DEF CallSetReceiveCallback, MayCall, Enter
<1>7. CASE CallSend(t)
  BY <1>1, <1>7 DEF CallSend, MayCall, Enter, Begins
<1>8. CASE CallReceive(t)
  BY <1>1, <1>8 DEF CallReceive, MayCall, Enter, Begins
<1> QED
  BY <1>2, <1>3, <1>4, <1>5, <1>6, <1>7, <1>8 DEF Call

LEMMA ChannelThreads ==
  ASSUME NEW o, SingleOwner(o), PcanInv(o), NEW t \in Threads, Channel(t)
  PROVE  ThreadInv(o)'
<1>1. /\ TypeOK /\ NoThread \notin Threads
      /\ o \in App /\ o \in Threads /\ o \notin Rx /\ config \in Configs
      /\ \A c, d \in Configs : c.channel = d.channel
  BY ThreadsAssumption DEF SingleOwner, Threads, PcanInv, AttemptInv, ThreadInv
<1> USE DEF PcanInv, AttemptInv, ThreadInv, ChannelInv, TypeOK, Threads,
     Controlling, Switching, transport
<1>2. CASE InitializeCheck(t)
  BY <1>1, <1>2 DEF InitializeCheck, Goto, Return, Enter, ReturnPoint
<1>3. CASE DriverInitialize(t)
  BY <1>1, <1>3 DEF DriverInitialize, Goto, Return, Enter, ReturnPoint,
     NotInitialized, Initialized, Unlocks, HealthAfter
<1>4. CASE ApplyMode(t)
  <2>1. /\ UNCHANGED <<config, running, rxObj>> /\ pc[t] = "mode"
        /\ lock' \in {lock, IF lock = t THEN NoThread ELSE lock}
    BY <1>4 DEF ApplyMode, Unlocks
  <2>2. \/ Return(t) \/ Goto(t, "halted")
        \/ op[t] \in {"open", "configure"} /\ Goto(t, "start")
        \/ op[t] \notin {"open", "configure"} /\ Goto(t, "retry")
    BY <1>4 DEF ApplyMode, NotInitialized, Initialized
  <2>3. CASE t = o
    BY <1>1, <2>1, <2>2, <2>3 DEF Goto, Return, Enter, ReturnPoint
  <2>4. CASE t # o
    BY <1>1, <2>1, <2>2, <2>4 DEF Goto, Return, Enter, ReturnPoint
  <2> QED
    BY <2>3, <2>4
<1>5. CASE Uninitialize(t)
  BY <1>1, <1>5 DEF Uninitialize, Goto, Return, Enter, ReturnPoint
<1>6. CASE Clear(t)
  BY <1>1, <1>6 DEF Clear, Goto, Return, Enter, ReturnPoint
<1>7. CASE Cleared(t)
  BY <1>1, <1>7 DEF Cleared, Goto, Return, Enter, ReturnPoint, Unlocks
<1> QED
  BY <1>2, <1>3, <1>4, <1>5, <1>6, <1>7 DEF Channel

LEMMA LifecycleThreads ==
  ASSUME NEW o, SingleOwner(o), PcanInv(o), NEW t \in Threads, Lifecycle(t)
  PROVE  ThreadInv(o)'
<1>1. /\ TypeOK /\ NoThread \notin Threads
      /\ o \in App /\ o \in Threads /\ o \notin Rx /\ config \in Configs
      /\ \A c, d \in Configs : c.channel = d.channel
  BY ThreadsAssumption DEF SingleOwner, Threads, PcanInv, AttemptInv, ThreadInv
<1> USE DEF PcanInv, AttemptInv, ThreadInv, ChannelInv, TypeOK, Threads,
     Controlling, Switching, transport
<1>2. CASE Open(t)
  BY <1>1, <1>2 DEF Open, Goto, Return, Enter, ReturnPoint
<1>3. CASE OpenEnd(t)
  BY <1>1, <1>3 DEF OpenEnd, Goto, Return, Enter, ReturnPoint
<1>4. CASE CloseLocks(t)
  BY <1>1, <1>4 DEF CloseLocks, Goto, Return, Enter, ReturnPoint
<1>5. CASE DestructorJoin(t)
  BY <1>1, <1>5 DEF DestructorJoin, Goto, Return, Enter, ReturnPoint
<1>6. CASE Reinitialize(t)
  BY <1>1, <1>6 DEF Reinitialize, Goto, Return, Enter, ReturnPoint
<1>7. CASE StartCheck(t)
  BY <1>1, <1>7 DEF StartCheck, Goto, Return, Enter, ReturnPoint, AfterStart
<1>8. CASE StartCas(t)
  BY <1>1, <1>8 DEF StartCas, Goto, Return, Enter, ReturnPoint, AfterStart
<1>9. CASE Spawn(t)
  BY <1>1, <1>9 DEF Spawn, Goto, Return, Enter, ReturnPoint
<1>10. CASE StopCas(t)
  BY <1>1, <1>10 DEF StopCas, Goto, Return, Enter, ReturnPoint, StopNext
<1>11. CASE Join(t)
  BY <1>1, <1>11 DEF Join, Goto, Return, Enter, ReturnPoint, StopNext
<1> QED
  BY <1>2, <1>3, <1>4, <1>5, <1>6, <1>7, <1>8, <1>9, <1>10, <1>11 DEF Lifecycle

LEMMA DataThreads ==
  ASSUME NEW o, SingleOwner(o), PcanInv(o), NEW t \in Threads, Data(t)
  PROVE  ThreadInv(o)'
<1>1. /\ TypeOK /\ NoThread \notin Threads
      /\ o \in App /\ o \in Threads /\ o \notin Rx /\ config \in Configs
      /\ \A c, d \in Configs : c.channel = d.channel
  BY ThreadsAssumption DEF SingleOwner, Threads, PcanInv, AttemptInv, ThreadInv
<1> USE DEF PcanInv, AttemptInv, ThreadInv, ChannelInv, TypeOK, Threads,
     Controlling, Switching, transport
<1>2. CASE ReceiveLoop(t)
  BY <1>1, <1>2 DEF ReceiveLoop, Goto, Return, Enter, ReturnPoint, Begins
<1>3. CASE NotifyReturns(t)
  BY <1>1, <1>3 DEF NotifyReturns, Goto, Return, Enter, ReturnPoint
<1>4. CASE CheckInitialized(t)
  BY <1>1, <1>4 DEF CheckInitialized, Goto, Return, Enter, ReturnPoint
<1>5. CASE IoTransfers(t)
  BY <1>1, <1>5 DEF IoTransfers, Goto, Return, Enter, ReturnPoint
<1>6. CASE IoReturns(t)
  BY <1>1, <1>6 DEF IoReturns, Goto, Return, Enter, ReturnPoint
<1>7. CASE RecoverIfNeeded(t)
  BY <1>1, <1>7 DEF RecoverIfNeeded, Goto, Return, Enter, ReturnPoint
<1>8. CASE Retry(t)
  BY <1>1, <1>8 DEF Retry, Goto, Return, Enter, ReturnPoint
<1> QED
  BY <1>2, <1>3, <1>4, <1>5, <1>6, <1>7, <1>8 DEF Data

LEMMA CallChannels ==
  ASSUME NEW o, SingleOwner(o), PcanInv(o), NEW t \in Threads, Call(t)
  PROVE  ChannelInv(o)'
<1>1. /\ TypeOK /\ NoThread \notin Threads
      /\ o \in App /\ o \in Threads /\ o \notin Rx /\ config \in Configs
      /\ Owners = {o} /\ Users \subseteq Rx
      /\ \A c, d \in Configs : c.channel = d.channel
  BY ThreadsAssumption DEF SingleOwner, Threads, PcanInv, AttemptInv, ThreadInv
<1> USE DEF PcanInv, AttemptInv, ThreadInv, ChannelInv, TypeOK, Threads,
     Controlling, Switching, transport
<1>2. CASE CallOpen(t)
  BY <1>1, <1>2 DEF CallOpen, MayCall, Enter
<1>3. CASE CallClose(t)
  BY <1>1, <1>3 DEF CallClose, MayCall, Enter
<1>4. CASE CallDestroy(t)
  BY <1>1, <1>4 DEF CallDestroy, MayCall, Enter
<1>5. CASE CallConfigure(t)
  BY <1>1, <1>5 DEF CallConfigure, MayCall, Enter
<1>6. CASE CallSetReceiveCallback(t)
  BY <1>1, <1>6 DEF CallSetReceiveCallback, MayCall, Enter
<1>7. CASE CallSend(t)
  BY <1>1, <1>7 DEF CallSend, MayCall, Enter, Begins
<1>8. CASE CallReceive(t)
  BY <1>1, <1>8 DEF CallReceive, MayCall, Enter, Begins
<1> QED
  BY <1>2, <1>3, <1>4, <1>5, <1>6, <1>7, <1>8 DEF Call

LEMMA ChannelChannels ==
  ASSUME NEW o, SingleOwner(o), PcanInv(o), NEW t \in Threads, Channel(t)
  PROVE  ChannelInv(o)'
<1>1. /\ TypeOK /\ NoThread \notin Threads
      /\ o \in App /\ o \in Threads /\ o \notin Rx /\ config \in Configs
      /\ \A c, d \in Configs : c.channel = d.channel
  BY ThreadsAssumption DEF SingleOwner, Threads, PcanInv, AttemptInv, ThreadInv
<1> USE DEF PcanInv, AttemptInv, ThreadInv, ChannelInv, TypeOK, Threads,
     Controlling, Switching, transport
<1>2. CASE InitializeCheck(t)
  BY <1>1, <1>2 DEF InitializeCheck, Goto, Return, Enter, ReturnPoint
<1>3. CASE DriverInitialize(t)
  BY <1>1, <1>3 DEF DriverInitialize, Goto, Return, Enter, ReturnPoint,
     NotInitialized, Initialized, Unlocks, HealthAfter
<1>4. CASE ApplyMode(t)
  <2>1. /\ pc[t] = "mode"
        /\ UNCHANGED <<config, initialized, running, rxObj, channels, shut>>
    BY <1>4 DEF ApplyMode
  <2>2. \/ Return(t) \/ Goto(t, "halted") \/ Goto(t, "start")
        \/ op[t] \notin {"open", "configure"} /\ Goto(t, "retry")
    BY <1>4 DEF ApplyMode, NotInitialized, Initialized
  <2>3. PICK l \in {"idle", "loop", "notify", "halted", "start", "retry"} :
          pc' = [pc EXCEPT ![t] = l]
    BY <2>2 DEF Goto, Return, Enter, ReturnPoint
  <2>4. CASE t = o
    BY <1>1, <2>1, <2>3, <2>4
  <2>5. CASE t # o
    BY <1>1, <2>1, <2>3, <2>5
  <2> QED
    BY <2>4, <2>5
<1>5. CASE Uninitialize(t)
  BY <1>1, <1>5 DEF Uninitialize, Goto, Return, Enter, ReturnPoint
<1>6. CASE Clear(t)
  BY <1>1, <1>6 DEF Clear, Goto, Return, Enter, ReturnPoint
<1>7. CASE Cleared(t)
  <2>1. /\ pc[t] = "cleared"
        /\ UNCHANGED <<config, initialized, running, rxObj, channels>>
    BY <1>7 DEF Cleared
  <2>2. CASE t = o
    <3>1. /\ ~initialized /\ rxObj = NoThread /\ ~running
          /\ \A r \in Rx : pc[r] = "absent"
      BY <1>1, <2>1, <2>2
    <3>2. PICK l \in {"idle", "dtorJoin", "init", "halted"} : pc' = [pc EXCEPT ![o] = l]
      BY <1>1, <2>1, <2>2, <1>7 DEF Cleared, Goto, Return, Enter, ReturnPoint
    <3>3. shut' => l # "init"
      BY <1>1, <2>2, <3>2, <1>7 DEF Cleared, Goto, Return, Enter, ReturnPoint
    <3> QED
      BY <1>1, <2>1, <2>2, <3>1, <3>2, <3>3
  <2>3. CASE t # o
    <3>1. shut' = shut
      BY <1>1, <2>1, <2>3, <1>7 DEF Cleared
    <3>2. PICK l \in {"halted", "retry"} : pc' = [pc EXCEPT ![t] = l]
      BY <1>1, <2>1, <2>3, <1>7 DEF Cleared, Goto, Return, Enter, ReturnPoint
    <3> QED
      BY <1>1, <2>1, <2>3, <3>1, <3>2
  <2> QED
    BY <2>2, <2>3
<1> QED
  BY <1>2, <1>3, <1>4, <1>5, <1>6, <1>7 DEF Channel

LEMMA LifecycleChannels ==
  ASSUME NEW o, SingleOwner(o), PcanInv(o), NEW t \in Threads, Lifecycle(t)
  PROVE  ChannelInv(o)'
<1>1. /\ TypeOK /\ NoThread \notin Threads
      /\ o \in App /\ o \in Threads /\ o \notin Rx /\ config \in Configs
      /\ \A c, d \in Configs : c.channel = d.channel
  BY ThreadsAssumption DEF SingleOwner, Threads, PcanInv, AttemptInv, ThreadInv
<1> USE DEF PcanInv, AttemptInv, ThreadInv, ChannelInv, TypeOK, Threads,
     Controlling, Switching, transport
<1>2. CASE Open(t)
  BY <1>1, <1>2 DEF Open, Goto, Return, Enter, ReturnPoint
<1>3. CASE OpenEnd(t)
  BY <1>1, <1>3 DEF OpenEnd, Goto, Return, Enter, ReturnPoint
<1>4. CASE CloseLocks(t)
  BY <1>1, <1>4 DEF CloseLocks, Goto, Return, Enter, ReturnPoint
<1>5. CASE DestructorJoin(t)
  BY <1>1, <1>5 DEF DestructorJoin, Goto, Return, Enter, ReturnPoint
<1>6. CASE Reinitialize(t)
  BY <1>1, <1>6 DEF Reinitialize, Goto, Return, Enter, ReturnPoint
<1>7. CASE StartCheck(t)
  BY <1>1, <1>7 DEF StartCheck, Goto, Return, Enter, ReturnPoint, AfterStart
<1>8. CASE StartCas(t)
  BY <1>1, <1>8 DEF StartCas, Goto, Return, Enter, ReturnPoint, AfterStart
<1>9. CASE Spawn(t)
  BY <1>1, <1>9 DEF Spawn, Goto, Return, Enter, ReturnPoint
<1>10. CASE StopCas(t)
  BY <1>1, <1>10 DEF StopCas, Goto, Return, Enter, ReturnPoint, StopNext
<1>11. CASE Join(t)
  BY <1>1, <1>11 DEF Join, Goto, Return, Enter, ReturnPoint, StopNext
<1> QED
  BY <1>2, <1>3, <1>4, <1>5, <1>6, <1>7, <1>8, <1>9, <1>10, <1>11 DEF Lifecycle

LEMMA DataChannels ==
  ASSUME NEW o, SingleOwner(o), PcanInv(o), NEW t \in Threads, Data(t)
  PROVE  ChannelInv(o)'
<1>1. /\ TypeOK /\ NoThread \notin Threads
      /\ o \in App /\ o \in Threads /\ o \notin Rx /\ config \in Configs
      /\ \A c, d \in Configs : c.channel = d.channel
  BY ThreadsAssumption DEF SingleOwner, Threads, PcanInv, AttemptInv, ThreadInv
<1> USE DEF PcanInv, AttemptInv, ThreadInv, ChannelInv, TypeOK, Threads,
     Controlling, Switching, transport
<1>2. CASE ReceiveLoop(t)
  BY <1>1, <1>2 DEF ReceiveLoop, Goto, Return, Enter, ReturnPoint, Begins
<1>3. CASE NotifyReturns(t)
  BY <1>1, <1>3 DEF NotifyReturns, Goto, Return, Enter, ReturnPoint
<1>4. CASE CheckInitialized(t)
  BY <1>1, <1>4 DEF CheckInitialized, Goto, Return, Enter, ReturnPoint
<1>5. CASE IoTransfers(t)
  BY <1>1, <1>5 DEF IoTransfers, Goto, Return, Enter, ReturnPoint
<1>6. CASE IoReturns(t)
  BY <1>1, <1>6 DEF IoReturns, Goto, Return, Enter, ReturnPoint
<1>7. CASE RecoverIfNeeded(t)
  BY <1>1, <1>7 DEF RecoverIfNeeded, Goto, Return, Enter, ReturnPoint
<1>8. CASE Retry(t)
  BY <1>1, <1>8 DEF Retry, Goto, Return, Enter, ReturnPoint
<1> QED
  BY <1>2, <1>3, <1>4, <1>5, <1>6, <1>7, <1>8 DEF Data

LEMMA PcanInvAlways ==
  ASSUME NEW o, SingleOwner(o)
  PROVE  Spec => []PcanInv(o)
<1>1. Init => PcanInv(o)
  <2> SUFFICES ASSUME Init PROVE PcanInv(o)
    OBVIOUS
  <2>1. o \in Threads /\ o \notin Rx
    BY ThreadsAssumption DEF SingleOwner, Threads
  <2>2. ThreadInv(o)
    BY <2>1, ThreadsAssumption
    DEF Init, ThreadInv, Controlling, Switching, Threads, SingleOwner
  <2>3. ChannelInv(o)
    BY <2>1 DEF Init, ChannelInv, Threads, SingleOwner
  <2> QED
    BY <2>2, <2>3, InitType DEF PcanInv
<1>2. PcanInv(o) /\ [Next]_vars => PcanInv(o)'
  <2> SUFFICES ASSUME PcanInv(o), [Next]_vars PROVE PcanInv(o)'
    OBVIOUS
  <2>1. AttemptInv'
    BY NextType DEF PcanInv
  <2>2. CASE UNCHANGED vars
    BY <2>1, <2>2 DEF vars, transport, PcanInv, ThreadInv, ChannelInv
  <2> QED
    BY <2>1, <2>2, CallThreads, ChannelThreads, LifecycleThreads, DataThreads,
       CallChannels, ChannelChannels, LifecycleChannels, DataChannels
    DEF PcanInv, Next, Step, Destroyed, Spins
<1> QED
  BY <1>1, <1>2, PTL DEF Spec

\* With one controlling thread, when only callbacks use the transport and the
\* channel stays the same: from close() to open() the driver holds no channel and
\* no receive thread is left, whatever recovery close() interrupted.
THEOREM SingleOwnerShutIsQuiet ==
  ASSUME NEW o, SingleOwner(o)
  PROVE  Spec => []ShutIsQuiet
<1>1. PcanInv(o) => ShutIsQuiet
  BY ThreadsAssumption
  DEF PcanInv, ThreadInv, ChannelInv, ShutIsQuiet, LiveReaders, Threads
<1> QED
  BY <1>1, PcanInvAlways, PTL

\* Under the same discipline initialized_ tells what the driver holds, although
\* an open() and a recovery may initialise the channel at the same time.
THEOREM SingleOwnerInitializedIsTrue ==
  ASSUME NEW o, SingleOwner(o)
  PROVE  Spec => []InitializedIsTrue
<1>1. PcanInv(o) => InitializedIsTrue
  BY DEF PcanInv, ChannelInv, InitializedIsTrue, Switching
<1> QED
  BY <1>1, PcanInvAlways, PTL

-----------------------------------------------------------------------------
(* Whether the transport reads in the background. *)

LEMMA CallReadings ==
  ASSUME NEW o, SingleOwner(o), PcanInv(o), ReadingInv(o), NEW t \in Threads, Call(t)
  PROVE  ReadingInv(o)'
<1>1. /\ TypeOK /\ NoThread \notin Threads
      /\ o \in App /\ o \in Threads /\ o \notin Rx /\ config \in Configs
      /\ Owners = {o} /\ Users \subseteq Rx
      /\ \A c, d \in Configs : c.channel = d.channel
  BY ThreadsAssumption DEF SingleOwner, Threads, PcanInv, AttemptInv, ThreadInv
<1> USE DEF PcanInv, AttemptInv, ThreadInv, ChannelInv, ReadingInv, Spawns,
     IsReceiveEnabled, Fails, TypeOK, Threads, Controlling, Switching, transport
<1>2. CASE CallOpen(t)
  BY <1>1, <1>2 DEF CallOpen, MayCall, Enter
<1>3. CASE CallClose(t)
  BY <1>1, <1>3 DEF CallClose, MayCall, Enter
<1>4. CASE CallDestroy(t)
  BY <1>1, <1>4 DEF CallDestroy, MayCall, Enter
<1>5. CASE CallConfigure(t)
  BY <1>1, <1>5 DEF CallConfigure, MayCall, Enter
<1>6. CASE CallSetReceiveCallback(t)
  BY <1>1, <1>6 DEF CallSetReceiveCallback, MayCall, Enter
<1>7. CASE CallSend(t)
  BY <1>1, <1>7 DEF CallSend, MayCall, Enter, Begins
<1>8. CASE CallReceive(t)
  BY <1>1, <1>8 DEF CallReceive, MayCall, Enter, Begins
<1> QED
  BY <1>2, <1>3, <1>4, <1>5, <1>6, <1>7, <1>8 DEF Call

LEMMA ChannelReadings ==
  ASSUME NEW o, SingleOwner(o), PcanInv(o), ReadingInv(o), NEW t \in Threads, Channel(t)
  PROVE  ReadingInv(o)'
<1>1. /\ TypeOK /\ NoThread \notin Threads
      /\ o \in App /\ o \in Threads /\ o \notin Rx /\ config \in Configs
      /\ \A c, d \in Configs : c.channel = d.channel
  BY ThreadsAssumption DEF SingleOwner, Threads, PcanInv, AttemptInv, ThreadInv
<1> USE DEF PcanInv, AttemptInv, ThreadInv, ChannelInv, ReadingInv, Spawns,
     IsReceiveEnabled, Fails, TypeOK, Threads, Controlling, Switching, transport
<1>2. CASE InitializeCheck(t)
  BY <1>1, <1>2 DEF InitializeCheck, Goto, Return, Enter, ReturnPoint
<1>3. CASE DriverInitialize(t)
  BY <1>1, <1>3 DEF DriverInitialize, Goto, Return, Enter, ReturnPoint,
     NotInitialized, Initialized, Unlocks, HealthAfter
<1>4. CASE ApplyMode(t)
  <2>1. /\ pc[t] = "mode"
        /\ UNCHANGED <<config, initialized, running, rxObj, hasCb>>
    BY <1>4 DEF ApplyMode
  <2>2. PICK l \in {"idle", "loop", "notify", "halted", "start", "retry"} :
          pc' = [pc EXCEPT ![t] = l]
    BY <1>4 DEF ApplyMode, NotInitialized, Initialized, Goto, Return, Enter, ReturnPoint
  <2>3. CASE t = o
    <3>1. initialized /\ op[o] \in {"open", "configure"}
      BY <1>1, <2>1, <2>3
    <3>2. config.modes \/ l \in {"halted", "start"}
      BY <1>1, <2>1, <2>2, <2>3, <3>1, <1>4 DEF ApplyMode, Initialized, Goto
    <3> QED
      BY <1>1, <2>1, <2>2, <2>3, <3>2
  <2>4. CASE t # o
    BY <1>1, <2>1, <2>2, <2>4
  <2> QED
    BY <2>3, <2>4
<1>5. CASE Uninitialize(t)
  BY <1>1, <1>5 DEF Uninitialize, Goto, Return, Enter, ReturnPoint
<1>6. CASE Clear(t)
  BY <1>1, <1>6 DEF Clear, Goto, Return, Enter, ReturnPoint
<1>7. CASE Cleared(t)
  BY <1>1, <1>7 DEF Cleared, Goto, Return, Enter, ReturnPoint, Unlocks
<1> QED
  BY <1>2, <1>3, <1>4, <1>5, <1>6, <1>7 DEF Channel

LEMMA LifecycleReadings ==
  ASSUME NEW o, SingleOwner(o), PcanInv(o), ReadingInv(o),
         NEW t \in Threads, Lifecycle(t)
  PROVE  ReadingInv(o)'
<1>1. /\ TypeOK /\ NoThread \notin Threads
      /\ o \in App /\ o \in Threads /\ o \notin Rx /\ config \in Configs
      /\ \A c, d \in Configs : c.channel = d.channel
  BY ThreadsAssumption DEF SingleOwner, Threads, PcanInv, AttemptInv, ThreadInv
<1> USE DEF PcanInv, AttemptInv, ThreadInv, ChannelInv, ReadingInv, Spawns,
     IsReceiveEnabled, Fails, TypeOK, Threads, Controlling, Switching, transport
<1>2. CASE Open(t)
  BY <1>1, <1>2 DEF Open, Goto, Return, Enter, ReturnPoint
<1>3. CASE OpenEnd(t)
  BY <1>1, <1>3 DEF OpenEnd, Goto, Return, Enter, ReturnPoint
<1>4. CASE CloseLocks(t)
  BY <1>1, <1>4 DEF CloseLocks, Goto, Return, Enter, ReturnPoint
<1>5. CASE DestructorJoin(t)
  BY <1>1, <1>5 DEF DestructorJoin, Goto, Return, Enter, ReturnPoint
<1>6. CASE Reinitialize(t)
  BY <1>1, <1>6 DEF Reinitialize, Goto, Return, Enter, ReturnPoint
<1>7. CASE StartCheck(t)
  BY <1>1, <1>7 DEF StartCheck, Goto, Return, Enter, ReturnPoint, AfterStart
<1>8. CASE StartCas(t)
  BY <1>1, <1>8 DEF StartCas, Goto, Return, Enter, ReturnPoint, AfterStart
<1>9. CASE Spawn(t)
  BY <1>1, <1>9 DEF Spawn, Goto, Return, Enter, ReturnPoint
<1>10. CASE StopCas(t)
  BY <1>1, <1>10 DEF StopCas, Goto, Return, Enter, ReturnPoint, StopNext
<1>11. CASE Join(t)
  BY <1>1, <1>11 DEF Join, Goto, Return, Enter, ReturnPoint, StopNext
<1> QED
  BY <1>2, <1>3, <1>4, <1>5, <1>6, <1>7, <1>8, <1>9, <1>10, <1>11 DEF Lifecycle

LEMMA DataReadings ==
  ASSUME NEW o, SingleOwner(o), PcanInv(o), ReadingInv(o), NEW t \in Threads, Data(t)
  PROVE  ReadingInv(o)'
<1>1. /\ TypeOK /\ NoThread \notin Threads
      /\ o \in App /\ o \in Threads /\ o \notin Rx /\ config \in Configs
      /\ \A c, d \in Configs : c.channel = d.channel
  BY ThreadsAssumption DEF SingleOwner, Threads, PcanInv, AttemptInv, ThreadInv
<1> USE DEF PcanInv, AttemptInv, ThreadInv, ChannelInv, ReadingInv, Spawns,
     IsReceiveEnabled, Fails, TypeOK, Threads, Controlling, Switching, transport
<1>2. CASE ReceiveLoop(t)
  BY <1>1, <1>2 DEF ReceiveLoop, Goto, Return, Enter, ReturnPoint, Begins
<1>3. CASE NotifyReturns(t)
  BY <1>1, <1>3 DEF NotifyReturns, Goto, Return, Enter, ReturnPoint
<1>4. CASE CheckInitialized(t)
  BY <1>1, <1>4 DEF CheckInitialized, Goto, Return, Enter, ReturnPoint
<1>5. CASE IoTransfers(t)
  BY <1>1, <1>5 DEF IoTransfers, Goto, Return, Enter, ReturnPoint
<1>6. CASE IoReturns(t)
  BY <1>1, <1>6 DEF IoReturns, Goto, Return, Enter, ReturnPoint
<1>7. CASE RecoverIfNeeded(t)
  BY <1>1, <1>7 DEF RecoverIfNeeded, Goto, Return, Enter, ReturnPoint
<1>8. CASE Retry(t)
  BY <1>1, <1>8 DEF Retry, Goto, Return, Enter, ReturnPoint
<1> QED
  BY <1>2, <1>3, <1>4, <1>5, <1>6, <1>7, <1>8 DEF Data

\* Under the same discipline a transport that is configured to read in the
\* background and has a callback reads, after any recovery and re-configuration.
THEOREM SingleOwnerReads ==
  ASSUME NEW o, SingleOwner(o)
  PROVE  Spec => []OpenMeansReading
<1>1. Init => ReadingInv(o)
  BY ThreadsAssumption DEF Init, ReadingInv, Threads
<1>2. PcanInv(o) /\ ReadingInv(o) /\ [Next]_vars => ReadingInv(o)'
  <2> SUFFICES ASSUME PcanInv(o), ReadingInv(o), [Next]_vars PROVE ReadingInv(o)'
    OBVIOUS
  <2>1. CASE UNCHANGED vars
    BY <2>1 DEF vars, transport, ReadingInv, Spawns
  <2> QED
    BY <2>1, CallReadings, ChannelReadings, LifecycleReadings, DataReadings
    DEF Next, Step, Destroyed, Spins
<1>3. PcanInv(o) /\ ReadingInv(o) => OpenMeansReading
  <2> SUFFICES ASSUME PcanInv(o), ReadingInv(o), Settled, initialized, Spawns(config),
                      ~config.modes, hasCb, \A t \in Threads : pc[t] # "halted"
               PROVE  running /\ rxObj # NoThread /\ pc[rxObj] # "done"
    BY DEF OpenMeansReading
  <2>1. o \in Threads /\ pc[o] \notin Controlling \cup Switching
    BY DEF Settled, SingleOwner, Threads
  <2>2. running
    BY <2>1 DEF ReadingInv, Controlling, Switching
  <2>3. rxObj # NoThread
    BY <2>1, <2>2 DEF PcanInv, ThreadInv, Controlling
  <2> QED
    BY <2>2, <2>3 DEF ReadingInv, PcanInv, AttemptInv, TypeOK
<1> QED
  BY <1>1, <1>2, <1>3, PcanInvAlways, PTL DEF Spec

-----------------------------------------------------------------------------
(* What every transport promises. *)

LEMMA InitImplements == Init => Contract!Init
  BY ThreadsAssumption DEF Init, Contract!Init, LiveReaders, Threads

\* A thread that moves neither starts nor ends a receive thread.
LEMMA ReadersStay ==
  ASSUME TypeOK, NEW t \in Threads, pc[t] # "absent",
         NEW l, l # "absent", pc' = pc \/ pc' = [pc EXCEPT ![t] = l]
  PROVE  LiveReaders' = LiveReaders
  BY DEF TypeOK, LiveReaders, Threads

LEMMA CallImplements ==
  ASSUME NEW o, PcanInv(o), NEW t \in Threads, Call(t)
  PROVE  UNCHANGED Contract!vars
<1>1. UNCHANGED <<shut, channels>> /\ pc[t] \in {"idle", "notify"}
  BY DEF Call, CallOpen, CallClose, CallDestroy, CallConfigure, CallSetReceiveCallback,
         CallSend, CallReceive, MayCall, transport
<1>2. PICK l \in {"open", "stopCas", "reinit", "start", "check"} :
        pc' = pc \/ pc' = [pc EXCEPT ![t] = l]
  BY DEF Call, CallOpen, CallClose, CallDestroy, CallConfigure, CallSetReceiveCallback,
         CallSend, CallReceive, Enter
<1>3. LiveReaders' = LiveReaders
  BY <1>1, <1>2, ReadersStay DEF PcanInv, AttemptInv
<1> QED
  BY <1>1, <1>3 DEF Contract!vars

LEMMA DataImplements ==
  ASSUME NEW o, PcanInv(o), NEW t \in Threads, Data(t)
  PROVE  UNCHANGED Contract!vars
<1>1. UNCHANGED <<shut, channels>> /\ pc[t] # "absent"
  BY DEF Data, ReceiveLoop, NotifyReturns, CheckInitialized, IoTransfers, IoReturns,
         RecoverIfNeeded, Retry, transport
<1>2. PICK l \in {"idle", "loop", "notify", "done", "check", "io", "uninit", "init"} :
        pc' = [pc EXCEPT ![t] = l]
  BY DEF Data, ReceiveLoop, NotifyReturns, CheckInitialized, IoTransfers, IoReturns,
         RecoverIfNeeded, Retry, Goto, Return, Enter, ReturnPoint
<1>3. LiveReaders' = LiveReaders
  BY <1>1, <1>2, ReadersStay DEF PcanInv, AttemptInv
<1> QED
  BY <1>1, <1>3 DEF Contract!vars

\* initialize() and uninitialize(), by the owner or by a receive thread that
\* recovers: the channel is the link, and the end of close() finds none.
LEMMA ChannelImplements ==
  ASSUME NEW o, SingleOwner(o), PcanInv(o), NEW t \in Threads, Channel(t)
  PROVE  [Contract!Next]_Contract!vars
<1>1. /\ TypeOK /\ o \in Threads /\ o \notin Rx /\ NoThread \notin Threads
      /\ ThreadInv(o) /\ ChannelInv(o)
  BY ThreadsAssumption DEF SingleOwner, Threads, PcanInv, AttemptInv
<1>2. pc[t] \in Switching
  BY DEF Channel, InitializeCheck, DriverInitialize, ApplyMode, Uninitialize, Clear,
         Cleared, Switching
<1>3. LiveReaders' = LiveReaders
  <2>1. PICK l \in Labels \ {"absent"} : pc' = [pc EXCEPT ![t] = l]
    BY DEF Channel, InitializeCheck, DriverInitialize, ApplyMode, Uninitialize, Clear,
           Cleared, NotInitialized, Initialized, Goto, Return, Enter, ReturnPoint, Labels
  <2> QED
    BY <1>1, <1>2, <2>1, ReadersStay DEF Switching
<1>4. channels \subseteq {config.channel}
  BY <1>1 DEF ChannelInv
<1>5. CASE DriverInitialize(t)
  <2>1. ~shut
    BY <1>1, <1>5 DEF DriverInitialize, ThreadInv, ChannelInv, Switching, Threads
  <2>2. \/ channels' = channels
        \/ channels = {} /\ channels' # {}
    BY <1>4, <1>5 DEF DriverInitialize
  <2>3. shut' = shut
    BY <1>5 DEF DriverInitialize
  <2> QED
    BY <1>3, <2>1, <2>2, <2>3 DEF Contract!Next, Contract!LinkUp, Contract!vars
<1>6. CASE Uninitialize(t)
  <2>1. shut' = shut
    BY <1>6 DEF Uninitialize
  <2>2. channels' = channels \/ channels' = {}
    BY <1>4, <1>6 DEF Uninitialize
  <2> QED
    BY <1>3, <2>1, <2>2 DEF Contract!Next, Contract!LinkDown, Contract!vars
<1>7. CASE Cleared(t)
  <2>1. channels' = channels
    BY <1>7 DEF Cleared
  <2>2. CASE shut' = shut
    BY <1>3, <2>1, <2>2 DEF Contract!vars
  <2>3. CASE shut' # shut
    <3>1. pc[t] = "cleared" /\ op[t] \in {"close", "destroy"} /\ shut' = TRUE
      BY <1>7, <2>3 DEF Cleared
    <3>2. t = o
      BY <1>1, <3>1 DEF ThreadInv
    <3>3. ~initialized /\ channels = {} /\ ~shut
      BY <1>1, <2>3, <3>1, <3>2 DEF ChannelInv, TypeOK
    <3>4. LiveReaders = {}
      BY <1>1, <3>1, <3>2 DEF ThreadInv, LiveReaders, Threads
    <3> QED
      BY <1>3, <2>1, <3>1, <3>3, <3>4 DEF Contract!Next, Contract!Close
  <2> QED
    BY <2>2, <2>3
<1>8. CASE InitializeCheck(t) \/ ApplyMode(t) \/ Clear(t)
  <2>1. UNCHANGED <<shut, channels>>
    BY <1>8 DEF InitializeCheck, ApplyMode, Clear, transport
  <2> QED
    BY <1>3, <2>1 DEF Contract!vars
<1> QED
  BY <1>5, <1>6, <1>7, <1>8 DEF Channel

LEMMA LifecycleImplements ==
  ASSUME NEW o, SingleOwner(o), PcanInv(o), NEW t \in Threads, Lifecycle(t)
  PROVE  [Contract!Next]_Contract!vars
<1>1. /\ TypeOK /\ o \in App /\ o \in Threads /\ o \notin Rx /\ NoThread \notin Threads
      /\ ThreadInv(o) /\ ChannelInv(o)
  BY ThreadsAssumption DEF SingleOwner, Threads, PcanInv, AttemptInv
<1>2. t = o
  BY <1>1 DEF ThreadInv, Lifecycle, Open, OpenEnd, CloseLocks, DestructorJoin,
     Reinitialize, StartCheck, StartCas, Spawn, StopCas, Join, Controlling
<1>3. channels' = channels
  BY DEF Lifecycle, Open, OpenEnd, CloseLocks, DestructorJoin, Reinitialize, StartCheck,
         StartCas, Spawn, StopCas, Join, transport
<1>4. rxObj = NoThread => LiveReaders = {}
  BY <1>1 DEF ThreadInv, LiveReaders, Threads
<1>5. CASE Open(t)
  <2>1. PICK l \in {"idle", "init"} : pc' = [pc EXCEPT ![t] = l]
    BY <1>1, <1>2, <1>5 DEF Open, Goto, Return, Enter, ReturnPoint
  <2>2. LiveReaders' = LiveReaders
    BY <1>1, <1>5, <2>1, ReadersStay DEF Open
  <2>3. shut' = FALSE
    BY <1>5 DEF Open
  <2>4. shut => LiveReaders = {}
    BY <1>1, <1>4 DEF ChannelInv
  <2> QED
    BY <1>1, <1>3, <2>2, <2>3, <2>4 DEF Contract!Next, Contract!Open, Contract!vars, TypeOK
<1>6. CASE Spawn(t)
  <2>1. ~shut /\ shut' = shut /\ rxObj = NoThread /\ pc[o] = "spawn"
    BY <1>1, <1>2, <1>6 DEF Spawn, ThreadInv, ChannelInv
  <2>2. PICK r \in Rx, l \in {"idle", "openEnd"} :
          pc' = [pc EXCEPT ![r] = "loop", ![o] = l]
    BY <1>1, <1>2, <1>6, <2>1 DEF Spawn, ReturnPoint
  <2>3. r \in LiveReaders'
    BY <1>1, <2>2 DEF LiveReaders, TypeOK, Threads
  <2> QED
    BY <1>3, <1>4, <2>1, <2>3 DEF Contract!Next, Contract!StartReader
<1>7. CASE Join(t)
  <2>1. shut' = shut /\ pc[o] = "join"
    BY <1>2, <1>7 DEF Join
  <2>2. CASE rxObj = NoThread
    <3>1. PICK l \in {"uninit", "close"} : pc' = [pc EXCEPT ![o] = l]
      BY <1>1, <1>2, <1>7, <2>2 DEF Join, Goto, StopNext, Threads
    <3>2. LiveReaders' = LiveReaders
      BY <1>1, <2>1, <3>1, ReadersStay
    <3> QED
      BY <1>3, <2>1, <3>2 DEF Contract!vars
  <2>3. CASE rxObj # NoThread
    <3>1. PICK l \in {"uninit", "close"} :
            /\ rxObj \in Rx /\ pc[rxObj] = "done"
            /\ pc' = [pc EXCEPT ![rxObj] = "absent", ![o] = l]
      BY <1>1, <1>2, <1>7, <2>3 DEF Join, StopNext, TypeOK
    <3>2. rxObj \in LiveReaders /\ LiveReaders' = {}
      BY <1>1, <3>1 DEF LiveReaders, ThreadInv, TypeOK, Threads
    <3> QED
      BY <1>3, <2>1, <3>2 DEF Contract!Next, Contract!StopReader
  <2> QED
    BY <2>2, <2>3
<1>8. CASE DestructorJoin(t)
  <2>1. shut' = shut /\ pc[o] = "dtorJoin"
    BY <1>2, <1>8 DEF DestructorJoin
  <2>2. rxObj = NoThread
    BY <1>1, <2>1 DEF ThreadInv
  <2>3. LiveReaders' = LiveReaders
    BY <1>1, <1>2, <1>8, <2>2 DEF DestructorJoin, LiveReaders, TypeOK, Threads
  <2> QED
    BY <1>3, <2>1, <2>3 DEF Contract!vars
<1>9. CASE \/ OpenEnd(t) \/ CloseLocks(t) \/ Reinitialize(t) \/ StartCheck(t)
           \/ StartCas(t) \/ StopCas(t)
  <2>1. shut' = shut /\ pc[t] # "absent"
    BY <1>9 DEF OpenEnd, CloseLocks, Reinitialize, StartCheck, StartCas, StopCas
  <2>2. PICK l \in Labels \ {"absent"} : pc' = [pc EXCEPT ![t] = l]
    BY <1>9 DEF OpenEnd, CloseLocks, Reinitialize, StartCheck, StartCas, StopCas,
       AfterStart, StopNext, Goto, Return, Enter, ReturnPoint, Labels
  <2> QED
    BY <1>1, <1>3, <2>1, <2>2, ReadersStay DEF Contract!vars
<1> QED
  BY <1>5, <1>6, <1>7, <1>8, <1>9 DEF Lifecycle

\* Under the same discipline the PCAN transport implements the contract, with
\* the channel the driver holds as the link: every recovery happens inside an
\* open transport, and close() ends with no channel and no receive thread.
THEOREM ContractKept ==
  ASSUME NEW o, SingleOwner(o)
  PROVE  Spec => ImplementsContract
<1>1. PcanInv(o) /\ [Next]_vars => [Contract!Next]_Contract!vars
  <2> SUFFICES ASSUME PcanInv(o), [Next]_vars PROVE [Contract!Next]_Contract!vars
    OBVIOUS
  <2>1. CASE UNCHANGED vars
    BY <2>1 DEF vars, transport, Contract!vars, LiveReaders
  <2> QED
    BY <2>1, CallImplements, ChannelImplements, LifecycleImplements, DataImplements
    DEF Next, Step, Destroyed, Spins
<1> QED
  BY <1>1, InitImplements, PcanInvAlways, PTL DEF Spec, ImplementsContract, Contract!Spec
=============================================================================
