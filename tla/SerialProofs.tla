---------------------------- MODULE SerialProofs ----------------------------
(***************************************************************************)
(* Theorems about Serial, for every value of its constants: how far the    *)
(* transport gets before open() waits for the lock it holds.               *)
(***************************************************************************)
EXTENDS Serial, TLAPS

\* Threads of the application are no receive threads, and no thread is "none".
Identities == App \cap Rx = {} /\ NoThread \notin Threads

LEMMA CallOpening ==
  ASSUME Identities, OpeningInv, NEW t \in Threads, Call(t)
  PROVE  OpeningInv'
<1>1. UNCHANGED <<opened, running, rxObj, lock>> /\ pc[t] \in {"idle", "notify"}
  BY DEF Call, CallOpen, CallClose, CallDestroy, CallConfigure, CallSetReceiveCallback,
         CallTransfer, Calls, MayCall
<1>2. PICK l \in {"open", "stopCas", "reconfigure", "shouldSpawn", "snapshot"},
           c \in {"open", "close", "destroy", "configure", "setcb", "send", "receive"} :
        /\ pc' = [pc EXCEPT ![t] = l] /\ op' = [op EXCEPT ![t] = c]
        /\ l = "open" => c = "open"
  BY DEF Call, CallOpen, CallClose, CallDestroy, CallConfigure, CallSetReceiveCallback,
         CallTransfer, Calls, Enter
<1>3. t \in App /\ (lock # NoThread => t # lock)
  BY <1>1 DEF OpeningInv, OpenedMeansLocked, Threads
<1> QED
  BY <1>1, <1>2, <1>3 DEF OpeningInv, OpenedMeansLocked, Identities, Threads

\* A step of an application thread that lets nobody in.
LEMMA QuietOpening ==
  ASSUME Identities, OpeningInv, NEW t \in Threads, NEW l, NEW c,
         UNCHANGED <<opened, running, rxObj, lock>>,
         pc[t] # "absent", lock # t,
         l \notin {"startCas", "spawn", "join", "io", "open", "openSettings"},
         pc' = [pc EXCEPT ![t] = l],
         op' = op \/ op' = [op EXCEPT ![t] = c]
  PROVE  OpeningInv'
  BY DEF OpeningInv, OpenedMeansLocked, Identities, Threads

LEMMA StepOpening ==
  ASSUME Identities, OpeningInv, NEW t \in Threads, Step(t)
  PROVE  OpeningInv'
<1> USE DEF Goto, Return, Enter
<1>1. /\ t \in App /\ ReturnPoint(t) = "idle"
      /\ NoThread \notin Threads /\ t # NoThread
  BY DEF Step, OpeningInv, OpenedMeansLocked, Threads, Identities, Open, OpenSettings,
     Close, DestructorJoin, ShouldSpawn, StartCas, Spawn, StopCas, Join, Reconfigure, ReceiveLoop,
     NotifyReturns, Snapshot, Io, ReturnPoint
<1>2. CASE Open(t)
  <2>1. CASE lock' = lock /\ opened' = opened /\ pc' = [pc EXCEPT ![t] = "idle"]
    BY <1>1, <1>2, <2>1, QuietOpening DEF Open
  <2>2. CASE /\ opened' = TRUE /\ lock' = t /\ pc' = [pc EXCEPT ![t] = "openSettings"]
             /\ op' = op /\ lock = NoThread
    BY <1>1, <1>2, <2>2 DEF Open, OpeningInv, OpenedMeansLocked, Threads
  <2> QED
    BY <1>1, <1>2, <2>1, <2>2 DEF Open
<1>3. CASE OpenSettings(t)
  <2>1. lock = t /\ opened /\ op[t] = "open" /\ UNCHANGED <<running, rxObj>>
    BY <1>3 DEF OpenSettings, OpeningInv, OpenedMeansLocked
  <2>2. CASE /\ opened' = TRUE /\ lock' = lock /\ op' = op
             /\ pc' = [pc EXCEPT ![t] = "shouldSpawn"]
    BY <1>1, <2>1, <2>2 DEF OpeningInv, OpenedMeansLocked, Threads
  <2>3. CASE /\ opened' = FALSE /\ lock' = NoThread
             /\ pc' = [pc EXCEPT ![t] = "idle"] /\ op' = [op EXCEPT ![t] = "none"]
    BY <1>1, <2>1, <2>3 DEF OpeningInv, OpenedMeansLocked, Threads
  <2> QED
    BY <1>1, <1>3, <2>1, <2>2, <2>3 DEF OpenSettings, Unlocks, Accepted
<1>4. CASE Close(t) \/ Reconfigure(t) \/ Snapshot(t) \/ ShouldSpawn(t)
  <2>1. lock = NoThread /\ opened = FALSE
    BY <1>1, <1>4 DEF Close, Reconfigure, Snapshot, ShouldSpawn, OpeningInv, OpenedMeansLocked,
                      Threads
  <2>2. /\ UNCHANGED <<opened, running, rxObj, lock>> /\ pc[t] # "absent"
        /\ pc' = [pc EXCEPT ![t] = "idle"] \/ pc' = [pc EXCEPT ![t] = "dtorJoin"]
        /\ op' = op \/ op' = [op EXCEPT ![t] = "none"]
    BY <1>1, <1>4, <2>1 DEF Close, Reconfigure, Snapshot, ShouldSpawn
  <2> QED
    BY <1>1, <2>1, <2>2, QuietOpening
<1>5. CASE StopCas(t)
  <2>1. PICK l \in {"close", "idle"} : pc' = [pc EXCEPT ![t] = l]
    BY <1>1, <1>5 DEF StopCas, AfterStop, Closing, OpeningInv, OpenedMeansLocked
  <2>2. /\ UNCHANGED <<opened, running, rxObj, lock>> /\ pc[t] = "stopCas"
        /\ op' = op \/ op' = [op EXCEPT ![t] = "none"]
    BY <1>1, <1>5 DEF StopCas, AfterStop, Closing, OpeningInv, OpenedMeansLocked
  <2>3. lock # t
    BY <1>1, <2>2 DEF OpeningInv
  <2> QED
    BY <2>1, <2>2, <2>3, QuietOpening
<1>6. CASE ReceiveLoop(t) \/ NotifyReturns(t)
  <2>1. PICK l \in {"done", "loop"} : pc' = [pc EXCEPT ![t] = l]
    BY <1>6 DEF ReceiveLoop, NotifyReturns, OpeningInv, OpenedMeansLocked
  <2>2. /\ UNCHANGED <<opened, running, rxObj, lock, op>> /\ pc[t] \in {"loop", "notify"}
    BY <1>6 DEF ReceiveLoop, NotifyReturns
  <2>3. lock # t
    BY <1>1, <2>2 DEF OpeningInv
  <2> QED
    BY <2>1, <2>2, <2>3, QuietOpening
<1>7. CASE DestructorJoin(t)
  <2>1. /\ UNCHANGED <<opened, running, rxObj, lock, op>> /\ pc[t] = "dtorJoin"
        /\ pc' = [pc EXCEPT ![t] = "dead"]
    BY <1>1, <1>7 DEF DestructorJoin, OpeningInv, OpenedMeansLocked
  <2>2. lock # t
    BY <1>1, <2>1 DEF OpeningInv
  <2> QED
    BY <2>1, <2>2, QuietOpening
<1>8. ~(StartCas(t) \/ Spawn(t) \/ Join(t) \/ Io(t))
  BY DEF OpeningInv, StartCas, Spawn, Join, Io
<1> QED
  BY <1>2, <1>3, <1>4, <1>5, <1>6, <1>7, <1>8 DEF Step

\* Whatever threads call, an opened serial port is one whose open() has not
\* returned: its caller holds mutex_, which every later call waits for, and no
\* receive thread exists.
THEOREM OpenNeverCompletes ==
  ASSUME Identities
  PROVE  Spec => []OpenedMeansLocked
<1>1. Init => OpeningInv
  BY DEF Init, OpeningInv, OpenedMeansLocked, Threads, Identities
<1>2. OpeningInv /\ [Next]_vars => OpeningInv'
  <2> SUFFICES ASSUME OpeningInv, [Next]_vars PROVE OpeningInv'
    OBVIOUS
  <2>1. CASE UNCHANGED vars
    BY <2>1 DEF vars, OpeningInv, OpenedMeansLocked
  <2> QED
    BY <2>1, CallOpening, StepOpening DEF Next
<1>3. OpeningInv => OpenedMeansLocked
  BY DEF OpeningInv
<1> QED
  BY <1>1, <1>2, <1>3, PTL DEF Spec
=============================================================================
