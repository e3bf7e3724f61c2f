------------------------------- MODULE Serial -------------------------------
(***************************************************************************)
(* The serial transport: open(), which keeps mutex_ to its end, the        *)
(* receive thread, and a configure() that applies the terminal settings    *)
(* without mutex_.                                                         *)
(*                                                                         *)
(* A step is one critical section of mutex_, one operation on an atomic,   *)
(* or one system call.  mutex_ is a std::mutex: a thread that locks it     *)
(* again waits for itself.  A read returns after VTIME at the latest.      *)
(***************************************************************************)
EXTENDS Naturals

CONSTANTS
    App,        \* threads of the application
    Rx,         \* identities of receive threads
    NoThread,   \* "not joinable", "unlocked"
    Configs     \* configurations the application passes to configure()

Threads == App \cup Rx

\* valid: applySettings() accepts the baud rate and the parity.
Config == [spawn : BOOLEAN, valid : BOOLEAN,
           direction : {"SendOnly", "ReceiveOnly", "TwoWay"}]

VARIABLES
    config,     \* config_
    opened,     \* fileDescriptor_ >= 0
    running,    \* running_
    rxObj,      \* the thread receiveThread_ owns
    hasCb,      \* receiveCallback_ holds a callback
    healthy,    \* healthy_
    lock,       \* the thread that holds mutex_ across several steps
    pc, op      \* per thread: where it is, and in which call

vars == <<config, opened, running, rxObj, hasCb, healthy, lock, pc, op>>

Init ==
    /\ config \in Configs /\ opened = FALSE /\ running = FALSE
    /\ rxObj = NoThread /\ hasCb = FALSE /\ healthy = TRUE /\ lock = NoThread
    /\ pc = [t \in Threads |-> IF t \in App THEN "idle" ELSE "absent"]
    /\ op = [t \in Threads |-> "none"]

-----------------------------------------------------------------------------
(* Control helpers. *)

IsReceiveEnabled(d) == d \in {"ReceiveOnly", "TwoWay"}
IsSendEnabled(d) == d \in {"SendOnly", "TwoWay"}

Goto(t, label) == pc' = [pc EXCEPT ![t] = label] /\ UNCHANGED op
Enter(t, label, call) ==
    pc' = [pc EXCEPT ![t] = label] /\ op' = [op EXCEPT ![t] = call]

\* A receive thread is inside receive() of its loop when op is "none".
ReturnPoint(t) ==
    IF t \in App THEN "idle" ELSE IF op[t] = "none" THEN "loop" ELSE "notify"
Return(t) == Enter(t, ReturnPoint(t), "none")

\* std::lock_guard of open() goes out of scope.
Unlocks(t) == lock' = IF lock = t THEN NoThread ELSE lock

\* Nobody but a callback calls into an object being destroyed.
MayCall(t) ==
    /\ \A u \in Threads : op[u] # "destroy" \/ t \in Rx
    /\ pc[t] = IF t \in App THEN "idle" ELSE "notify"
Calls(t, label, call) == MayCall(t) /\ Enter(t, label, call)

-----------------------------------------------------------------------------
(* open() and close(). *)

CallOpen(t) ==
    /\ Calls(t, "open", "open")
    /\ UNCHANGED <<config, opened, running, rxObj, hasCb, healthy, lock>>

Open(t) ==
    /\ pc[t] = "open" /\ lock = NoThread
    /\ \/ opened /\ Return(t) /\ UNCHANGED <<opened, healthy, lock>>
       \/ ~opened /\ healthy' = FALSE /\ Return(t) /\ UNCHANGED <<opened, lock>>
       \/ /\ ~opened /\ opened' = TRUE /\ lock' = t
          /\ Goto(t, "openSettings") /\ UNCHANGED healthy
    /\ UNCHANGED <<config, running, rxObj, hasCb>>

\* tcgetattr and tcsetattr may fail, whatever the configuration.
Accepted == {TRUE, FALSE} \cap {config.valid, FALSE}

\* applySettings() in open(): a failure closes the descriptor again.
OpenSettings(t) ==
    /\ pc[t] = "openSettings"
    /\ \E accepted \in Accepted :
         /\ healthy' = accepted /\ opened' = accepted
         /\ IF accepted THEN Goto(t, "shouldSpawn") /\ UNCHANGED lock
                        ELSE Return(t) /\ Unlocks(t)
    /\ UNCHANGED <<config, running, rxObj, hasCb>>

CallClose(t) ==
    /\ Calls(t, "stopCas", "close")
    /\ UNCHANGED <<config, opened, running, rxObj, hasCb, healthy, lock>>

\* ~SerialPort: no other thread of the application is inside a call any more.
CallDestroy(t) ==
    /\ t \in App /\ \A u \in App : pc[u] = "idle"
    /\ Calls(t, "stopCas", "destroy")
    /\ UNCHANGED <<config, opened, running, rxObj, hasCb, healthy, lock>>

Close(t) ==
    /\ pc[t] = "close" /\ lock = NoThread
    /\ opened' = FALSE
    /\ IF op[t] = "destroy" THEN Goto(t, "dtorJoin") ELSE Return(t)
    /\ UNCHANGED <<config, running, rxObj, hasCb, healthy, lock>>

\* The destructor joins a receive thread that close() did not join.
DestructorJoin(t) ==
    /\ pc[t] = "dtorJoin"
    /\ rxObj # NoThread => pc[rxObj] = "done"
    /\ rxObj' = NoThread
    /\ pc' = [u \in Threads |-> IF u = t THEN "dead"
                                ELSE IF u = rxObj THEN "absent" ELSE pc[u]]
    /\ UNCHANGED <<config, opened, running, hasCb, healthy, lock, op>>

-----------------------------------------------------------------------------
(* startReceiveLoop() and stopReceiveLoop(). *)

\* shouldSpawnReceiveThread() locks mutex_.  Its callers test it and then call
\* startReceiveLoop(), which tests it again.
ShouldSpawn(t) ==
    /\ pc[t] = "shouldSpawn" /\ lock = NoThread
    /\ IF config.spawn /\ IsReceiveEnabled(config.direction) /\ opened /\ hasCb
         THEN Goto(t, "startCas") ELSE Return(t)
    /\ UNCHANGED <<config, opened, running, rxObj, hasCb, healthy, lock>>

\* Nothing below the test is ever reached, as SerialProofs shows.
StartCas(t) ==
    /\ pc[t] = "startCas"
    /\ running' = TRUE
    /\ IF running THEN Return(t) /\ Unlocks(t) ELSE Goto(t, "spawn") /\ UNCHANGED lock
    /\ UNCHANGED <<config, opened, rxObj, hasCb, healthy>>

\* Assigning to a joinable std::thread calls std::terminate.
Spawn(t) ==
    /\ pc[t] = "spawn"
    /\ IF rxObj # NoThread
         THEN Goto(t, "terminated") /\ UNCHANGED <<rxObj, lock>>
         ELSE /\ \E r \in Rx :
                   /\ pc[r] = "absent"
                   /\ rxObj' = r
                   /\ pc' = [pc EXCEPT ![t] = ReturnPoint(t), ![r] = "loop"]
                   /\ op' = [op EXCEPT ![t] = "none"]
              /\ Unlocks(t)
    /\ UNCHANGED <<config, opened, running, hasCb, healthy>>

\* Where a caller of stopReceiveLoop() continues.
Closing(t) == op[t] \in {"close", "destroy"}
AfterStop(t) == IF Closing(t) THEN Goto(t, "close") ELSE Return(t)

StopCas(t) ==
    /\ pc[t] = "stopCas"
    /\ running' = FALSE
    /\ IF running THEN Goto(t, "join") ELSE AfterStop(t)
    /\ UNCHANGED <<config, opened, rxObj, hasCb, healthy, lock>>

Join(t) ==
    /\ pc[t] = "join"
    /\ \/ rxObj = NoThread /\ AfterStop(t) /\ UNCHANGED rxObj
       \/ rxObj = t /\ Goto(t, "terminated") /\ UNCHANGED rxObj
       \/ /\ rxObj \in Rx \ {t} /\ pc[rxObj] = "done"
          /\ rxObj' = NoThread
          /\ pc' = [pc EXCEPT ![rxObj] = "absent",
                       ![t] = IF Closing(t) THEN "close" ELSE ReturnPoint(t)]
          /\ op' = [op EXCEPT ![t] = IF Closing(t) THEN @ ELSE "none"]
    /\ UNCHANGED <<config, opened, running, hasCb, healthy, lock>>

-----------------------------------------------------------------------------
(* configure() and setReceiveCallback(). *)

CallConfigure(t) ==
    /\ lock = NoThread
    /\ config' \in Configs
    /\ Calls(t, "reconfigure", "configure")
    /\ UNCHANGED <<opened, running, rxObj, hasCb, healthy, lock>>

\* isOpen(), then applySettings() and what follows from it without mutex_.
Reconfigure(t) ==
    /\ pc[t] = "reconfigure" /\ lock = NoThread
    /\ \/ ~opened /\ Return(t) /\ UNCHANGED healthy
       \/ opened /\ healthy' = FALSE /\ Return(t)
       \/ /\ opened /\ config.valid /\ UNCHANGED healthy
          /\ IF ~config.spawn THEN Goto(t, "stopCas")
             ELSE IF hasCb /\ IsReceiveEnabled(config.direction)
                    THEN Goto(t, "shouldSpawn") ELSE Return(t)
    /\ UNCHANGED <<config, opened, running, rxObj, hasCb, lock>>

CallSetReceiveCallback(t) ==
    /\ hasCb' \in BOOLEAN
    /\ Calls(t, "shouldSpawn", "setcb")
    /\ UNCHANGED <<config, opened, running, rxObj, healthy, lock>>

-----------------------------------------------------------------------------
(* send() and receive(). *)

CallTransfer(t) ==
    /\ \E call \in {"send", "receive"} : Calls(t, "snapshot", call)
    /\ UNCHANGED <<config, opened, running, rxObj, hasCb, healthy, lock>>

ReceiveLoop(t) ==
    /\ pc[t] = "loop"
    /\ Goto(t, IF running THEN "snapshot" ELSE "done")
    /\ UNCHANGED <<config, opened, running, rxObj, hasCb, healthy, lock>>

NotifyReturns(t) ==
    /\ pc[t] = "notify"
    /\ Goto(t, "loop")
    /\ UNCHANGED <<config, opened, running, rxObj, hasCb, healthy, lock>>

Permitted(t) == IF op[t] = "send" THEN IsSendEnabled(config.direction)
                                  ELSE IsReceiveEnabled(config.direction)

Snapshot(t) ==
    /\ pc[t] = "snapshot" /\ lock = NoThread
    /\ IF Permitted(t) /\ opened THEN Goto(t, "io") /\ UNCHANGED healthy
                                 ELSE healthy' = FALSE /\ Return(t)
    /\ UNCHANGED <<config, opened, running, rxObj, hasCb, lock>>

\* An error, a transfer, or nothing to read.
Io(t) ==
    /\ pc[t] = "io"
    /\ \/ healthy' = FALSE /\ Return(t)
       \/ healthy' \in {healthy, healthy \/ op[t] # "send"} /\ Return(t)
       \/ op[t] = "none" /\ healthy' = TRUE /\ Goto(t, "notify")
    /\ UNCHANGED <<config, opened, running, rxObj, hasCb, lock>>

-----------------------------------------------------------------------------

Call(t) ==
    \/ CallOpen(t) \/ CallClose(t) \/ CallDestroy(t) \/ CallConfigure(t)
    \/ CallSetReceiveCallback(t) \/ CallTransfer(t)

Step(t) ==
    \/ Open(t) \/ OpenSettings(t) \/ Close(t) \/ DestructorJoin(t)
    \/ ShouldSpawn(t) \/ StartCas(t) \/ Spawn(t) \/ StopCas(t) \/ Join(t)
    \/ Reconfigure(t) \/ ReceiveLoop(t) \/ NotifyReturns(t) \/ Snapshot(t) \/ Io(t)

Next == \E t \in Threads : Call(t) \/ Step(t)
Spec == Init /\ [][Next]_vars

\* Every thread inside the library is scheduled, and gets mutex_ when it is
\* free again and again.
FairSpec == Spec /\ \A t \in Threads : SF_vars(Step(t))

-----------------------------------------------------------------------------

\* As long as the descriptor is open, its opener holds mutex_ and is still
\* inside open(): no other call gets past its lock, and no receive thread runs.
OpenedMeansLocked ==
    /\ opened => \E t \in App : lock = t /\ op[t] = "open"
    /\ running = FALSE /\ rxObj = NoThread /\ \A r \in Rx : pc[r] = "absent"

\* The inductive strengthening of OpenedMeansLocked.
OpeningInv ==
    /\ DOMAIN pc = Threads /\ DOMAIN op = Threads
    /\ OpenedMeansLocked
    /\ lock # NoThread => opened /\ pc[lock] \in {"openSettings", "shouldSpawn"}
    /\ \A t \in Threads : pc[t] \notin {"startCas", "spawn", "join", "io"}
    /\ \A t \in Threads : pc[t] = "openSettings" => opened /\ lock = t
    /\ \A t \in Threads : pc[t] = "open" => op[t] = "open"

\* open() comes to an end, with or without success.
OpenReturns == \A t \in App : pc[t] = "open" ~> pc[t] = "idle"
=============================================================================
