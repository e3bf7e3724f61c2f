------------------------------- MODULE Safety -------------------------------
(***************************************************************************)
(* SafetyMixin: consecutive-error counting, the watchdog and the failsafe  *)
(* state machine, driven by the threads of a transport.  PCANBasic has the *)
(* same members and the same code.                                         *)
(*                                                                         *)
(* A step is one operation on an atomic or one critical section of the     *)
(* Watchdog's or of the FailsafeManager's mutex; recordSuccess() and       *)
(* checkWatchdog() are several of them.                                    *)
(*                                                                         *)
(* The operators named Bug... are mutations of the definition that follows *)
(* them; Next does not use them.                                           *)
(***************************************************************************)
EXTENDS Naturals

CONSTANTS
    Recorders,              \* threads that send or receive and record the outcome
    Monitors,               \* threads that call checkWatchdog, validateSequence, resets
    DegradedThreshold,      \* 3: Degraded is left for FailSafe
    FailsafeThreshold,      \* 5: Normal is left for Degraded
    EmergencyThreshold,     \* 10
    MaxConsecutiveErrors    \* 5

Threads == Recorders \cup Monitors

ASSUME ThresholdsAssumption ==
    /\ DegradedThreshold \in Nat \ {0} /\ FailsafeThreshold \in Nat
    /\ EmergencyThreshold \in Nat /\ MaxConsecutiveErrors \in Nat \ {0}
    /\ DegradedThreshold <= FailsafeThreshold
    /\ FailsafeThreshold + 1 < EmergencyThreshold

VARIABLES
    state,      \* FailsafeManager::state_
    faults,     \* faultCount_, up to EmergencyThreshold (only compared with it)
    errors,     \* consecutiveErrors_, up to MaxConsecutiveErrors
    watchdog,   \* Watchdog::state_
    overdue,    \* the last feed is longer ago than timeout_
    pc,         \* per thread: where it is
    late        \* history: how many faults were reported between the two
                \* halves of the last recovery

manager == <<state, faults>>
history == <<late>>
vars == <<manager, errors, watchdog, overdue, pc, history>>

States == {"Normal", "Degraded", "FailSafe", "Emergency"}
Severity(s) == CASE s = "Normal" -> 0 [] s = "Degraded" -> 1
                 [] s = "FailSafe" -> 2 [] s = "Emergency" -> 3
Labels == {"idle", "feed", "decide", "clear", "restore", "report",
           "resetManager", "resetErrors"}

TypeOK ==
    /\ state \in States /\ faults \in 0 .. EmergencyThreshold
    /\ errors \in 0 .. MaxConsecutiveErrors
    /\ watchdog \in {"Inactive", "Active", "Timeout", "Recovered"}
    /\ overdue \in BOOLEAN /\ pc \in [Threads -> Labels]
    /\ late \in 0 .. EmergencyThreshold

Init ==
    /\ state = "Normal" /\ faults = 0 /\ errors = 0
    /\ watchdog = "Inactive" /\ overdue = FALSE
    /\ pc = [t \in Threads |-> "idle"] /\ late = 0

AtMost(n, max) == IF n > max THEN max ELSE n
OneMoreFault(n) == AtMost(n + 1, EmergencyThreshold)
Goto(t, from, to) == pc[t] = from /\ pc' = [pc EXCEPT ![t] = to]

-----------------------------------------------------------------------------
(* FailsafeManager. *)

\* The middle level is skipped.
BugEscalatedSkips(n) ==
    IF n >= EmergencyThreshold /\ state # "Emergency" THEN "Emergency"
    ELSE IF n >= FailsafeThreshold /\ state = "Normal" THEN "FailSafe"
    ELSE state

\* Each level is entered from the one below only, FailSafe at its threshold
\* exactly: the count is past that before Degraded is reached.
BugEscalatedStuck(n) ==
    IF n >= EmergencyThreshold /\ state = "FailSafe" THEN "Emergency"
    ELSE IF n >= FailsafeThreshold /\ state = "Normal" THEN "Degraded"
    ELSE IF n = DegradedThreshold /\ state = "Degraded" THEN "FailSafe"
    ELSE state

\* The state reportFault() moves to when the count reaches n.  The code tests
\* kFailsafeThreshold to enter Degraded and kDegradedThreshold to leave it.
Escalated(n) ==
    IF n >= EmergencyThreshold /\ state # "Emergency" THEN "Emergency"
    ELSE IF n >= FailsafeThreshold /\ state = "Normal" THEN "Degraded"
    ELSE IF n >= DegradedThreshold /\ state = "Degraded" THEN "FailSafe"
    ELSE state

\* A recovery is half done.
Recovering == \E t \in Threads : pc[t] = "restore"

ReportFault(t) ==
    /\ Goto(t, "report", "idle")
    /\ faults' = OneMoreFault(faults)
    /\ state' = Escalated(OneMoreFault(faults))
    /\ late' = IF Recovering THEN OneMoreFault(late) ELSE late
    /\ UNCHANGED <<errors, watchdog, overdue>>

-----------------------------------------------------------------------------
(* recordSuccess(): reset the errors, feed the watchdog, and unless the     *)
(* state is Normal clear the faults and transition back to Normal.          *)

RecordSuccess(t) ==
    /\ t \in Recorders /\ Goto(t, "idle", "feed")
    /\ errors' = 0
    /\ UNCHANGED <<manager, watchdog, overdue, history>>

Fed == CASE watchdog = "Timeout" -> "Recovered"
         [] watchdog = "Inactive" -> "Active"
         [] OTHER -> watchdog

FeedWatchdog(t) ==
    /\ Goto(t, "feed", "decide")
    /\ watchdog' = Fed /\ overdue' = FALSE
    /\ UNCHANGED <<manager, errors, history>>

DecideRecovery(t) ==
    /\ Goto(t, "decide", IF state = "Normal" THEN "idle" ELSE "clear")
    /\ UNCHANGED <<manager, errors, watchdog, overdue, history>>

\* The faults survive the recovery.
BugClearNothing(t) ==
    /\ Goto(t, "clear", "restore")
    /\ UNCHANGED <<manager, errors, watchdog, overdue, history>>

ClearFaults(t) ==
    /\ Goto(t, "clear", "restore")
    /\ faults' = 0 /\ late' = 0
    /\ UNCHANGED <<state, errors, watchdog, overdue>>

\* isValidTransition() without its exception: only to a more severe state.
BugRestoreRefused(t) ==
    /\ Goto(t, "restore", "idle")
    /\ UNCHANGED <<manager, errors, watchdog, overdue, history>>

\* transitionTo(Normal) is always allowed.
Restore(t) ==
    /\ Goto(t, "restore", "idle")
    /\ state' = "Normal"
    /\ UNCHANGED <<faults, errors, watchdog, overdue, history>>

-----------------------------------------------------------------------------

\* recordFailure(): the fault is reported after the counter was read.
RecordFailure(t) ==
    /\ t \in Recorders
    /\ errors' = AtMost(errors + 1, MaxConsecutiveErrors)
    /\ Goto(t, "idle", IF errors + 1 >= MaxConsecutiveErrors THEN "report" ELSE "idle")
    /\ UNCHANGED <<manager, watchdog, overdue, history>>

\* A timeout is reported once, when it is entered.
BugCheckReportsOnce(t) ==
    /\ t \in Monitors
    /\ watchdog' = IF watchdog # "Inactive" /\ overdue THEN "Timeout" ELSE watchdog
    /\ Goto(t, "idle",
            IF watchdog' = "Timeout" /\ watchdog # "Timeout" THEN "report" ELSE "idle")
    /\ UNCHANGED <<manager, errors, overdue, history>>

\* checkWatchdog(): every check that finds the timeout reports a fault.
CheckWatchdog(t) ==
    /\ t \in Monitors
    /\ watchdog' = IF watchdog # "Inactive" /\ overdue THEN "Timeout" ELSE watchdog
    /\ Goto(t, "idle", IF watchdog' = "Timeout" THEN "report" ELSE "idle")
    /\ UNCHANGED <<manager, errors, overdue, history>>

\* validateSequence() that found a gap or a duplicate, or reportFault().
ReportAnomaly(t) ==
    /\ t \in Monitors /\ Goto(t, "idle", "report")
    /\ UNCHANGED <<manager, errors, watchdog, overdue, history>>

\* resetFailsafe().
ResetFailsafe(t) ==
    /\ t \in Monitors /\ pc[t] = "idle"
    /\ state' = "Normal" /\ faults' = 0 /\ late' = 0
    /\ UNCHANGED <<errors, watchdog, overdue, pc>>

\* resetSafety(): the members are reset one after the other.
ResetSafety(t) ==
    /\ t \in Monitors /\ Goto(t, "idle", "resetManager")
    /\ watchdog' = "Inactive" /\ overdue' = FALSE
    /\ UNCHANGED <<manager, errors, history>>

ResetManager(t) ==
    /\ Goto(t, "resetManager", "resetErrors")
    /\ state' = "Normal" /\ faults' = 0 /\ late' = 0
    /\ UNCHANGED <<errors, watchdog, overdue>>

ResetErrors(t) ==
    /\ Goto(t, "resetErrors", "idle")
    /\ errors' = 0
    /\ UNCHANGED <<manager, watchdog, overdue, history>>

\* setWatchdogTimeout(): the same silence may count differently.
SetWatchdogTimeout(t) ==
    /\ t \in Monitors /\ pc[t] = "idle"
    /\ overdue' \in BOOLEAN
    /\ UNCHANGED <<manager, errors, watchdog, pc, history>>

\* timeout_ passes without a feed.
Silence == ~overdue /\ overdue' = TRUE
           /\ UNCHANGED <<manager, errors, watchdog, pc, history>>

Recovers(t) == FeedWatchdog(t) \/ DecideRecovery(t) \/ ClearFaults(t) \/ Restore(t)
Step(t) == Recovers(t) \/ ReportFault(t) \/ ResetManager(t) \/ ResetErrors(t)
Call(t) ==
    \/ RecordSuccess(t) \/ RecordFailure(t)
    \/ CheckWatchdog(t) \/ ReportAnomaly(t) \/ ResetFailsafe(t)
    \/ ResetSafety(t) \/ SetWatchdogTimeout(t)

Next == Silence \/ \E t \in Threads : Call(t) \/ Step(t)
Spec == Init /\ [][Next]_vars

\* A thread inside a call goes on.
FairSpec == Spec /\ \A t \in Threads : WF_vars(Step(t))

-----------------------------------------------------------------------------
(* Properties. *)

\* Whenever no recovery is half done, the severity is the one that the tests
\* of reportFault() give for the fault count, whatever the threads did before.
\* Their thresholds are exchanged against their names (see ThresholdsAsNamed):
\* Normal lasts until kFailsafeThreshold, and Degraded for one fault only.
\* Faults that fell between the halves of a recovery are still counted and
\* hidden by Normal, but only until the next fault, which moves on from there.
FirstDegraded == IF late < FailsafeThreshold THEN FailsafeThreshold ELSE late + 1
Agree ==
    /\ state = "Normal" => faults < FailsafeThreshold \/ faults = late
    /\ state = "Degraded" => faults = FirstDegraded
    /\ state = "FailSafe" => faults \in FirstDegraded + 1 .. EmergencyThreshold - 1
    /\ state = "Emergency" => faults = EmergencyThreshold
StateMatchesFaults == ~Recovering => Agree

\* Its inductive strengthening: during a recovery the count is what was
\* reported since the faults were cleared.
ManagerInv ==
    TypeOK /\ StateMatchesFaults /\ late <= faults /\ (Recovering => faults = late)

\* The thresholds as the code names them: kDegradedThreshold faults mean
\* Degraded at least, kFailsafeThreshold faults FailSafe at least.  The code
\* uses the two the other way round, so that this does not hold.
ThresholdsAsNamed ==
    late = 0 /\ ~Recovering =>
        /\ faults >= DegradedThreshold => state # "Normal"
        /\ faults >= FailsafeThreshold => state \in {"FailSafe", "Emergency"}

\* Degradation is gradual: a fault raises the severity by one level at most,
\* unless so many fell into the last recovery that fewer than two were left
\* to the emergency.
GradualEscalation ==
    [][late + 2 < EmergencyThreshold => Severity(state') <= Severity(state) + 1]_vars

NoRecovery ==
    [][\A t \in Threads :
          ~RecordSuccess(t) /\ ~ResetFailsafe(t) /\ ~ResetSafety(t)]_vars

\* A link that keeps failing and never succeeds ends in Emergency.
FailuresEscalate ==
    (/\ <>NoRecovery
     /\ []<><<\E t \in Threads : ReportFault(t)>>_vars)
        => <>(state = "Emergency")

\* A silent link whose watchdog is armed and checked ends in Emergency.
SilenceEscalates ==
    (/\ <>[](overdue /\ watchdog # "Inactive")
     /\ <>NoRecovery
     /\ \A t \in Monitors : SF_vars(CheckWatchdog(t)))
        => <>(state = "Emergency")

\* Once the faults have ceased, a thread that keeps succeeding brings Normal
\* back for good, whatever recoveries and reports were half done by then.
SuccessRecovers ==
    (/\ <>[][\A t \in Threads : ~ReportFault(t)]_vars
     /\ \E t \in Recorders : []<><<RecordSuccess(t)>>_vars)
        => <>[](state = "Normal")
=============================================================================
