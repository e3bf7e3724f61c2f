---------------------------- MODULE SafetyProofs ----------------------------
(***************************************************************************)
(* Theorems about Safety, for every set of threads and all thresholds that *)
(* satisfy ThresholdsAssumption.                                           *)
(***************************************************************************)
EXTENDS Safety, TLAPS

\* What reportFault() does to an agreeing pair of state and count.
LEMMA EscalationAgrees ==
  ASSUME state \in States, faults \in 0 .. EmergencyThreshold,
         late \in 0 .. EmergencyThreshold, late <= faults, Agree,
         NEW m, m = OneMoreFault(faults),
         NEW e, e = Escalated(m)
  PROVE  /\ e = "Normal" => m < FailsafeThreshold
         /\ e = "Degraded" => m = FirstDegraded
         /\ e = "FailSafe" => m \in FirstDegraded + 1 .. EmergencyThreshold - 1
         /\ e = "Emergency" => m = EmergencyThreshold
         /\ late + 2 < EmergencyThreshold => Severity(e) <= Severity(state) + 1
<1> USE ThresholdsAssumption DEF OneMoreFault, AtMost, Escalated, Severity
<1>1. CASE state = "Normal"
  BY <1>1 DEF Agree, FirstDegraded
<1>2. CASE state = "Degraded"
  BY <1>2 DEF Agree, FirstDegraded
<1>3. CASE state = "FailSafe"
  BY <1>3 DEF Agree, FirstDegraded
<1>4. CASE state = "Emergency"
  BY <1>4 DEF Agree
<1> QED
  BY <1>1, <1>2, <1>3, <1>4 DEF States

\* Below the emergency threshold a fault raises the severity by one level at
\* most, from any state and with any count.
LEMMA EarlyFaultIsGradual ==
  ASSUME state \in States, NEW n \in Nat, n < EmergencyThreshold
  PROVE  Severity(Escalated(n)) <= Severity(state) + 1
  BY ThresholdsAssumption DEF States, Escalated, Severity

LEMMA EscalatedType ==
  ASSUME state \in States, NEW n PROVE Escalated(n) \in States
  BY DEF States, Escalated

LEMMA InitInv == Init => ManagerInv
<1> SUFFICES ASSUME Init PROVE ManagerInv
  OBVIOUS
<1>1. pc = [t \in Threads |-> "idle"] /\ faults = 0 /\ state = "Normal"
  BY DEF Init
<1>2. pc \in [Threads -> Labels] /\ ~Recovering
  BY <1>1 DEF Labels, Recovering
<1>3. /\ errors \in 0 .. MaxConsecutiveErrors /\ faults \in 0 .. EmergencyThreshold
  BY ThresholdsAssumption DEF Init
<1>4. /\ state \in States /\ watchdog \in {"Inactive", "Active", "Timeout", "Recovered"}
      /\ overdue \in BOOLEAN
  BY DEF Init, States
<1>6. late \in 0 .. EmergencyThreshold /\ late <= faults
  BY ThresholdsAssumption DEF Init
<1>5. Agree
  BY <1>1, ThresholdsAssumption DEF Agree
<1> QED
  BY <1>2, <1>3, <1>4, <1>5, <1>6 DEF ManagerInv, StateMatchesFaults, TypeOK

LEMMA NextTypeOK ==
  ASSUME TypeOK, [Next]_vars PROVE TypeOK'
<1> USE DEF TypeOK, manager, history
<1>0. 0 \in 0 .. EmergencyThreshold /\ 0 \in 0 .. MaxConsecutiveErrors
  BY ThresholdsAssumption
<1>1. ASSUME NEW t \in Threads, RecordSuccess(t) PROVE TypeOK'
  BY <1>1, ThresholdsAssumption DEF RecordSuccess, Goto, AtMost, Labels
<1>2. ASSUME NEW t \in Threads, RecordFailure(t) PROVE TypeOK'
  BY <1>2, ThresholdsAssumption DEF RecordFailure, Goto, AtMost, Labels
<1>3. ASSUME NEW t \in Threads, CheckWatchdog(t) PROVE TypeOK'
  BY <1>3 DEF CheckWatchdog, Goto, Labels
<1>4. ASSUME NEW t \in Threads, ReportAnomaly(t) PROVE TypeOK'
  BY <1>4 DEF ReportAnomaly, Goto, Labels
<1>5. ASSUME NEW t \in Threads, ResetFailsafe(t) PROVE TypeOK'
  BY <1>0, <1>5 DEF ResetFailsafe, States
<1>12. ASSUME NEW t \in Threads, ResetManager(t) PROVE TypeOK'
  BY <1>0, <1>12 DEF ResetManager, Goto, Labels, States
<1>6. ASSUME NEW t \in Threads, ResetSafety(t) \/ SetWatchdogTimeout(t) PROVE TypeOK'
  BY <1>6 DEF ResetSafety, SetWatchdogTimeout, Goto, Labels
<1>7. ASSUME NEW t \in Threads, ReportFault(t) PROVE TypeOK'
  <2>1. faults' \in 0 .. EmergencyThreshold
    BY <1>7, ThresholdsAssumption DEF ReportFault, OneMoreFault, AtMost
  <2>2. state' \in States
    BY <1>7, EscalatedType DEF ReportFault
  <2>3. late' \in 0 .. EmergencyThreshold
    BY <1>7, ThresholdsAssumption DEF ReportFault, OneMoreFault, AtMost
  <2>4. pc' \in [Threads -> Labels]
    BY <1>7 DEF ReportFault, Goto, Labels
  <2> QED
    BY <1>7, <2>1, <2>2, <2>3, <2>4 DEF ReportFault
<1>8. ASSUME NEW t \in Threads, FeedWatchdog(t) PROVE TypeOK'
  <2>1. Fed \in {"Inactive", "Active", "Timeout", "Recovered"}
    BY DEF Fed
  <2> QED
    BY <1>8, <2>1 DEF FeedWatchdog, Goto, Labels
<1>9. ASSUME NEW t \in Threads, DecideRecovery(t) \/ Restore(t) PROVE TypeOK'
  BY <1>9 DEF DecideRecovery, Restore, Goto, Labels, States, history
<1>10. ASSUME NEW t \in Threads, ClearFaults(t) PROVE TypeOK'
  BY <1>0, <1>10 DEF ClearFaults, Goto, Labels
<1>13. ASSUME NEW t \in Threads, ResetErrors(t) PROVE TypeOK'
  BY <1>0, <1>13 DEF ResetErrors, Goto, Labels
<1>11. CASE Silence \/ UNCHANGED vars
  BY <1>11 DEF Silence, vars
<1> QED
  BY <1>1, <1>2, <1>3, <1>4, <1>5, <1>6, <1>7, <1>8, <1>9, <1>10, <1>11,
     <1>12, <1>13
  DEF Next, Call, Step, Recovers

LEMMA NextInv == ManagerInv /\ [Next]_vars => ManagerInv'
<1> SUFFICES ASSUME ManagerInv, [Next]_vars PROVE ManagerInv'
  OBVIOUS
<1>1. TypeOK /\ TypeOK'
  BY NextTypeOK DEF ManagerInv
<1>2. ASSUME NEW t \in Threads, ReportFault(t) PROVE ManagerInv'
  <2>1. Recovering' <=> Recovering
    BY <1>1, <1>2 DEF ReportFault, Goto, Recovering, TypeOK
  <2>2. CASE ~Recovering
    <3>1. Agree' /\ UNCHANGED late
      BY <1>1, <1>2, <2>2, EscalationAgrees
      DEF ReportFault, ManagerInv, StateMatchesFaults, TypeOK, Agree, FirstDegraded
    <3>2. late' <= faults'
      BY <1>1, <1>2, <3>1, ThresholdsAssumption
      DEF ReportFault, ManagerInv, TypeOK, OneMoreFault, AtMost
    <3> QED
      BY <1>1, <2>1, <2>2, <3>1, <3>2 DEF ManagerInv, StateMatchesFaults
  <2>3. CASE Recovering
    <3>1. late' = faults'
      BY <1>2, <2>3 DEF ReportFault, ManagerInv
    <3>2. late' <= faults'
      BY <1>1, <3>1 DEF TypeOK
    <3> QED
      BY <1>1, <2>1, <2>3, <3>1, <3>2 DEF ManagerInv, StateMatchesFaults
  <2> QED
    BY <2>2, <2>3
<1>3. ASSUME NEW t \in Threads, ClearFaults(t) PROVE ManagerInv'
  <2>1. Recovering' /\ faults' = 0 /\ late' = 0
    BY <1>1, <1>3 DEF ClearFaults, Goto, Recovering, TypeOK
  <2> QED
    BY <1>1, <2>1 DEF ManagerInv, StateMatchesFaults
<1>4. ASSUME NEW t \in Threads, Restore(t) PROVE ManagerInv'
  <2>1. Recovering /\ state' = "Normal" /\ UNCHANGED <<faults, late>>
    BY <1>4 DEF Restore, Goto, Recovering, history
  <2>2. faults' = late' /\ late' <= faults'
    BY <2>1 DEF ManagerInv
  <2> QED
    BY <1>1, <2>1, <2>2 DEF ManagerInv, StateMatchesFaults, Agree
<1>5. ASSUME NEW t \in Threads, ResetFailsafe(t) \/ ResetManager(t) PROVE ManagerInv'
  <2>1. state' = "Normal" /\ faults' = 0 /\ late' = 0
    BY <1>5 DEF ResetFailsafe, ResetManager
  <2> QED
    BY <1>1, <2>1, ThresholdsAssumption DEF ManagerInv, StateMatchesFaults, Agree
<1>6. ASSUME NEW t \in Threads,
             \/ RecordSuccess(t) \/ RecordFailure(t) \/ CheckWatchdog(t)
             \/ ReportAnomaly(t) \/ ResetSafety(t) \/ SetWatchdogTimeout(t)
             \/ FeedWatchdog(t) \/ DecideRecovery(t) \/ ResetErrors(t)
      PROVE  ManagerInv'
  <2>1. UNCHANGED <<state, faults, late>>
    BY <1>6 DEF RecordSuccess, RecordFailure, CheckWatchdog, ReportAnomaly,
       ResetSafety, SetWatchdogTimeout, FeedWatchdog, DecideRecovery,
       ResetErrors, manager, history
  <2>2. pc[t] # "restore" /\ \E l \in Labels \ {"restore"} :
          pc' = pc \/ pc' = [pc EXCEPT ![t] = l]
    BY <1>6 DEF RecordSuccess, RecordFailure, CheckWatchdog, ReportAnomaly,
       ResetSafety, SetWatchdogTimeout, FeedWatchdog, DecideRecovery,
       ResetErrors, Goto, Labels
  <2>3. Recovering' <=> Recovering
    BY <1>1, <2>2 DEF Recovering, TypeOK
  <2> QED
    BY <1>1, <2>1, <2>3 DEF ManagerInv, StateMatchesFaults, Agree, FirstDegraded
<1>7. CASE Silence \/ UNCHANGED vars
  BY <1>1, <1>7 DEF Silence, vars, manager, history, ManagerInv,
     StateMatchesFaults, Agree, FirstDegraded, Recovering
<1> QED
  BY <1>2, <1>3, <1>4, <1>5, <1>6, <1>7 DEF Next, Call, Step, Recovers

\* Whenever no recovery is half done, the failsafe state is the one that the
\* tests of reportFault() give for the count, whatever fell into a recovery.
THEOREM StateFollowsFaults == Spec => []StateMatchesFaults
<1>1. ManagerInv => StateMatchesFaults
  BY DEF ManagerInv
<1> QED
  BY <1>1, InitInv, NextInv, PTL DEF Spec

\* No step of any thread skips a failsafe level, unless so many faults fell
\* into the last recovery that fewer than two were left to the emergency.
THEOREM EscalationIsGradual == Spec => GradualEscalation
<1>1. ManagerInv /\ [Next]_vars =>
        [late + 2 < EmergencyThreshold => Severity(state') <= Severity(state) + 1]_vars
  <2> SUFFICES ASSUME ManagerInv, Next, late + 2 < EmergencyThreshold
               PROVE  Severity(state') <= Severity(state) + 1
    BY DEF ManagerInv
  <2>1. /\ state \in States /\ faults \in 0 .. EmergencyThreshold
        /\ late \in 0 .. EmergencyThreshold
    BY DEF ManagerInv, TypeOK
  <2>2. ASSUME NEW t \in Threads, ReportFault(t)
        PROVE  Severity(state') <= Severity(state) + 1
    <3>1. CASE Recovering
      <4>1. OneMoreFault(faults) \in Nat /\ OneMoreFault(faults) < EmergencyThreshold
        BY <2>1, <3>1, ThresholdsAssumption DEF ManagerInv, OneMoreFault, AtMost
      <4> QED
        BY <2>1, <2>2, <4>1, EarlyFaultIsGradual DEF ReportFault
    <3>2. CASE ~Recovering
      BY <2>1, <2>2, <3>2, EscalationAgrees
      DEF ManagerInv, StateMatchesFaults, ReportFault
    <3> QED
      BY <3>1, <3>2
  <2>3. ASSUME state' = state \/ state' = "Normal"
        PROVE  Severity(state') <= Severity(state) + 1
    BY <2>1, <2>3 DEF States, Severity
  <2>4. ASSUME NEW t \in Threads, Call(t) \/ (Step(t) /\ ~ReportFault(t))
        PROVE  state' = state \/ state' = "Normal"
    BY <2>4 DEF Call, Step, Recovers, RecordSuccess, RecordFailure,
       CheckWatchdog, ReportAnomaly, ResetFailsafe, ResetSafety,
       SetWatchdogTimeout, FeedWatchdog, DecideRecovery, ClearFaults, Restore,
       ResetManager, ResetErrors, manager
  <2>5. Silence => state' = state
    BY DEF Silence, manager
  <2> QED
    BY <2>2, <2>3, <2>4, <2>5 DEF Next
<1> QED
  BY <1>1, InitInv, NextInv, PTL DEF Spec, GradualEscalation
=============================================================================
