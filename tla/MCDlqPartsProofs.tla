-------------------------- MODULE MCDlqPartsProofs --------------------------
(***************************************************************************)
(* What the histories of MCDlqParts judge, proved for every threshold,     *)
(* every window size and every history: the counters of the breaker tell   *)
(* the same as the outcomes it has seen, and the window of the monitor is  *)
(* the end of everything it was told.                                      *)
(***************************************************************************)
EXTENDS MCDlqParts, DlqPartsProofs

-----------------------------------------------------------------------------
(* The parts by themselves                                                 *)

(* A step on the bench is a step of one part.                              *)
LEMMA StepsOfTheParts ==
  [Next]_vars => /\ [BulkheadNext]_bulkheadVars
                 /\ [BreakerNext]_breakerVars
                 /\ [HealthNext]_healthVars
BY DEF Next, vars, partVars, BulkheadStep, BreakerStep, MonitorStep, BreakerNext, HealthNext

(* What is proved of the parts holds on the bench.                         *)
LEMMA PartsSafe == Spec => [](BulkheadInv /\ BreakerInv /\ HealthInv)
<1>1. Init => BulkheadInit /\ BreakerInit /\ HealthInit
  BY DEF Init
<1>2. Spec => BulkheadSpec /\ BreakerSpec /\ HealthSpec
  BY <1>1, StepsOfTheParts, PTL DEF Spec, BulkheadSpec, BreakerSpec, HealthSpec
<1> QED
  BY <1>2, BulkheadSafe, BreakerSafe, MonitorSafe, PTL

-----------------------------------------------------------------------------
(* The circuit breaker and the outcomes it has seen                        *)

Outcome == {"success", "failure"}

(***************************************************************************)
(* The inductive invariant of the breaker's histories.  While CLOSED the   *)
(* counter is the length of the run of failures at the end of recent,      *)
(* while HALF_OPEN everything since the change was a success and is        *)
(* counted, and while OPEN nothing has happened since the trip.            *)
(***************************************************************************)
RunOfFailures ==
  /\ failCount <= Len(recent)
  /\ \A i \in Len(recent) - failCount + 1 .. Len(recent) : recent[i] = "failure"
  /\ failCount < Len(recent) => recent[Len(recent) - failCount] = "success"

RunOfSuccesses ==
  /\ Len(recent) = successCount
  /\ \A i \in 1 .. Len(recent) : recent[i] = "success"

RecentInv ==
  /\ recent \in Seq(Outcome) /\ Len(recent) <= Depth
  /\ circuit = "CLOSED" => RunOfFailures
  /\ circuit = "HALF_OPEN" => RunOfSuccesses
  /\ circuit = "OPEN" => recent = <<>> /\ (waited <=> blackoutOver)
  /\ waited \in BOOLEAN

(* Enough is remembered for either rule.                                   *)
LEMMA DepthIsEnough ==
  Depth \in Nat \ {0} /\ FailureThreshold <= Depth /\ SuccessThreshold <= Depth
BY BreakerAssumption DEF Depth

(* Appending to what is remembered: the newest outcome comes last, those   *)
(* before it keep their distance from the end.                             *)
LEMMA NewestFacts ==
  ASSUME NEW s \in Seq(Outcome), Len(s) <= Depth, NEW o \in Outcome
  PROVE  LET r == Newest(Append(s, o)) IN
         /\ r \in Seq(Outcome)
         /\ Len(r) = IF Len(s) < Depth THEN Len(s) + 1 ELSE Depth
         /\ r[Len(r)] = o
         /\ \A i \in 1 .. Len(r) - 1 : r[i] = s[i + Len(s) + 1 - Len(r)]
<1> DEFINE t == Append(s, o)
           r == Newest(t)
<1>1. /\ t \in Seq(Outcome) /\ Len(t) = Len(s) + 1 /\ Len(s) \in Nat
      /\ t[Len(t)] = o /\ \A i \in 1 .. Len(s) : t[i] = s[i]
  OBVIOUS
<1>2. CASE Len(s) < Depth
  <2>1. r = t
    BY <1>1, <1>2, DepthIsEnough DEF Newest
  <2> QED
    BY <1>1, <1>2, <2>1
<1>3. CASE Len(s) = Depth
  <2>1. r = Tail(t)
    BY <1>1, <1>3, DepthIsEnough DEF Newest
  <2>2. r \in Seq(Outcome) /\ Len(r) = Len(s)
    BY <1>1, <2>1
  <2>3. \A i \in 1 .. Len(r) : r[i] = t[i + 1]
    BY <1>1, <2>1, <2>2
  <2> HIDE DEF t, r
  <2> QED
    BY <1>1, <1>3, <2>2, <2>3, DepthIsEnough DEF r, t
<1> QED
  BY <1>2, <1>3, DepthIsEnough

(* Nothing is remembered before the first call.                            *)
LEMMA RecentInitInv == Init => RecentInv
<1> SUFFICES ASSUME Init PROVE RecentInv
  OBVIOUS
<1>1. recent = <<>> /\ circuit = "CLOSED" /\ failCount = 0 /\ waited \in BOOLEAN
  BY DEF Init, BreakerInit
<1>2. recent \in Seq(Outcome) /\ Len(recent) = 0
  BY <1>1
<1>3. RunOfFailures
  BY <1>1, <1>2 DEF RunOfFailures
<1> QED
  BY <1>1, <1>2, <1>3, DepthIsEnough DEF RecentInv

(* The operation returned: one more success, or the circuit has changed.   *)
LEMMA SucceedRecent ==
  ASSUME BreakerInv, RecentInv, NEW c \in Calls, Succeed(c), Remember("success"),
         UNCHANGED waited
  PROVE  RecentInv'
<1> DEFINE r == Newest(Append(recent, "success"))
<1> USE DEF RecentInv, BreakerInv, BreakerTypeOK, CircuitState
<1>1. circuit # "OPEN"
  BY BreakerAssumption DEF NeverOpenUnderACall, Succeed
<1>2. CASE circuit' # circuit
  <2>1. recent' = <<>> /\ circuit' = "CLOSED" /\ failCount' = 0
    BY <1>1, <1>2 DEF Succeed, Remember
  <2> QED
    BY <2>1, DepthIsEnough DEF RunOfFailures
<1>3. CASE circuit' = circuit
  <2>1. recent' = r
    BY <1>3 DEF Remember
  <2>2. /\ r \in Seq(Outcome)
        /\ Len(r) = IF Len(recent) < Depth THEN Len(recent) + 1 ELSE Depth
        /\ r[Len(r)] = "success"
        /\ \A i \in 1 .. Len(r) - 1 : r[i] = recent[i + Len(recent) + 1 - Len(r)]
    BY NewestFacts DEF Outcome
  <2> HIDE DEF r
  <2>3. CASE circuit = "CLOSED"
    <3>1. failCount' = 0 /\ circuit' = "CLOSED"
      BY <1>3, <2>3 DEF Succeed
    <3>2. Len(r) \in Nat \ {0} /\ Len(r) <= Depth
      BY <2>2, DepthIsEnough
    <3> QED
      BY <2>1, <2>2, <3>1, <3>2 DEF RunOfFailures
  <2>4. CASE circuit = "HALF_OPEN"
    <3>1. ~Recovers /\ successCount' = successCount + 1 /\ circuit' = "HALF_OPEN"
      BY <1>3, <2>4 DEF Succeed
    <3>2. Len(recent) < SuccessThreshold - 1
      BY <2>4, <3>1, BreakerAssumption DEF Recovers, RunOfSuccesses
    <3>3. Len(r) = Len(recent) + 1 /\ Len(r) <= Depth /\ Len(recent) \in Nat
      BY <2>2, <3>2, DepthIsEnough, BreakerAssumption
    <3>4. \A i \in 1 .. Len(r) : r[i] = "success"
      BY <2>2, <2>4, <3>3 DEF RunOfSuccesses
    <3> QED
      BY <2>1, <2>2, <2>4, <3>1, <3>3, <3>4 DEF RunOfSuccesses
  <2> QED
    BY <1>1, <2>3, <2>4
<1> QED
  BY <1>2, <1>3

(* It raised: the run of failures is one longer, or the circuit opens.     *)
LEMMA FailRecent ==
  ASSUME BreakerInv, RecentInv, NEW c \in Calls, Fail(c), Remember("failure"),
         waited' = IF circuit' = "OPEN" THEN FALSE ELSE waited
  PROVE  RecentInv'
<1> DEFINE r == Newest(Append(recent, "failure"))
<1> USE DEF RecentInv, BreakerInv, BreakerTypeOK, CircuitState
<1>1. circuit # "OPEN"
  BY BreakerAssumption DEF NeverOpenUnderACall, Fail
<1>2. CASE Trips
  BY <1>1, <1>2, DepthIsEnough DEF Fail, Remember
<1>3. CASE ~Trips
  <2>1. circuit' = "CLOSED" /\ circuit = "CLOSED" /\ failCount' = failCount + 1 /\ recent' = r
    BY <1>1, <1>3 DEF Fail, Trips, Remember
  <2>2. /\ r \in Seq(Outcome)
        /\ Len(r) = IF Len(recent) < Depth THEN Len(recent) + 1 ELSE Depth
        /\ r[Len(r)] = "failure"
        /\ \A i \in 1 .. Len(r) - 1 : r[i] = recent[i + Len(recent) + 1 - Len(r)]
    BY NewestFacts DEF Outcome
  <2> HIDE DEF r
  <2>3. failCount + 1 < FailureThreshold /\ failCount \in Nat
    BY <1>3, BreakerAssumption DEF Trips
  <2>4. Len(r) <= Depth /\ failCount + 1 <= Len(r) /\ Len(r) \in Nat /\ Len(recent) \in Nat
    BY <2>1, <2>2, <2>3, DepthIsEnough, BreakerAssumption DEF RunOfFailures
  <2>5. \A i \in Len(r) - (failCount + 1) + 1 .. Len(r) : r[i] = "failure"
    <3> SUFFICES ASSUME NEW i \in Len(r) - (failCount + 1) + 1 .. Len(r), i # Len(r)
                 PROVE  r[i] = "failure"
      BY <2>2
    <3>1. i \in 1 .. Len(r) - 1
      BY <2>3, <2>4
    <3>2. i + Len(recent) + 1 - Len(r) \in Len(recent) - failCount + 1 .. Len(recent)
      BY <2>3, <2>4, <3>1
    <3> QED
      BY <2>1, <2>2, <3>1, <3>2 DEF RunOfFailures
  <2>6. failCount + 1 < Len(r) => r[Len(r) - (failCount + 1)] = "success"
    <3> SUFFICES ASSUME failCount + 1 < Len(r)
                 PROVE  r[Len(r) - (failCount + 1)] = "success"
      OBVIOUS
    <3>1. Len(r) - (failCount + 1) \in 1 .. Len(r) - 1
      BY <2>3, <2>4
    <3>2. failCount < Len(recent)
      BY <2>2, <2>3, <2>4, DepthIsEnough
    <3>3. Len(r) - (failCount + 1) + Len(recent) + 1 - Len(r) = Len(recent) - failCount
      BY <2>3, <2>4
    <3> QED
      BY <2>1, <2>2, <3>1, <3>2, <3>3 DEF RunOfFailures
  <2> QED
    BY <2>1, <2>2, <2>3, <2>4, <2>5, <2>6 DEF RunOfFailures
<1> QED
  BY <1>2, <1>3

(* Every step on the bench keeps the breaker's histories in order.         *)
LEMMA RecentNextInv == BreakerInv /\ RecentInv /\ [Next]_vars => RecentInv'
<1> SUFFICES ASSUME BreakerInv, RecentInv, [Next]_vars PROVE RecentInv'
  OBVIOUS
<1> USE DEF RecentInv, BreakerInv, BreakerTypeOK, CircuitState
<1>1. ASSUME NEW c \in Calls, Enter(c), UNCHANGED waited,
             recent' = IF circuit' # circuit THEN <<>> ELSE recent
      PROVE  RecentInv'
  BY <1>1, DepthIsEnough DEF Enter, RunOfFailures, RunOfSuccesses, InBlackout
<1>2. ASSUME NEW c \in Calls, Refuse(c), UNCHANGED waited,
             recent' = IF circuit' # circuit THEN <<>> ELSE recent
      PROVE  RecentInv'
  BY <1>2 DEF Refuse, breakerVars, RunOfFailures, RunOfSuccesses
<1>3. ASSUME Reset, recent' = <<>>, UNCHANGED waited
      PROVE  RecentInv'
  BY <1>3, DepthIsEnough DEF Reset, RunOfFailures
<1>4. ASSUME BlackoutElapses, waited' = TRUE, UNCHANGED recent
      PROVE  RecentInv'
  BY <1>4 DEF BlackoutElapses, InBlackout
<1>5. ASSUME UNCHANGED <<breakerVars, recent, waited>>
      PROVE  RecentInv'
  BY <1>5 DEF breakerVars, RunOfFailures, RunOfSuccesses
<1>6. CASE BreakerStep
  BY <1>6, <1>1, <1>2, <1>3, <1>4, SucceedRecent, FailRecent DEF BreakerStep
<1>7. CASE BulkheadStep \/ MonitorStep \/ UNCHANGED vars
  BY <1>5, <1>7 DEF BulkheadStep, MonitorStep, vars, partVars
<1> QED
  BY <1>6, <1>7 DEF Next

(* In every reachable state.                                               *)
LEMMA RecentSafe == Spec => []RecentInv
<1>1. Init => RecentInv
  BY RecentInitInv
<1>2. BreakerInv /\ RecentInv /\ [Next]_vars => RecentInv'
  BY RecentNextInv
<1> QED
  BY <1>1, <1>2, PartsSafe, PTL DEF Spec

(* "Consecutive failures that trip the circuit": a CLOSED circuit has not  *)
(* seen failure_threshold failures in a row, and a HALF_OPEN one neither a *)
(* failure nor all the successes it needs, so no transition is overdue.    *)
THEOREM NothingOverdue == Spec => []NoOverdueTransition
<1>1. BreakerInv /\ RecentInv => NoOverdueTransition
  <2> SUFFICES ASSUME BreakerInv, RecentInv PROVE NoOverdueTransition
    OBVIOUS
  <2> USE DEF RecentInv, BreakerInv, BreakerTypeOK
  <2>1. ASSUME circuit = "CLOSED" PROVE ~EndsInFailures(recent, FailureThreshold)
    <3> SUFFICES ASSUME EndsInFailures(recent, FailureThreshold) PROVE FALSE
      OBVIOUS
    <3>1. failCount < Len(recent) /\ recent[Len(recent) - failCount] = "success"
      BY <2>1, BreakerAssumption DEF EndsInFailures, RunOfFailures
    <3>2. Len(recent) - failCount \in Len(recent) - FailureThreshold + 1 .. Len(recent)
      BY BreakerAssumption
    <3> QED
      BY <3>1, <3>2 DEF EndsInFailures
  <2>2. ASSUME circuit = "HALF_OPEN"
        PROVE  Len(recent) < SuccessThreshold /\ ~Contains(recent, "failure")
    BY <2>2, BreakerAssumption DEF RunOfSuccesses, Contains
  <2> QED
    BY <2>1, <2>2 DEF NoOverdueTransition
<1> QED
  BY <1>1, PartsSafe, RecentSafe, PTL

(* A step that changes the circuit is one of the breaker's.                *)
LEMMA CircuitMovers ==
  ASSUME [Next]_vars, circuit' # circuit
  PROVE  \/ \E c \in Calls : Enter(c)
         \/ \E c \in Calls : Succeed(c)
         \/ \E c \in Calls : Fail(c)
         \/ Reset
BY DEF Next, vars, partVars, BulkheadStep, BreakerStep, MonitorStep, breakerVars, Refuse,
       BlackoutElapses

(* The circuit opens from CLOSED with the failure_threshold-th failure in  *)
(* a row, never earlier.                                                   *)
THEOREM OpensOnTime == Spec => OpensOnThresholdFailures
<1>1. ASSUME BreakerInv, RecentInv, [Next]_vars, circuit = "CLOSED", circuit' = "OPEN"
      PROVE  EndsInFailures(recent, FailureThreshold - 1)
  <2>1. PICK c \in Calls : Fail(c)
    BY <1>1, CircuitMovers DEF Enter, Succeed, Reset
  <2>2. failCount = FailureThreshold - 1 /\ RunOfFailures /\ Len(recent) \in Nat
    BY <1>1, <2>1, BreakerAssumption
    DEF Fail, Trips, BreakerInv, BreakerTypeOK, RecentInv
  <2> QED
    BY <2>2 DEF EndsInFailures, RunOfFailures
<1> QED
  BY <1>1, PartsSafe, RecentSafe, PTL DEF Spec, OpensOnThresholdFailures

(* "Consecutive successes in HALF_OPEN needed to restore CLOSED": under a  *)
(* running call the circuit closes with the success_threshold-th probe.    *)
THEOREM ClosesOnTime == Spec => ClosesOnThresholdSuccesses
<1>1. ASSUME BreakerInv, RecentInv, [Next]_vars,
             circuit # "CLOSED", circuit' = "CLOSED", caller # NoCall
      PROVE  circuit = "HALF_OPEN" /\ Len(recent) = SuccessThreshold - 1
  <2>1. PICK c \in Calls : Succeed(c)
    BY <1>1, CircuitMovers DEF Enter, Fail, Reset
  <2>2. Recovers
    BY <1>1, <2>1 DEF Succeed
  <2> QED
    BY <1>1, <2>2, BreakerAssumption
    DEF Recovers, BreakerInv, BreakerTypeOK, RecentInv, RunOfSuccesses
<1> QED
  BY <1>1, PartsSafe, RecentSafe, PTL DEF Spec, ClosesOnThresholdSuccesses

(* "OPEN --[recovery_timeout elapses]--> HALF_OPEN": every trip waits out  *)
(* a blackout of its own before the first probe.                           *)
THEOREM TripsWait == Spec => EachTripWaits
<1>1. ASSUME RecentInv, [Next]_vars, circuit = "OPEN", circuit' = "HALF_OPEN"
      PROVE  waited
  <2>1. PICK c \in Calls : Enter(c)
    BY <1>1, CircuitMovers DEF Succeed, Fail, Reset, Recovers
  <2> QED
    BY <1>1, <2>1 DEF Enter, InBlackout, RecentInv
<1> QED
  BY <1>1, RecentSafe, PTL DEF Spec, EachTripWaits

(* The gate that is read without the breaker's lock turns a send away only *)
(* while the blackout of the last trip still runs.                         *)
THEOREM GateIsHonest == Spec => []ShutGateMeansBlackout
<1>1. RecentInv => ShutGateMeansBlackout
  BY DEF RecentInv, ShutGateMeansBlackout, CanExecute, InBlackout
<1> QED
  BY <1>1, RecentSafe, PTL

-----------------------------------------------------------------------------
(* The health monitor and everything it was told                           *)

(***************************************************************************)
(* The inductive invariant of the monitor's history: the window is its     *)
(* end, as long as it is allowed to be.                                    *)
(***************************************************************************)
Older == Len(history) - Len(window)

HistoryInv ==
  /\ history \in Seq(BOOLEAN)
  /\ Len(window) = IF Len(history) < HealthWindowSize THEN Len(history) ELSE HealthWindowSize
  /\ \A i \in 1 .. Len(window) : window[i] = history[Older + i]

(* One more outcome on both sides.                                         *)
LEMMA RecordHistory ==
  ASSUME HealthInv, HistoryInv, NEW success \in BOOLEAN, RecordOperation(success),
         history' = Append(history, success)
  PROVE  HistoryInv'
<1>1. /\ history' \in Seq(BOOLEAN) /\ Len(history') = Len(history) + 1 /\ Len(history) \in Nat
      /\ history'[Len(history) + 1] = success
      /\ \A i \in 1 .. Len(history) : history'[i] = history[i]
  BY DEF HistoryInv
<1>2. /\ window \in Seq(BOOLEAN) /\ Len(window) \in Nat
      /\ Len(window) = IF Len(history) < HealthWindowSize THEN Len(history) ELSE HealthWindowSize
      /\ \A i \in 1 .. Len(window) : window[i] = history[Older + i]
  BY DEF HistoryInv, HealthInv, HealthTypeOK
<1>3. CASE Len(window) < HealthWindowSize
  <2>1. window' = Append(window, success)
    BY <1>3 DEF RecordOperation, Slide
  <2>2. /\ Len(window') = Len(window) + 1
        /\ window'[Len(window) + 1] = success
        /\ \A i \in 1 .. Len(window) : window'[i] = window[i]
    BY <1>2, <2>1
  <2>3. Len(window) = Len(history) /\ Older = 0 /\ Older' = 0
    BY <1>1, <1>2, <1>3, <2>2, MonitorAssumption DEF Older
  <2>4. Len(window') = IF Len(history') < HealthWindowSize THEN Len(history') ELSE HealthWindowSize
    BY <1>1, <1>3, <2>2, <2>3, MonitorAssumption
  <2>5. ASSUME NEW i \in 1 .. Len(window') PROVE window'[i] = history'[Older' + i]
    BY <1>1, <1>2, <2>2, <2>3
  <2> QED
    BY <1>1, <2>4, <2>5 DEF HistoryInv
<1>4. CASE Len(window) = HealthWindowSize
  <2>1. window' = Append(Tail(window), success) /\ window # <<>>
    BY <1>2, <1>4, MonitorAssumption DEF RecordOperation, Slide
  <2>2. /\ Tail(window) \in Seq(BOOLEAN) /\ Len(Tail(window)) = HealthWindowSize - 1
        /\ \A i \in 1 .. HealthWindowSize - 1 : Tail(window)[i] = window[i + 1]
    BY <1>2, <1>4, <2>1, MonitorAssumption
  <2>3. /\ Len(window') = HealthWindowSize
        /\ window'[HealthWindowSize] = success
        /\ \A i \in 1 .. HealthWindowSize - 1 : window'[i] = window[i + 1]
    BY <2>1, <2>2, MonitorAssumption
  <2>4. /\ Len(history) >= HealthWindowSize
        /\ Older = Len(history) - HealthWindowSize /\ Older' = Older + 1
    <3>1. /\ Len(history) \in Nat /\ Len(history') = Len(history) + 1
          /\ Len(window') = Len(window) /\ HealthWindowSize \in Nat
      BY <1>1, <1>4, <2>3, MonitorAssumption
    <3>2. Len(history) >= HealthWindowSize
      BY <1>2, <1>4, <3>1
    <3> QED
      BY <1>4, <3>1, <3>2 DEF Older
  <2>5. Len(window') = IF Len(history') < HealthWindowSize THEN Len(history') ELSE HealthWindowSize
    BY <1>1, <2>3, <2>4, MonitorAssumption
  <2>6. ASSUME NEW i \in 1 .. Len(window') PROVE window'[i] = history'[Older' + i]
    <3>1. CASE i = HealthWindowSize
      BY <1>1, <2>3, <2>4, <3>1, MonitorAssumption
    <3>2. CASE i \in 1 .. HealthWindowSize - 1
      <4>1. window'[i] = window[i + 1] /\ i + 1 \in 1 .. Len(window)
        BY <1>4, <2>3, <3>2, MonitorAssumption
      <4>2. Older + (i + 1) \in 1 .. Len(history) /\ Older' + i = Older + (i + 1)
        BY <1>1, <2>4, <3>2, MonitorAssumption
      <4> QED
        BY <1>1, <1>2, <4>1, <4>2
    <3>3. i = HealthWindowSize \/ i \in 1 .. HealthWindowSize - 1
      BY <2>3, MonitorAssumption
    <3> QED
      BY <3>1, <3>2, <3>3
  <2> QED
    BY <1>1, <2>5, <2>6 DEF HistoryInv
<1> QED
  BY <1>2, <1>3, <1>4, MonitorAssumption

(* In every reachable state.                                               *)
LEMMA HistorySafe == Spec => []HistoryInv
<1>1. Init => HistoryInv
  <2> SUFFICES ASSUME Init PROVE HistoryInv
    OBVIOUS
  <2>1. history = <<>> /\ window = <<>>
    BY DEF Init, HealthInit
  <2>2. history \in Seq(BOOLEAN) /\ Len(history) = 0 /\ Len(window) = 0
    BY <2>1
  <2> QED
    BY <2>2, MonitorAssumption DEF HistoryInv
<1>2. HealthInv /\ HistoryInv /\ [Next]_vars => HistoryInv'
  <2> SUFFICES ASSUME HealthInv, HistoryInv, [Next]_vars PROVE HistoryInv'
    OBVIOUS
  <2>1. ASSUME UNCHANGED <<healthVars, history>> PROVE HistoryInv'
    BY <2>1 DEF healthVars, HistoryInv, Older
  <2>2. CASE MonitorStep
    BY <2>2, RecordHistory DEF MonitorStep
  <2> QED
    BY <2>1, <2>2 DEF Next, vars, partVars, BulkheadStep, BreakerStep
<1> QED
  BY <1>1, <1>2, PartsSafe, PTL DEF Spec

(* The failures in the window are those among the latest outcomes.         *)
LEMMA SameFailures ==
  ASSUME HealthInv, HistoryInv
  PROVE  FailuresAmong(Latest) = WindowErrors /\ Cardinality(Latest) = Len(window)
<1> DEFINE E == {i \in 1 .. Len(window) : ~window[i]}
           F == {i \in Latest : ~history[i]}
           later   == [i \in E |-> Older + i]
           earlier == [i \in F |-> i - Older]
<1>1. /\ Len(window) \in Nat /\ DOMAIN window = 1 .. Len(window) /\ Len(history) \in Nat
      /\ Len(window) = IF Len(history) < HealthWindowSize THEN Len(history) ELSE HealthWindowSize
      /\ \A i \in 1 .. Len(window) : window[i] = history[Older + i]
  BY DEF HistoryInv, HealthInv, HealthTypeOK
<1>2. /\ Older \in Nat /\ Len(history) = Older + Len(window)
      /\ Len(history) > HealthWindowSize => Len(history) - HealthWindowSize = Older
      /\ Len(history) <= HealthWindowSize => Older = 0
  BY <1>1, MonitorAssumption DEF Older
<1>3. Latest = Older + 1 .. Older + Len(window)
  BY <1>1, <1>2, MonitorAssumption DEF Latest
<1>4. Cardinality(Latest) = Len(window) /\ IsFiniteSet(Latest)
  <2> DEFINE a == Older + 1
             b == Older + Len(window)
  <2>1. a \in Int /\ b \in Int /\ (IF a > b THEN 0 ELSE b - a + 1) = Len(window)
    BY <1>1, <1>2
  <2> HIDE DEF a, b
  <2>2. IsFiniteSet(a .. b) /\ Cardinality(a .. b) = Len(window)
    BY <2>1, FS_Interval
  <2> QED
    BY <1>3, <2>2 DEF a, b
<1>5. IsFiniteSet(E) /\ IsFiniteSet(F)
  <2>1. IsFiniteSet(1 .. Len(window)) /\ E \in SUBSET (1 .. Len(window)) /\ F \in SUBSET Latest
    BY <1>1, FS_Interval
  <2> QED
    BY <1>4, <2>1, FS_Subset
<1>6. \A i \in E : i \in Nat /\ Older + i \in F
  BY <1>1, <1>2, <1>3
<1>7. \A i \in F : i \in Nat /\ i - Older \in E
  <2> SUFFICES ASSUME NEW i \in F PROVE i \in Nat /\ i - Older \in E
    OBVIOUS
  <2>1. i - Older \in 1 .. Len(window) /\ i \in Nat /\ Older + (i - Older) = i
    BY <1>1, <1>2, <1>3
  <2> QED
    BY <1>1, <2>1
<1> HIDE DEF E, F
<1>8. later \in Injection(E, F) /\ earlier \in Injection(F, E)
  BY <1>2, <1>6, <1>7 DEF Injection, IsInjective
<1> HIDE DEF later, earlier
<1>9. Cardinality(E) = Cardinality(F)
  <2>1. Cardinality(E) <= Cardinality(F) /\ Cardinality(F) <= Cardinality(E)
    BY <1>5, <1>8, FS_Injection
  <2>2. Cardinality(E) \in Nat /\ Cardinality(F) \in Nat
    BY <1>5, FS_CardinalityType
  <2> QED
    BY <2>1, <2>2
<1> QED
  BY <1>1, <1>4, <1>9 DEF WindowErrors, FailuresAmong, E, F

(* "Cumulative error rate dilutes recent spikes": is_healthy() looks at    *)
(* the latest health_window_size outcomes, all of them and no older one.   *)
THEOREM VerdictIsRecent == Spec => []VerdictFollowsLatest
<1>1. HealthInv /\ HistoryInv => VerdictFollowsLatest
  BY SameFailures DEF VerdictFollowsLatest, IsHealthy
<1> QED
  BY <1>1, PartsSafe, HistorySafe, PTL

-----------------------------------------------------------------------------
(* The bulkhead on the bench is a pool of max_concurrent_sends slots: no   *)
(* more calls own one at a time, and one that is given back is there again. *)
THEOREM BenchIsPool == Spec => IsResourcePool
<1>1. Init => BulkheadInit
  BY DEF Init
<1> QED
  BY <1>1, StepsOfTheParts, BulkheadImplementsPool, PTL DEF Spec, BulkheadSpec

=============================================================================
