--------------------------- MODULE DlqPartsProofs ---------------------------
(***************************************************************************)
(* Theorems about the parts of the dead-letter-queue producer, each by     *)
(* itself: Bulkhead, for every finite set of calls and every value of      *)
(* max_concurrent_sends; CircuitBreaker, for every choice of the two       *)
(* thresholds; SlidingWindowHealthMonitor, for every window size and every *)
(* history of outcomes.                                                    *)
(***************************************************************************)
EXTENDS Bulkhead, CircuitBreaker, SlidingWindowHealthMonitor, FiniteSetTheorems, TLAPS

(***************************************************************************)
(* The inductive invariant.  The bound permits <= MaxConcurrentSends of    *)
(* the type invariant is not inductive by itself: only the accounting      *)
(* tells that a call that releases the semaphore still holds a permit.     *)
(***************************************************************************)
BulkheadInv == BulkheadTypeOK /\ SlotAccounting /\ ActiveCountExact

(* Holders and Active are finite, and what one call's step does to them.   *)
LEMMA SetsFinite ==
  ASSUME BulkheadTypeOK
  PROVE  /\ IsFiniteSet(Holders) /\ Cardinality(Holders) \in Nat
         /\ IsFiniteSet(Active)  /\ Cardinality(Active) \in Nat
         /\ Active \subseteq Holders
BY BulkheadAssumption, FS_Subset, FS_CardinalityType DEF Holders, Active

(* Initially no call holds a slot and the semaphore is full.               *)
LEMMA BulkheadInitInv == BulkheadInit => BulkheadInv
<1> SUFFICES ASSUME BulkheadInit PROVE BulkheadInv
  OBVIOUS
<1>1. Holders = {} /\ Active = {}
  BY DEF BulkheadInit, Holders, Active
<1>2. Cardinality({}) = 0
  BY FS_EmptySet
<1> QED
  BY <1>1, <1>2, BulkheadAssumption
  DEF BulkheadInit, BulkheadInv, BulkheadTypeOK, SlotPhase, SlotAccounting, ActiveCountExact

(* The semaphore's wait: the call joins the holders and pays one permit.   *)
LEMMA SemAcquireInv ==
  ASSUME BulkheadInv, NEW c \in Calls, SemAcquire(c)
  PROVE  /\ BulkheadInv'
         /\ c \notin Holders
         /\ Holders' = Holders \union {c}
         /\ Cardinality(Holders) < MaxConcurrentSends
<1> USE DEF BulkheadInv, BulkheadTypeOK
<1>1. c \notin Holders /\ Holders' = Holders \union {c}
  BY DEF Holders, SemAcquire, SlotPhase
<1>2. Active' = Active
  BY DEF Active, SemAcquire
<1>3. Cardinality(Holders') = Cardinality(Holders) + 1
  BY <1>1, SetsFinite, FS_AddElement
<1>4. Cardinality(Holders) < MaxConcurrentSends
  BY SetsFinite, BulkheadAssumption DEF SlotAccounting, SemAcquire, Exhausted
<1>5. BulkheadTypeOK'
  BY BulkheadAssumption DEF SemAcquire, Exhausted, SlotPhase
<1>6. SlotAccounting' /\ ActiveCountExact'
  BY <1>2, <1>3, SetsFinite, BulkheadAssumption
  DEF SlotAccounting, ActiveCountExact, SemAcquire
<1> QED
  BY <1>1, <1>4, <1>5, <1>6

(* The counter goes up for a call that already holds its permit.           *)
LEMMA CountUpInv ==
  ASSUME BulkheadInv, NEW c \in Calls, CountUp(c)
  PROVE  BulkheadInv' /\ Holders' = Holders
<1> USE DEF BulkheadInv, BulkheadTypeOK
<1>1. Holders' = Holders
  BY DEF Holders, CountUp, SlotPhase
<1>2. c \notin Active /\ Active' = Active \union {c}
  BY DEF Active, CountUp, SlotPhase
<1>3. Cardinality(Active') = Cardinality(Active) + 1
  BY <1>2, SetsFinite, FS_AddElement
<1>4. BulkheadTypeOK'
  BY DEF CountUp, SlotPhase
<1>5. SlotAccounting' /\ ActiveCountExact'
  BY <1>1, <1>3, SetsFinite DEF SlotAccounting, ActiveCountExact, CountUp
<1> QED
  BY <1>1, <1>4, <1>5

(* The counter goes down, and the clamp at zero is not the case taken:     *)
(* the call that lowers it is itself counted.                              *)
LEMMA CountDownInv ==
  ASSUME BulkheadInv, NEW c \in Calls, CountDown(c)
  PROVE  BulkheadInv' /\ Holders' = Holders /\ activeCount > 0
<1> USE DEF BulkheadInv, BulkheadTypeOK
<1>1. Holders' = Holders
  BY DEF Holders, CountDown, SlotPhase
<1>2. c \in Active /\ Active' = Active \ {c}
  BY DEF Active, CountDown, SlotPhase
<1>3. Cardinality(Active') = Cardinality(Active) - 1 /\ Cardinality(Active') \in Nat
  BY <1>2, SetsFinite, FS_RemoveElement, FS_CardinalityType
<1>4. activeCount > 0
  BY <1>3, SetsFinite DEF ActiveCountExact
<1>5. BulkheadTypeOK'
  BY <1>4 DEF CountDown, SlotPhase
<1>6. SlotAccounting' /\ ActiveCountExact'
  BY <1>1, <1>3, <1>4, SetsFinite DEF SlotAccounting, ActiveCountExact, CountDown
<1> QED
  BY <1>1, <1>4, <1>5, <1>6

(* The permit comes back, and never over the initial value.                *)
LEMMA SemReleaseInv ==
  ASSUME BulkheadInv, NEW c \in Calls, SemRelease(c)
  PROVE  /\ BulkheadInv'
         /\ c \in Holders
         /\ Holders' = Holders \ {c}
<1> USE DEF BulkheadInv, BulkheadTypeOK
<1>1. c \in Holders /\ Holders' = Holders \ {c}
  BY DEF Holders, SemRelease, SlotPhase
<1>2. Active' = Active
  BY DEF Active, SemRelease
<1>3. Cardinality(Holders') = Cardinality(Holders) - 1 /\ Cardinality(Holders') \in Nat
  BY <1>1, SetsFinite, FS_RemoveElement, FS_CardinalityType
<1>4. permits < MaxConcurrentSends
  BY <1>3, SetsFinite, BulkheadAssumption DEF SlotAccounting
<1>5. BulkheadTypeOK'
  BY <1>4, BulkheadAssumption DEF SemRelease, SlotPhase
<1>6. SlotAccounting' /\ ActiveCountExact'
  BY <1>2, <1>3, SetsFinite, BulkheadAssumption
  DEF SlotAccounting, ActiveCountExact, SemRelease
<1> QED
  BY <1>1, <1>5, <1>6

(* One step of the bulkhead, or none, preserves the invariant.             *)
LEMMA BulkheadNextInv == BulkheadInv /\ [BulkheadNext]_bulkheadVars => BulkheadInv'
<1> SUFFICES ASSUME BulkheadInv, [BulkheadNext]_bulkheadVars PROVE BulkheadInv'
  OBVIOUS
<1>1. ASSUME NEW c \in Calls, Acquire(c) PROVE BulkheadInv'
  BY <1>1, SemAcquireInv, CountUpInv DEF Acquire
<1>2. ASSUME NEW c \in Calls, Release(c) PROVE BulkheadInv'
  BY <1>2, CountDownInv, SemReleaseInv DEF Release
<1>3. CASE UNCHANGED bulkheadVars
  BY <1>3 DEF bulkheadVars, BulkheadInv, BulkheadTypeOK, SlotAccounting, ActiveCountExact,
              Holders, Active
<1> QED
  BY <1>1, <1>2, <1>3 DEF BulkheadNext

(* The invariant bounds the counter that observers read.                   *)
LEMMA InvActiveWithinCap == BulkheadInv => ActiveWithinCap
<1> SUFFICES ASSUME BulkheadInv PROVE ActiveWithinCap
  OBVIOUS
<1>1. Cardinality(Active) <= Cardinality(Holders)
  BY SetsFinite, FS_Subset DEF BulkheadInv
<1> QED
  BY <1>1, SetsFinite, BulkheadAssumption
  DEF BulkheadInv, BulkheadTypeOK, SlotAccounting, ActiveCountExact, ActiveWithinCap

(* Type correctness, no leaked slot and an exact counter, in every         *)
(* reachable state of acquire() and release().                             *)
THEOREM BulkheadSafe == BulkheadSpec => []BulkheadInv
<1>1. BulkheadInit => BulkheadInv
  BY BulkheadInitInv
<1>2. BulkheadInv /\ [BulkheadNext]_bulkheadVars => BulkheadInv'
  BY BulkheadNextInv
<1> QED
  BY <1>1, <1>2, PTL DEF BulkheadSpec

(* The type invariant by itself: BoundedSemaphore.release never raises.    *)
THEOREM BulkheadTypeCorrect == BulkheadSpec => []BulkheadTypeOK
<1>1. BulkheadInv => BulkheadTypeOK
  BY DEF BulkheadInv
<1> QED
  BY <1>1, BulkheadSafe, PTL

(* health_status() never reports more active sends than configured.        *)
THEOREM ActiveCountBounded == BulkheadSpec => []ActiveWithinCap
BY BulkheadSafe, InvActiveWithinCap, PTL

(* acquire() and release() together implement a pool of                    *)
(* max_concurrent_sends slots.                                             *)
THEOREM BulkheadImplementsPool == BulkheadSpec => IsResourcePool
<1>1. BulkheadInit => Pool!Init
  BY DEF BulkheadInit, Pool!Init, Holders
<1>2. BulkheadInv /\ [BulkheadNext]_bulkheadVars => [Pool!Next]_Holders
  <2> SUFFICES ASSUME BulkheadInv, [BulkheadNext]_bulkheadVars PROVE [Pool!Next]_Holders
    OBVIOUS
  <2>1. ASSUME NEW c \in Calls, SemAcquire(c) PROVE Pool!Next
    <3>1. Pool!Cardinality(Holders) = Cardinality(Holders)
      BY DEF Pool!Cardinality, Cardinality
    <3> QED
      BY <2>1, <3>1, SemAcquireInv DEF Pool!Next, Pool!Take
  <2>2. ASSUME NEW c \in Calls, CountUp(c) \/ CountDown(c) PROVE UNCHANGED Holders
    BY <2>2, CountUpInv, CountDownInv
  <2>3. ASSUME NEW c \in Calls, SemRelease(c) PROVE Pool!Next
    BY <2>3, SemReleaseInv DEF Pool!Next, Pool!GiveBack
  <2>4. CASE UNCHANGED bulkheadVars
    BY <2>4 DEF bulkheadVars, Holders
  <2> QED
    BY <2>1, <2>2, <2>3, <2>4 DEF BulkheadNext, Acquire, Release
<1> QED
  BY <1>1, <1>2, BulkheadSafe, PTL DEF BulkheadSpec, IsResourcePool, Pool!Spec

-----------------------------------------------------------------------------

(***************************************************************************)
(* The inductive invariant: the type, and that no operation runs under an  *)
(* OPEN circuit, so that the outcome of one is counted by the state that   *)
(* let it through.                                                         *)
(***************************************************************************)
BreakerInv == BreakerTypeOK /\ NeverOpenUnderACall

(* Before the first call.                                                  *)
LEMMA BreakerInitInv == BreakerInit => BreakerInv
BY BreakerAssumption
DEF BreakerInit, BreakerInv, BreakerTypeOK, NeverOpenUnderACall, CircuitState

(* The protected operation begins: the circuit is not OPEN any more.       *)
LEMMA EnterInv ==
  ASSUME BreakerInv, NEW c \in Calls, Enter(c)
  PROVE  BreakerInv' /\ ~InBlackout /\ circuit' # "OPEN"
BY BreakerAssumption
DEF BreakerInv, BreakerTypeOK, NeverOpenUnderACall, CircuitState, Enter, InBlackout

(* It returns: both counters stay below their thresholds, because the one  *)
(* that would reach its own closes the circuit instead.                    *)
LEMMA SucceedInv ==
  ASSUME BreakerInv, NEW c \in Calls, Succeed(c)
  PROVE  BreakerInv'
<1> USE DEF BreakerInv, BreakerTypeOK, NeverOpenUnderACall, CircuitState, Succeed
<1>1. caller # NoCall /\ circuit # "OPEN" /\ blackoutOver
  BY BreakerAssumption
<1>2. circuit' \in CircuitState /\ circuit' # "OPEN" /\ blackoutOver' = blackoutOver
  BY <1>1
<1>3. failCount' \in 0 .. FailureThreshold - 1 /\ successCount' \in 0 .. SuccessThreshold - 1
  BY BreakerAssumption DEF Recovers
<1> QED
  BY <1>1, <1>2, <1>3

(* It raises: likewise, and if the circuit opens its blackout starts anew. *)
LEMMA FailInv ==
  ASSUME BreakerInv, NEW c \in Calls, Fail(c)
  PROVE  BreakerInv'
<1> USE DEF BreakerInv, BreakerTypeOK, NeverOpenUnderACall, CircuitState, Fail
<1>1. caller # NoCall /\ circuit # "OPEN" /\ blackoutOver
  BY BreakerAssumption
<1>2. /\ circuit' \in CircuitState
      /\ blackoutOver' \in BOOLEAN
      /\ ~blackoutOver' => circuit' = "OPEN"
  BY <1>1
<1>3. failCount' \in 0 .. FailureThreshold - 1 /\ successCount' \in 0 .. SuccessThreshold - 1
  BY BreakerAssumption DEF Trips
<1>4. caller' = NoCall
  OBVIOUS
<1> QED
  BY <1>2, <1>3, <1>4

(* One step of the breaker, or none, preserves the invariant.              *)
LEMMA BreakerNextInv == BreakerInv /\ [BreakerNext]_breakerVars => BreakerInv'
<1> SUFFICES ASSUME BreakerInv, [BreakerNext]_breakerVars PROVE BreakerInv'
  OBVIOUS
<1>1. ASSUME NEW c \in Calls, Refuse(c) PROVE UNCHANGED breakerVars
  BY <1>1 DEF Refuse
<1>2. CASE Reset
  BY <1>2, BreakerAssumption
  DEF Reset, BreakerInv, BreakerTypeOK, NeverOpenUnderACall, CircuitState
<1>3. CASE BlackoutElapses
  BY <1>3 DEF BlackoutElapses, InBlackout, BreakerInv, BreakerTypeOK, NeverOpenUnderACall
<1>4. CASE UNCHANGED breakerVars
  BY <1>4 DEF breakerVars, BreakerInv, BreakerTypeOK, NeverOpenUnderACall
<1> QED
  BY <1>1, <1>2, <1>3, <1>4, EnterInv, SucceedInv, FailInv DEF BreakerNext

(* In every reachable state the counters are below their thresholds and no *)
(* protected operation runs while the circuit is OPEN.                     *)
THEOREM BreakerSafe == BreakerSpec => []BreakerInv
<1>1. BreakerInit => BreakerInv
  BY BreakerInitInv
<1>2. BreakerInv /\ [BreakerNext]_breakerVars => BreakerInv'
  BY BreakerNextInv
<1> QED
  BY <1>1, <1>2, PTL DEF BreakerSpec

(* The type invariant by itself.                                           *)
THEOREM BreakerTypeCorrect == BreakerSpec => []BreakerTypeOK
<1>1. BreakerInv => BreakerTypeOK
  BY DEF BreakerInv
<1> QED
  BY <1>1, BreakerSafe, PTL

-----------------------------------------------------------------------------

(* The inductive invariant: the type invariant says what the window is,    *)
(* SnapshotConsistent how it relates to the totals.                        *)
HealthInv == HealthTypeOK /\ SnapshotConsistent

ErrorsIn(w) == {i \in DOMAIN w : ~w[i]}

(* The errors of a window form a finite set.                               *)
LEMMA ErrorsFinite ==
  ASSUME NEW w \in Seq(BOOLEAN)
  PROVE  IsFiniteSet(ErrorsIn(w)) /\ Cardinality(ErrorsIn(w)) \in Nat
<1>1. IsFiniteSet(1 .. Len(w)) /\ DOMAIN w = 1 .. Len(w)
  BY FS_Interval
<1> QED
  BY <1>1, FS_Subset, FS_CardinalityType DEF ErrorsIn

(* A new entry brings at most one error, and none when it is a success.    *)
LEMMA ErrorsAppend ==
  ASSUME NEW w \in Seq(BOOLEAN), NEW success \in BOOLEAN
  PROVE  Cardinality(ErrorsIn(Append(w, success)))
           = Cardinality(ErrorsIn(w)) + IF success THEN 0 ELSE 1
<1> DEFINE n == Len(w) + 1
<1>1. /\ DOMAIN w = 1 .. Len(w) /\ Len(w) \in Nat
      /\ DOMAIN Append(w, success) = 1 .. n
      /\ Append(w, success)[n] = success
      /\ \A i \in 1 .. Len(w) : Append(w, success)[i] = w[i]
  OBVIOUS
<1>2. n \notin ErrorsIn(w)
  BY <1>1 DEF ErrorsIn
<1>3. CASE success
  <2>1. ErrorsIn(Append(w, success)) = ErrorsIn(w)
    BY <1>1, <1>3 DEF ErrorsIn
  <2> QED
    BY <2>1, <1>3, ErrorsFinite
<1>4. CASE ~success
  <2>1. ErrorsIn(Append(w, success)) = ErrorsIn(w) \union {n}
    BY <1>1, <1>4 DEF ErrorsIn
  <2> QED
    BY <2>1, <1>2, <1>4, ErrorsFinite, FS_AddElement
<1> QED
  BY <1>3, <1>4

(* Dropping the oldest entry adds no error.                                *)
LEMMA ErrorsTail ==
  ASSUME NEW w \in Seq(BOOLEAN), w # <<>>
  PROVE  Cardinality(ErrorsIn(Tail(w))) <= Cardinality(ErrorsIn(w))
<1> DEFINE T == ErrorsIn(Tail(w))
           shift == [i \in T |-> i + 1]
<1>1. /\ Tail(w) \in Seq(BOOLEAN)
      /\ DOMAIN w = 1 .. Len(w) /\ Len(w) \in Nat
      /\ DOMAIN Tail(w) = 1 .. Len(w) - 1
      /\ \A i \in 1 .. Len(w) - 1 : Tail(w)[i] = w[i + 1]
  OBVIOUS
<1>2. \A i \in T : i \in Int /\ i + 1 \in ErrorsIn(w)
  BY <1>1 DEF ErrorsIn
<1>3. shift \in Injection(T, ErrorsIn(w))
  BY <1>2 DEF Injection, IsInjective
<1>4. IsFiniteSet(ErrorsIn(w))
  BY ErrorsFinite
<1> HIDE DEF T, shift
<1>5. Cardinality(T) <= Cardinality(ErrorsIn(w))
  BY <1>3, <1>4, FS_Injection
<1> QED
  BY <1>5 DEF T

(* Sliding the window: its length and its errors.                          *)
LEMMA SlideFacts ==
  ASSUME NEW w \in Seq(BOOLEAN), Len(w) <= HealthWindowSize, NEW success \in BOOLEAN
  PROVE  /\ Slide(w, success) \in Seq(BOOLEAN)
         /\ Len(Slide(w, success)) = IF Len(w) < HealthWindowSize THEN Len(w) + 1
                                                                  ELSE HealthWindowSize
         /\ Cardinality(ErrorsIn(Slide(w, success)))
              <= Cardinality(ErrorsIn(w)) + IF success THEN 0 ELSE 1
<1>1. CASE Len(w) < HealthWindowSize
  BY <1>1, ErrorsAppend, ErrorsFinite DEF Slide
<1>2. CASE ~(Len(w) < HealthWindowSize)
  <2>1. Len(w) = HealthWindowSize /\ w # <<>>
    BY <1>2, MonitorAssumption
  <2>2. Tail(w) \in Seq(BOOLEAN) /\ Len(Tail(w)) = HealthWindowSize - 1
    BY <2>1
  <2>3. Slide(w, success) = Append(Tail(w), success)
    BY <1>2 DEF Slide
  <2>4. /\ Append(Tail(w), success) \in Seq(BOOLEAN)
        /\ Len(Append(Tail(w), success)) = HealthWindowSize
    BY <2>2, MonitorAssumption
  <2>5. Cardinality(ErrorsIn(Append(Tail(w), success)))
          <= Cardinality(ErrorsIn(w)) + IF success THEN 0 ELSE 1
    <3>1. Cardinality(ErrorsIn(Tail(w))) <= Cardinality(ErrorsIn(w))
      BY <2>1, ErrorsTail
    <3>2. Cardinality(ErrorsIn(Append(Tail(w), success)))
            = Cardinality(ErrorsIn(Tail(w))) + IF success THEN 0 ELSE 1
      BY <2>2, ErrorsAppend
    <3>3. Cardinality(ErrorsIn(Tail(w))) \in Nat /\ Cardinality(ErrorsIn(w)) \in Nat
      BY <2>2, ErrorsFinite
    <3> QED
      BY <3>1, <3>2, <3>3
  <2> QED
    BY <1>2, <2>3, <2>4, <2>5
<1> QED
  BY <1>1, <1>2

(* The empty history.                                                      *)
LEMMA HealthInitInv == HealthInit => HealthInv
<1> SUFFICES ASSUME HealthInit PROVE HealthInv
  OBVIOUS
<1>1. {i \in DOMAIN window : ~window[i]} = {}
  BY DEF HealthInit
<1>2. WindowErrors = 0
  BY <1>1, FS_EmptySet DEF WindowErrors
<1> QED
  BY <1>2, MonitorAssumption DEF HealthInit, HealthInv, HealthTypeOK, SnapshotConsistent

(* One more outcome.                                                       *)
LEMMA RecordInv ==
  ASSUME HealthInv, NEW success \in BOOLEAN, RecordOperation(success)
  PROVE  HealthInv'
<1> USE DEF HealthInv, HealthTypeOK
<1>1. /\ WindowErrors = Cardinality(ErrorsIn(window)) /\ WindowErrors \in Nat
      /\ WindowErrors' = Cardinality(ErrorsIn(Slide(window, success)))
  BY ErrorsFinite DEF WindowErrors, ErrorsIn, RecordOperation
<1>2. HealthTypeOK'
  BY SlideFacts, MonitorAssumption DEF RecordOperation
<1>3. WindowErrors' \in Nat /\ WindowErrors' <= WindowErrors + IF success THEN 0 ELSE 1
  BY <1>1, SlideFacts, ErrorsFinite
<1>4. SnapshotConsistent'
  <2>1. WindowErrors' <= totalErrors' /\ totalErrors' <= totalOperations'
    BY <1>1, <1>3 DEF SnapshotConsistent, RecordOperation
  <2>2. Len(window') = IF totalOperations' < HealthWindowSize
                       THEN totalOperations' ELSE HealthWindowSize
    BY SlideFacts, MonitorAssumption DEF SnapshotConsistent, RecordOperation
  <2> QED
    BY <2>1, <2>2 DEF SnapshotConsistent
<1> QED
  BY <1>2, <1>4

(* Recording, or not, preserves the invariant.                             *)
LEMMA HealthNextInv == HealthInv /\ [HealthNext]_healthVars => HealthInv'
<1> SUFFICES ASSUME HealthInv, [HealthNext]_healthVars PROVE HealthInv'
  OBVIOUS
<1>1. CASE UNCHANGED healthVars
  BY <1>1 DEF healthVars, HealthInv, HealthTypeOK, SnapshotConsistent, WindowErrors
<1> QED
  BY <1>1, RecordInv DEF HealthNext

(* A snapshot always fits together, after any number of operations.        *)
THEOREM MonitorSafe == HealthSpec => []HealthInv
<1>1. HealthInit => HealthInv
  BY HealthInitInv
<1>2. HealthInv /\ [HealthNext]_healthVars => HealthInv'
  BY HealthNextInv
<1> QED
  BY <1>1, <1>2, PTL DEF HealthSpec

(* The window shows no more errors than were counted, and a sample for     *)
(* every operation until it is full.                                       *)
THEOREM SnapshotsFit == HealthSpec => []SnapshotConsistent
<1>1. HealthInv => SnapshotConsistent
  BY DEF HealthInv
<1> QED
  BY <1>1, MonitorSafe, PTL

=============================================================================
