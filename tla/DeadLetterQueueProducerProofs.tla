-------------------- MODULE DeadLetterQueueProducerProofs --------------------
(***************************************************************************)
(* Theorems about DeadLetterQueueProducer, for every finite set of calls   *)
(* and every admissible configuration.                                     *)
(*                                                                         *)
(* The proof is modular.  Seen through one part's variables every step of  *)
(* the producer is a step of that part, so what DlqPartsProofs proves of   *)
(* the parts holds here.  ProducerInv is then shown inductive, given the   *)
(* parts' invariants before and after the step.                            *)
(***************************************************************************)
EXTENDS DeadLetterQueueProducer, FiniteSetTheorems, TLAPS

Parts == INSTANCE DlqPartsProofs

-----------------------------------------------------------------------------
(* The parts                                                               *)

(* The assumptions of the parts follow from the producer's.                *)
LEMMA PartAssumptions ==
  /\ Parts!BreakerAssumption
  /\ Parts!BulkheadAssumption
  /\ Parts!MonitorAssumption
BY ProducerAssumption
DEF Parts!BreakerAssumption, Parts!BulkheadAssumption,
    Parts!MonitorAssumption, Parts!IsFiniteSet, IsFiniteSet

(* A step of the producer is, for the breaker, one of its own or none.     *)
LEMMA BreakerSteps ==
  [Next]_vars => [Parts!BreakerNext]_(Parts!breakerVars)
<1> USE DEF breakerVars, Parts!breakerVars
<1> SUFFICES ASSUME [Next]_vars
             PROVE  Parts!BreakerNext \/ UNCHANGED breakerVars
  OBVIOUS
<1>1. ASSUME NEW c \in Calls, Step(c)
      PROVE  Parts!BreakerNext \/ UNCHANGED breakerVars
  <2>1. CASE EnterBreaker(c)
    BY <2>1 DEF EnterBreaker, Breaker!Enter, Parts!Enter, Breaker!InBlackout,
                Parts!InBlackout, Parts!BreakerNext
  <2>2. CASE RefusedByBreaker(c)
    BY <2>2 DEF RefusedByBreaker, Breaker!Refuse, Breaker!breakerVars
  <2>3. CASE SendReturns(c)
    BY <2>3 DEF SendReturns, Breaker!Succeed, Parts!Succeed, Breaker!Recovers,
                Parts!Recovers, Parts!BreakerNext
  <2>4. CASE SendDeclines(c)
    BY <2>4 DEF SendDeclines, Breaker!Succeed, Parts!Succeed, Breaker!Recovers,
                Parts!Recovers, Parts!BreakerNext
  <2>5. CASE SendRaises(c)
    BY <2>5 DEF SendRaises, Breaker!Fail, Parts!Fail, Breaker!Trips,
                Parts!Trips, Parts!BreakerNext
  <2>6. CASE Interrupt(c)
    BY <2>6 DEF Interrupt, InterruptBeforeTry, InterruptLockWait, InterruptCall,
                InterruptRelease
  <2> QED
    BY <1>1, <2>1, <2>2, <2>3, <2>4, <2>5, <2>6
    DEF Step, Proceed, Attempt, DeadLetter, Rejection, PassGate, FastFail, AcquireSlot,
        BulkheadFull, NextAttempt, SkipDlq, StartDlqWrite, DlqWriteReturns, DlqWriteDeclines,
        DlqWriteRaises, Record, ReleaseSlot
<1>2. CASE Environment
  BY <1>2 DEF Environment, LandLate, LandLateInDlq, SetDlqEnabled,
              BlackoutElapses, Breaker!BlackoutElapses, Parts!BlackoutElapses,
              Breaker!InBlackout, Parts!InBlackout,
              ResetCircuitBreaker, Breaker!Reset, Parts!Reset,
              Parts!BreakerNext
<1>3. CASE UNCHANGED vars
  BY <1>3 DEF vars
<1> QED
  BY <1>1, <1>2, <1>3 DEF Next

(* Likewise for the bulkhead.                                              *)
LEMMA SlotSteps ==
  [Next]_vars => [Parts!BulkheadNext]_(Parts!bulkheadVars)
<1> USE DEF bulkheadVars, Parts!bulkheadVars
<1> SUFFICES ASSUME [Next]_vars
             PROVE  Parts!BulkheadNext \/ UNCHANGED bulkheadVars
  OBVIOUS
<1>1. ASSUME NEW c \in Calls, Step(c)
      PROVE  Parts!BulkheadNext \/ UNCHANGED bulkheadVars
  <2>1. CASE AcquireSlot(c)
    BY <2>1 DEF AcquireSlot, Slots!Acquire, Slots!SemAcquire, Slots!CountUp, Slots!Exhausted,
                Parts!Acquire, Parts!SemAcquire, Parts!CountUp,
                Parts!Exhausted, Parts!BulkheadNext
  <2>2. CASE ReleaseSlot(c)
    BY <2>2 DEF ReleaseSlot, Slots!Release, Slots!CountDown, Slots!SemRelease,
                Parts!Release, Parts!CountDown, Parts!SemRelease,
                Parts!BulkheadNext
  <2>3. CASE Interrupt(c)
    BY <2>3 DEF Interrupt, InterruptBeforeTry, InterruptLockWait, InterruptCall,
                InterruptRelease, Slots!CountUp, Parts!Acquire, Parts!CountUp,
                Parts!BulkheadNext
  <2> QED
    BY <1>1, <2>1, <2>2, <2>3
    DEF Step, Proceed, Attempt, DeadLetter, Rejection, PassGate, FastFail, BulkheadFull,
        EnterBreaker, RefusedByBreaker, SendReturns, SendDeclines, SendRaises, NextAttempt,
        SkipDlq, StartDlqWrite, DlqWriteReturns, DlqWriteDeclines, DlqWriteRaises, Record
<1>2. CASE Environment
  BY <1>2 DEF Environment, LandLate, LandLateInDlq, SetDlqEnabled, BlackoutElapses,
              ResetCircuitBreaker
<1>3. CASE UNCHANGED vars
  BY <1>3 DEF vars
<1> QED
  BY <1>1, <1>2, <1>3 DEF Next

(* Likewise for the health monitor.                                        *)
LEMMA HealthSteps ==
  [Next]_vars => [Parts!HealthNext]_(Parts!healthVars)
<1> USE DEF healthVars, Parts!healthVars
<1> SUFFICES ASSUME [Next]_vars
             PROVE  Parts!HealthNext \/ UNCHANGED healthVars
  OBVIOUS
<1>1. ASSUME NEW c \in Calls, Step(c)
      PROVE  Parts!HealthNext \/ UNCHANGED healthVars
  <2>1. CASE Record(c)
    <3> DEFINE success == error[c] \in {"none", "unread"}
    <3>1. Health!RecordOperation(success) /\ success \in BOOLEAN
      BY <2>1 DEF Record
    <3>2. Parts!RecordOperation(success)
      BY <3>1 DEF Health!RecordOperation, Parts!RecordOperation,
                  Health!Slide, Parts!Slide
    <3> QED
      BY <3>1, <3>2 DEF Parts!HealthNext
  <2>2. CASE Interrupt(c)
    BY <2>2 DEF Interrupt, InterruptBeforeTry, InterruptLockWait, InterruptCall,
                InterruptRelease
  <2> QED
    BY <1>1, <2>1, <2>2
    DEF Step, Proceed, Attempt, DeadLetter, Rejection, PassGate, FastFail, AcquireSlot,
        BulkheadFull, EnterBreaker, RefusedByBreaker, SendReturns, SendDeclines, SendRaises,
        NextAttempt, SkipDlq, StartDlqWrite, DlqWriteReturns, DlqWriteDeclines,
        DlqWriteRaises, ReleaseSlot
<1>2. CASE Environment
  BY <1>2 DEF Environment, LandLate, LandLateInDlq, SetDlqEnabled, BlackoutElapses,
              ResetCircuitBreaker
<1>3. CASE UNCHANGED vars
  BY <1>3 DEF vars
<1> QED
  BY <1>1, <1>2, <1>3 DEF Next

(* What the proofs below need to know of the parts.                        *)
PartsInv ==
  /\ Breaker!BreakerTypeOK /\ Breaker!NeverOpenUnderACall
  /\ Slots!BulkheadTypeOK /\ Slots!SlotAccounting /\ Slots!ActiveCountExact
  /\ Health!HealthTypeOK

(* The parts keep their invariants inside the producer.                    *)
LEMMA PartsSafe == Spec => []PartsInv
<1>1. Spec => []Parts!BreakerInv
  <2>1. Init => Parts!BreakerInit
    BY DEF Init, Breaker!BreakerInit, Parts!BreakerInit
  <2>2. Parts!BreakerSpec => []Parts!BreakerInv
    BY PartAssumptions, Parts!BreakerSafe
  <2> QED
    BY <2>1, <2>2, BreakerSteps, PTL DEF Spec, Parts!BreakerSpec
<1>2. Spec => []Parts!BulkheadInv
  <2>1. Init => Parts!BulkheadInit
    BY DEF Init, Slots!BulkheadInit, Parts!BulkheadInit
  <2>2. Parts!BulkheadSpec => []Parts!BulkheadInv
    BY PartAssumptions, Parts!BulkheadSafe
  <2> QED
    BY <2>1, <2>2, SlotSteps, PTL DEF Spec, Parts!BulkheadSpec
<1>3. Spec => []Parts!HealthInv
  <2>1. Init => Parts!HealthInit
    BY DEF Init, Health!HealthInit, Parts!HealthInit
  <2>2. Parts!HealthSpec => []Parts!HealthInv
    BY PartAssumptions, Parts!MonitorSafe
  <2> QED
    BY <2>1, <2>2, HealthSteps, PTL DEF Spec, Parts!HealthSpec
<1>4. Parts!BreakerInv => Breaker!BreakerTypeOK /\ Breaker!NeverOpenUnderACall
  BY DEF Parts!BreakerInv, Parts!BreakerTypeOK, Breaker!BreakerTypeOK,
         Parts!CircuitState, Breaker!CircuitState,
         Parts!NeverOpenUnderACall, Breaker!NeverOpenUnderACall
<1>5. Parts!BulkheadInv
        => Slots!BulkheadTypeOK /\ Slots!SlotAccounting /\ Slots!ActiveCountExact
  BY DEF Parts!BulkheadInv, Parts!BulkheadTypeOK, Slots!BulkheadTypeOK,
         Parts!SlotPhase, Slots!SlotPhase, Parts!SlotAccounting,
         Slots!SlotAccounting, Parts!ActiveCountExact, Slots!ActiveCountExact,
         Parts!Holders, Slots!Holders, Parts!Active, Slots!Active,
         Parts!Cardinality, Slots!Cardinality
<1>6. Parts!HealthInv => Health!HealthTypeOK
  BY DEF Parts!HealthInv, Parts!HealthTypeOK, Health!HealthTypeOK
<1> QED
  BY <1>1, <1>2, <1>3, <1>4, <1>5, <1>6, PTL DEF PartsInv

-----------------------------------------------------------------------------
(* The calls                                                               *)

(* A step of one call leaves the state of every other call alone.          *)
LEMMA OthersUnmoved ==
  ASSUME PartsInv, CallTypeOK, NEW c \in Calls, Step(c), NEW d \in Calls, d # c
  PROVE  /\ pc'[d] = pc[d] /\ attempt'[d] = attempt[d] /\ error'[d] = error[d]
         /\ slot'[d] = slot[d] /\ copies'[d] = copies[d] /\ doubt'[d] = doubt[d]
         /\ dlq'[d] = dlq[d] /\ dlqCopies'[d] = dlqCopies[d] /\ dlqDoubt'[d] = dlqDoubt[d]
<1> USE DEF CallTypeOK, PartsInv, Slots!BulkheadTypeOK, GoTo, FailWith, bulkheadVars,
            callVars, topicVars
<1>1. CASE PassGate(c) \/ Rejection(c)
  BY <1>1 DEF PassGate, Rejection, FastFail, BulkheadFull
<1>2. CASE AcquireSlot(c)
  BY <1>2 DEF AcquireSlot, Slots!Acquire, Slots!SemAcquire, Slots!CountUp
<1>3. CASE EnterBreaker(c) \/ RefusedByBreaker(c)
  BY <1>3 DEF EnterBreaker, RefusedByBreaker
<1>4. CASE SendReturns(c) \/ SendDeclines(c)
  BY <1>4 DEF SendReturns, SendDeclines
<1>5. CASE SendRaises(c)
  BY <1>5 DEF SendRaises
<1>6. CASE NextAttempt(c)
  BY <1>6 DEF NextAttempt
<1>7. CASE SkipDlq(c) \/ StartDlqWrite(c)
  BY <1>7 DEF SkipDlq, StartDlqWrite
<1>8. CASE DlqWriteReturns(c) \/ DlqWriteDeclines(c)
  BY <1>8 DEF DlqWriteReturns, DlqWriteDeclines
<1>9. CASE DlqWriteRaises(c)
  BY <1>9 DEF DlqWriteRaises
<1>10. CASE Record(c)
  BY <1>10 DEF Record
<1>11. CASE ReleaseSlot(c)
  BY <1>11 DEF ReleaseSlot, Slots!Release, Slots!CountDown, Slots!SemRelease
<1>12. CASE Interrupt(c)
  BY <1>12 DEF Interrupt, InterruptBeforeTry, InterruptLockWait, InterruptCall,
               InterruptRelease, Slots!CountUp
<1> QED
  BY <1>1, <1>2, <1>3, <1>4, <1>5, <1>6, <1>7, <1>8, <1>9, <1>10, <1>11, <1>12
  DEF Step, Proceed, Attempt, DeadLetter

(* so the state of the others still fits together.                         *)
LEMMA OthersFit ==
  ASSUME PartsInv, CallTypeOK, NEW c \in Calls, Step(c), NEW d \in Calls, d # c, CallFits(d)
  PROVE  CallFits(d)'
BY OthersUnmoved
DEF CallFits, SlotFits, AttemptFits, ResultFits, DlqFits, Done, Rejected

(* The step itself keeps the types of the call's state.                    *)
LEMMA StepTypes ==
  ASSUME PartsInv, CallTypeOK, NEW c \in Calls, CallFits(c), Step(c)
  PROVE  CallTypeOK'
<1> USE ProducerAssumption DEF CallTypeOK, Stage, Error, DlqResult, GoTo, FailWith, callVars,
                               topicVars
<1>1. CASE PassGate(c) \/ Rejection(c)
  BY <1>1 DEF PassGate, Rejection, FastFail, BulkheadFull
<1>2. CASE AcquireSlot(c)
  BY <1>2 DEF AcquireSlot
<1>3. CASE EnterBreaker(c) \/ RefusedByBreaker(c)
  BY <1>3 DEF EnterBreaker, RefusedByBreaker
<1>4. CASE SendReturns(c) \/ SendDeclines(c)
  BY <1>4 DEF SendReturns, SendDeclines
<1>5. CASE SendRaises(c)
  BY <1>5 DEF SendRaises, MayLand
<1>6. CASE NextAttempt(c)
  BY <1>6 DEF NextAttempt, CallFits, AttemptFits
<1>7. CASE SkipDlq(c) \/ StartDlqWrite(c)
  BY <1>7 DEF SkipDlq, StartDlqWrite
<1>8. CASE DlqWriteReturns(c)
  <2>1. dlqCopies[c] = 0
    BY <1>8 DEF DlqWriteReturns, CallFits, DlqFits
  <2> QED
    BY <1>8, <2>1 DEF DlqWriteReturns
<1>9. CASE DlqWriteDeclines(c)
  BY <1>9 DEF DlqWriteDeclines
<1>10. CASE DlqWriteRaises(c)
  BY <1>10 DEF DlqWriteRaises, MayLand
<1>11. CASE Record(c)
  BY <1>11 DEF Record
<1>12. CASE ReleaseSlot(c)
  BY <1>12 DEF ReleaseSlot
<1>13. CASE Interrupt(c)
  BY <1>13 DEF Interrupt, InterruptBeforeTry, InterruptLockWait, InterruptCall,
               InterruptRelease
<1> QED
  BY <1>1, <1>2, <1>3, <1>4, <1>5, <1>6, <1>7, <1>8, <1>9, <1>10, <1>11, <1>12, <1>13
  DEF Step, Proceed, Attempt, DeadLetter

(* and takes the call from one stage to the next with its state in order.  *)
LEMMA StepFits ==
  ASSUME PartsInv, CallTypeOK, NEW c \in Calls, CallFits(c), Step(c)
  PROVE  CallFits(c)'
<1> USE ProducerAssumption
    DEF CallTypeOK, PartsInv, Slots!BulkheadTypeOK, Stage, Error, DlqResult, Slots!SlotPhase,
        GoTo, FailWith, bulkheadVars, callVars, topicVars,
        CallFits, SlotFits, AttemptFits, ResultFits, DlqFits, Done, Rejected
<1>1. CASE PassGate(c)
  BY <1>1 DEF PassGate
<1>2. CASE FastFail(c)
  BY <1>2 DEF FastFail
<1>3. CASE BulkheadFull(c)
  BY <1>3 DEF BulkheadFull
<1>4. CASE AcquireSlot(c)
  BY <1>4 DEF AcquireSlot, Slots!Acquire, Slots!SemAcquire, Slots!CountUp
<1>5. CASE EnterBreaker(c)
  BY <1>5 DEF EnterBreaker
<1>6. CASE RefusedByBreaker(c)
  BY <1>6 DEF RefusedByBreaker
<1>7. CASE SendReturns(c)
  BY <1>7 DEF SendReturns
<1>8. CASE SendDeclines(c)
  BY <1>8 DEF SendDeclines
<1>9. CASE SendRaises(c)
  BY <1>9 DEF SendRaises, AttemptsLeft, MayLand
<1>10. CASE NextAttempt(c)
  BY <1>10 DEF NextAttempt
<1>11. CASE SkipDlq(c)
  BY <1>11 DEF SkipDlq
<1>12. CASE StartDlqWrite(c)
  BY <1>12 DEF StartDlqWrite
<1>13. CASE DlqWriteReturns(c)
  BY <1>13 DEF DlqWriteReturns
<1>14. CASE DlqWriteDeclines(c)
  BY <1>14 DEF DlqWriteDeclines
<1>15. CASE DlqWriteRaises(c)
  BY <1>15 DEF DlqWriteRaises, MayLand
<1>16. CASE Record(c)
  BY <1>16 DEF Record
<1>17. CASE ReleaseSlot(c)
  BY <1>17 DEF ReleaseSlot, Slots!Release, Slots!CountDown, Slots!SemRelease
<1>18. CASE Interrupt(c)
  <2>1. CASE InterruptBeforeTry(c)
    BY <1>18, <2>1 DEF Interrupt, InterruptBeforeTry, Slots!CountUp
  <2>2. CASE InterruptLockWait(c)
    BY <2>2 DEF InterruptLockWait, AttemptsLeft
  <2>3. CASE InterruptCall(c)
    BY <2>3 DEF InterruptCall
  <2>4. CASE InterruptRelease(c)
    BY <1>18, <2>4 DEF Interrupt, InterruptRelease
  <2> QED
    BY <1>18, <2>1, <2>2, <2>3, <2>4 DEF Interrupt
<1> QED
  BY <1>1, <1>2, <1>3, <1>4, <1>5, <1>6, <1>7, <1>8, <1>9, <1>10, <1>11, <1>12, <1>13,
     <1>14, <1>15, <1>16, <1>17, <1>18
  DEF Step, Proceed, Attempt, DeadLetter, Rejection

(* The breaker's lock changes hands as the caller enters and leaves the    *)
(* stage in which it sends.                                                *)
LEMMA StepLock ==
  ASSUME PartsInv, CallTypeOK, LockFits, NEW c \in Calls, Step(c)
  PROVE  LockFits'
<1> SUFFICES ASSUME NEW d \in Calls PROVE (pc[d] = "sending" <=> caller = d)'
  BY DEF LockFits
<1> USE ProducerAssumption DEF CallTypeOK, GoTo, LockFits
<1>1. CASE EnterBreaker(c)
  BY <1>1 DEF EnterBreaker, Breaker!Enter
<1>2. CASE SendReturns(c) \/ SendDeclines(c)
  BY <1>2 DEF SendReturns, SendDeclines, Breaker!Succeed
<1>3. CASE SendRaises(c)
  BY <1>3 DEF SendRaises, Breaker!Fail
<1>4. CASE RefusedByBreaker(c)
  BY <1>4 DEF RefusedByBreaker, Breaker!Refuse, Breaker!breakerVars
<1>5. CASE PassGate(c) \/ Rejection(c) \/ AcquireSlot(c)
  BY <1>5 DEF PassGate, Rejection, FastFail, BulkheadFull, AcquireSlot, breakerVars
<1>6. CASE NextAttempt(c) \/ Interrupt(c)
  BY <1>6 DEF NextAttempt, Interrupt, InterruptBeforeTry, InterruptLockWait, InterruptCall,
              InterruptRelease, breakerVars
<1>7. CASE DeadLetter(c)
  BY <1>7 DEF DeadLetter, SkipDlq, StartDlqWrite, DlqWriteReturns, DlqWriteDeclines,
              DlqWriteRaises, breakerVars
<1>8. CASE Record(c) \/ ReleaseSlot(c)
  BY <1>8 DEF Record, ReleaseSlot, breakerVars
<1> QED
  BY <1>1, <1>2, <1>3, <1>4, <1>5, <1>6, <1>7, <1>8 DEF Step, Proceed, Attempt

(* The broker, the clock and the operator keep everything in order: what   *)
(* lands late was in doubt before.                                         *)
LEMMA EnvironmentFits ==
  ASSUME PartsInv, CallTypeOK, ProducerInv, Environment
  PROVE  CallTypeOK' /\ ProducerInv'
<1> USE DEF CallTypeOK, ProducerInv, LockFits, CallFits, SlotFits, AttemptFits, ResultFits,
            DlqFits, Done, Rejected, callVars, topicVars, bulkheadVars, breakerVars
<1>1. ASSUME NEW c \in Calls, LandLate(c) PROVE CallTypeOK' /\ ProducerInv'
  BY <1>1 DEF LandLate
<1>2. ASSUME NEW c \in Calls, LandLateInDlq(c) PROVE CallTypeOK' /\ ProducerInv'
  BY <1>2 DEF LandLateInDlq, DlqResult
<1>3. CASE BlackoutElapses
  BY <1>3 DEF BlackoutElapses, Breaker!BlackoutElapses
<1>4. CASE ResetCircuitBreaker
  BY <1>4 DEF ResetCircuitBreaker, Breaker!Reset
<1>5. ASSUME NEW enabled \in DlqSettings, SetDlqEnabled(enabled)
      PROVE  CallTypeOK' /\ ProducerInv'
  BY <1>5, ProducerAssumption DEF SetDlqEnabled
<1> QED
  BY <1>1, <1>2, <1>3, <1>4, <1>5 DEF Environment

(* Before the first call.                                                  *)
LEMMA ProducerInitInv == Init => CallTypeOK /\ ProducerInv
BY ProducerAssumption
DEF Init, Breaker!BreakerInit, Slots!BulkheadInit, CallTypeOK, Stage, Error, DlqResult,
    ProducerInv, LockFits, CallFits, SlotFits, AttemptFits, ResultFits, DlqFits, Done, Rejected

(* One step of the producer, or none.                                      *)
LEMMA ProducerNextInv ==
  PartsInv /\ CallTypeOK /\ ProducerInv /\ [Next]_vars => CallTypeOK' /\ ProducerInv'
<1> SUFFICES ASSUME PartsInv, CallTypeOK, ProducerInv, [Next]_vars
             PROVE  CallTypeOK' /\ ProducerInv'
  OBVIOUS
<1>1. ASSUME NEW c \in Calls, Step(c) PROVE CallTypeOK' /\ ProducerInv'
  <2>1. CallFits(c) /\ LockFits
    BY DEF ProducerInv
  <2>2. CallTypeOK' /\ LockFits'
    BY <1>1, <2>1, StepTypes, StepLock
  <2>3. ASSUME NEW d \in Calls PROVE CallFits(d)'
    <3>1. CASE d = c
      BY <1>1, <2>1, <3>1, StepFits
    <3>2. CASE d # c
      BY <1>1, <3>2, OthersFit DEF ProducerInv
    <3> QED
      BY <3>1, <3>2
  <2> QED
    BY <2>2, <2>3 DEF ProducerInv
<1>2. CASE UNCHANGED vars
  BY <1>2 DEF vars, callVars, topicVars, bulkheadVars, breakerVars, CallTypeOK, ProducerInv,
              LockFits, CallFits, SlotFits, AttemptFits, ResultFits, DlqFits, Done, Rejected
<1> QED
  BY <1>1, <1>2, EnvironmentFits DEF Next

(* At every moment, every call's slot, attempts, result and dead letter    *)
(* fit the stage it is in, and the lock is where a call is sending.        *)
THEOREM ProducerSafe == Spec => [](PartsInv /\ CallTypeOK /\ ProducerInv)
<1>1. Init => CallTypeOK /\ ProducerInv
  BY ProducerInitInv
<1>2. PartsInv /\ CallTypeOK /\ ProducerInv /\ [Next]_vars => CallTypeOK' /\ ProducerInv'
  BY ProducerNextInv
<1> QED
  BY <1>1, <1>2, PartsSafe, PTL DEF Spec

-----------------------------------------------------------------------------
(* What follows                                                            *)

(* Every variable keeps its type; attempt never exceeds max_retries + 1.   *)
THEOREM TypeCorrect == Spec => []TypeOK
<1>1. PartsInv /\ CallTypeOK => TypeOK
  BY DEF PartsInv, TypeOK
<1> QED
  BY <1>1, ProducerSafe, PTL

(* success=True means a confirmed copy in the topic and none in the dead   *)
(* letter queue, but for a success that the producer has contradicted by   *)
(* the value it returned.                                                  *)
THEOREM SuccessUnlessUnread == Spec => []SuccessIsConfirmedOrUnread
<1>1. CallTypeOK /\ ProducerInv => SuccessIsConfirmedOrUnread
  BY DEF CallTypeOK, DlqResult, ProducerInv, CallFits, ResultFits, DlqFits, Done, Succeeded,
         SuccessIsConfirmedOrUnread
<1> QED
  BY <1>1, ProducerSafe, PTL

(* With producers that raise whenever they fail, as their Protocols have   *)
(* it, success=True does mean a confirmed copy.                            *)
THEOREM ConfirmedSuccess ==
  ASSUME ~FailuresReturned
  PROVE  Spec => []SuccessMeansDelivered
<1>1. SuccessIsConfirmedOrUnread => SuccessMeansDelivered
  BY DEF SuccessIsConfirmedOrUnread, SuccessMeansDelivered
<1> QED
  BY <1>1, SuccessUnlessUnread, PTL

(* A send turned away by the gate or the bulkhead left nothing anywhere.   *)
THEOREM TracelessRejection == Spec => []RejectionLeavesNoTrace
<1>1. CallTypeOK /\ ProducerInv => RejectionLeavesNoTrace
  <2> SUFFICES ASSUME CallTypeOK, ProducerInv, NEW c \in Calls, Rejected(c)
               PROVE  /\ Done(c) /\ slot[c] = "free" /\ attempt[c] = 0
                      /\ copies[c] + doubt[c] + dlqCopies[c] + dlqDoubt[c] = 0
    BY DEF RejectionLeavesNoTrace
  <2>1. Done(c) /\ slot[c] = "free" /\ attempt[c] = 0
    BY DEF ProducerInv, CallFits, SlotFits, AttemptFits, ResultFits, Done
  <2>2. dlqCopies[c] = 0 /\ dlqDoubt[c] = 0
    BY DEF ProducerInv, CallFits, DlqFits, Rejected
  <2>3. copies[c] = 0 /\ doubt[c] = 0
    BY <2>1 DEF ProducerInv, CallFits, AttemptFits, CallTypeOK
  <2> QED
    BY <2>1, <2>2, <2>3
<1> QED
  BY <1>1, ProducerSafe, PTL

(* A send that failed on its own spent every attempt it was allowed.       *)
THEOREM ExhaustedFailure == Spec => []FailureIsExhaustion
<1>1. ProducerInv => FailureIsExhaustion
  BY DEF ProducerInv, CallFits, ResultFits, FailureIsExhaustion
<1> QED
  BY <1>1, ProducerSafe, PTL

(* Exactly the sends that were let in and failed meet the dead letter      *)
(* queue before they return.                                               *)
THEOREM DeadLetteredFailure == Spec => []FailureMeetsDlq
<1>1. CallTypeOK /\ ProducerInv => FailureMeetsDlq
  BY DEF CallTypeOK, Error, ProducerInv, CallFits, ResultFits, DlqFits, Done, Ended,
         Rejected, FailureMeetsDlq
<1> QED
  BY <1>1, ProducerSafe, PTL

(* A message never has more copies than attempts were started.             *)
THEOREM BoundedDuplication == Spec => []CopiesBoundedByAttempts
<1>1. ProducerInv => CopiesBoundedByAttempts
  BY DEF ProducerInv, CallFits, AttemptFits, CopiesBoundedByAttempts
<1> QED
  BY <1>1, ProducerSafe, PTL

(* The breaker's lock admits one send at a time to the network.            *)
THEOREM SerialisedSends == Spec => []OneSendAtATime
<1>1. ProducerInv => OneSendAtATime
  BY DEF ProducerInv, LockFits, OneSendAtATime
<1> QED
  BY <1>1, ProducerSafe, PTL

(* The calls that may be waiting for the broker, in any way, hold a slot,  *)
(* and there are never more of them than active_count and its limit say.   *)
THEOREM BoundedNetworkUse == Spec => []NetworkOnlyInsideSlot
<1>1. PartsInv /\ ProducerInv => NetworkOnlyInsideSlot
  <2> SUFFICES ASSUME PartsInv, ProducerInv PROVE NetworkOnlyInsideSlot
    OBVIOUS
  <2> DEFINE busy == {c \in Calls : pc[c] \in {"breaker", "sending", "backoff", "deciding",
                                               "dead_lettering", "recording"}}
  <2>1. \A c \in busy : slot[c] = "active"
    BY DEF ProducerInv, CallFits, SlotFits
  <2>2. busy \subseteq Slots!Active /\ Slots!Active \subseteq Slots!Holders
    BY <2>1 DEF Slots!Active, Slots!Holders
  <2>3. IsFiniteSet(Slots!Holders) /\ IsFiniteSet(Slots!Active)
    BY ProducerAssumption, FS_Subset DEF Slots!Active, Slots!Holders
  <2>4. Cardinality(busy) <= Cardinality(Slots!Active)
    BY <2>2, <2>3, FS_Subset
  <2>5. /\ Cardinality(Slots!Active) <= Cardinality(Slots!Holders)
        /\ Cardinality(Slots!Active) \in Nat /\ Cardinality(Slots!Holders) \in Nat
    BY <2>2, <2>3, FS_Subset, FS_CardinalityType
  <2>6. /\ activeCount = Cardinality(Slots!Active)
        /\ permits + Cardinality(Slots!Holders) = MaxConcurrentSends
        /\ permits \in 0 .. MaxConcurrentSends
    BY DEF PartsInv, Slots!ActiveCountExact, Slots!SlotAccounting, Slots!BulkheadTypeOK,
           Slots!Cardinality, Cardinality
  <2>7. Cardinality(busy) <= activeCount /\ activeCount <= MaxConcurrentSends
    BY <2>4, <2>5, <2>6, ProducerAssumption
  <2> QED
    BY <2>1, <2>7 DEF NetworkOnlyInsideSlot
<1> QED
  BY <1>1, ProducerSafe, PTL

(* When no call is under way the lock is free and every slot is back that  *)
(* no interrupt outside the try has cost.                                  *)
THEOREM NothingLeaks == Spec => []QuietMeansReleased
<1>1. PartsInv /\ ProducerInv => QuietMeansReleased
  <2> SUFFICES ASSUME PartsInv, ProducerInv,
                      \A c \in Calls : pc[c] \in {"idle", "done", "escaped"}
               PROVE  /\ caller = NoCall
                      /\ Leaked \subseteq Interruptible
                      /\ permits + Cardinality(Leaked) = MaxConcurrentSends
                      /\ activeCount = Cardinality({c \in Leaked : slot[c] = "active"})
    BY DEF QuietMeansReleased
  <2>1. caller = NoCall
    BY DEF PartsInv, Breaker!BreakerTypeOK, ProducerInv, LockFits
  <2>2. Leaked \subseteq Interruptible
    BY DEF ProducerInv, CallFits, SlotFits, Leaked
  <2>3. Slots!Holders = Leaked /\ Slots!Active = {c \in Leaked : slot[c] = "active"}
    BY DEF ProducerInv, CallFits, SlotFits, Slots!Holders, Slots!Active, Leaked
  <2> QED
    BY <2>1, <2>2, <2>3
    DEF PartsInv, Slots!SlotAccounting, Slots!ActiveCountExact, Slots!Cardinality, Cardinality
<1> QED
  BY <1>1, ProducerSafe, PTL

(* The slots of the calls form a pool of max_concurrent_sends slots.       *)
THEOREM SlotsArePool == Spec => SlotsFormAPool
<1>1. Init => Parts!BulkheadInit
  BY DEF Init, Slots!BulkheadInit, Parts!BulkheadInit
<1>2. Parts!BulkheadSpec => Parts!IsResourcePool
  BY PartAssumptions, Parts!BulkheadImplementsPool
<1>3. Parts!IsResourcePool => SlotsFormAPool
  <2>1. Parts!Pool!Init => Slots!Pool!Init
    BY DEF Parts!Pool!Init, Slots!Pool!Init, Parts!Holders, Slots!Holders
  <2>2. [Parts!Pool!Next]_(Parts!Holders) => [Slots!Pool!Next]_(Slots!Holders)
    BY DEF Parts!Pool!Next, Slots!Pool!Next, Parts!Pool!Take, Slots!Pool!Take,
           Parts!Pool!GiveBack, Slots!Pool!GiveBack, Parts!Holders, Slots!Holders,
           Parts!Pool!Cardinality, Slots!Pool!Cardinality
  <2> QED
    BY <2>1, <2>2, PTL
    DEF Parts!IsResourcePool, SlotsFormAPool, Slots!IsResourcePool,
        Parts!Pool!Spec, Slots!Pool!Spec
<1> QED
  BY <1>1, <1>2, <1>3, SlotSteps, PTL DEF Spec, Parts!BulkheadSpec

(* Of all the steps only Record adds a call to the recorded ones, the one  *)
(* that takes it.                                                          *)
LEMMA RecordedSteps ==
  ASSUME PartsInv, CallTypeOK, ProducerInv, [Next]_vars
  PROVE  \/ /\ UNCHANGED <<totalOperations, totalErrors>>
            /\ Recorded' = Recorded /\ RecordedErrors' = RecordedErrors
         \/ \E c \in Calls :
              /\ c \notin Recorded /\ Recorded' = Recorded \union {c}
              /\ totalOperations' = totalOperations + 1
              /\ \/ /\ error[c] \in {"none", "unread"}
                    /\ RecordedErrors' = RecordedErrors /\ totalErrors' = totalErrors
                 \/ /\ c \notin RecordedErrors
                    /\ RecordedErrors' = RecordedErrors \union {c}
                    /\ totalErrors' = totalErrors + 1
<1> USE DEF CallTypeOK, Recorded, RecordedErrors, healthVars, callVars, GoTo, FailWith
<1> DEFINE Same == /\ UNCHANGED <<totalOperations, totalErrors>>
                   /\ Recorded' = Recorded /\ RecordedErrors' = RecordedErrors
<1>1. ASSUME NEW c \in Calls, Step(c), ~Record(c) PROVE Same
  <2> USE DEF ProducerInv, CallFits, ResultFits, Stage
  <2>1. CASE PassGate(c) \/ Rejection(c) \/ AcquireSlot(c)
    BY <2>1 DEF PassGate, Rejection, FastFail, BulkheadFull, AcquireSlot
  <2>2. CASE EnterBreaker(c) \/ RefusedByBreaker(c)
    BY <2>2 DEF EnterBreaker, RefusedByBreaker
  <2>3. CASE SendReturns(c) \/ SendDeclines(c)
    BY <2>3 DEF SendReturns, SendDeclines
  <2>4. CASE SendRaises(c)
    BY <2>4 DEF SendRaises
  <2>5. CASE NextAttempt(c) \/ Interrupt(c)
    BY <2>5 DEF NextAttempt, Interrupt, InterruptBeforeTry, InterruptLockWait, InterruptCall,
                InterruptRelease
  <2>6. CASE DeadLetter(c)
    BY <2>6 DEF DeadLetter, SkipDlq, StartDlqWrite, DlqWriteReturns, DlqWriteDeclines,
                DlqWriteRaises
  <2>7. CASE ReleaseSlot(c)
    BY <2>7 DEF ReleaseSlot
  <2> QED
    BY <1>1, <2>1, <2>2, <2>3, <2>4, <2>5, <2>6, <2>7 DEF Step, Proceed, Attempt
<1>2. CASE Environment
  BY <1>2 DEF Environment, LandLate, LandLateInDlq, BlackoutElapses, ResetCircuitBreaker,
              SetDlqEnabled
<1>3. CASE UNCHANGED vars
  BY <1>3 DEF vars
<1>4. ASSUME NEW c \in Calls, Record(c)
      PROVE  /\ c \notin Recorded /\ Recorded' = Recorded \union {c}
             /\ totalOperations' = totalOperations + 1
             /\ \/ /\ error[c] \in {"none", "unread"}
                   /\ RecordedErrors' = RecordedErrors /\ totalErrors' = totalErrors
                \/ /\ c \notin RecordedErrors
                   /\ RecordedErrors' = RecordedErrors \union {c}
                   /\ totalErrors' = totalErrors + 1
  <2>1. /\ pc[c] = "recording" /\ pc' = [pc EXCEPT ![c] = "releasing"] /\ error' = error
        /\ totalOperations' = totalOperations + 1
        /\ totalErrors' = totalErrors + IF error[c] \in {"none", "unread"} THEN 0 ELSE 1
    BY <1>4 DEF Record, Health!RecordOperation
  <2>2. error[c] \in {"none", "unread", "send", "breaker"}
    BY <2>1 DEF ProducerInv, CallFits, ResultFits, Rejected, Done, Error
  <2>3. c \notin Recorded /\ Recorded' = Recorded \union {c}
    BY <2>1, <2>2
  <2>4. totalErrors \in Nat
    BY DEF PartsInv, Health!HealthTypeOK
  <2>5. CASE error[c] \in {"none", "unread"}
    BY <2>1, <2>3, <2>4, <2>5
  <2>6. CASE error[c] \notin {"none", "unread"}
    BY <2>1, <2>2, <2>3, <2>4, <2>6
  <2> QED
    BY <2>1, <2>3, <2>5, <2>6
<1> QED
  BY <1>1, <1>2, <1>3, <1>4 DEF Next

(* The monitor's totals count each admitted call with a result once.       *)
THEOREM FaithfulTotals == Spec => []HealthCountsResults
<1>1. Init => HealthCountsResults
  BY FS_EmptySet DEF Init, Health!HealthInit, HealthCountsResults, Recorded, RecordedErrors
<1>2. PartsInv /\ CallTypeOK /\ ProducerInv /\ HealthCountsResults /\ [Next]_vars
        => HealthCountsResults'
  <2> SUFFICES ASSUME PartsInv, CallTypeOK, ProducerInv, HealthCountsResults, [Next]_vars
               PROVE  HealthCountsResults'
    OBVIOUS
  <2>1. IsFiniteSet(Recorded) /\ IsFiniteSet(RecordedErrors)
    BY ProducerAssumption, FS_Subset DEF Recorded, RecordedErrors
  <2>2. \A c : c \notin Recorded =>
          Cardinality(Recorded \union {c}) = Cardinality(Recorded) + 1
    BY <2>1, FS_AddElement
  <2>3. \A c : c \notin RecordedErrors =>
          Cardinality(RecordedErrors \union {c}) = Cardinality(RecordedErrors) + 1
    BY <2>1, FS_AddElement
  <2> QED
    BY <2>2, <2>3, RecordedSteps DEF HealthCountsResults
<1> QED
  BY <1>1, <1>2, ProducerSafe, PTL DEF Spec

-----------------------------------------------------------------------------
(* Action properties                                                       *)

(* A result is never revised and its message multiplies no further, except *)
(* for copies that were already on their way.                              *)
THEOREM FinalOutcome == Spec => OutcomeIsFinal
<1>1. PartsInv /\ CallTypeOK /\ [Next]_vars
        => [\A c \in Calls : Ended(c) =>
               /\ pc'[c] = pc[c] /\ error'[c] = error[c] /\ dlq'[c] = dlq[c]
               /\ copies'[c] + doubt'[c] = copies[c] + doubt[c]
               /\ dlqCopies'[c] + dlqDoubt'[c] = dlqCopies[c] + dlqDoubt[c]]_vars
  <2> SUFFICES ASSUME PartsInv, CallTypeOK, Next, NEW d \in Calls, Ended(d)
               PROVE  /\ pc'[d] = pc[d] /\ error'[d] = error[d] /\ dlq'[d] = dlq[d]
                      /\ copies'[d] + doubt'[d] = copies[d] + doubt[d]
                      /\ dlqCopies'[d] + dlqDoubt'[d] = dlqCopies[d] + dlqDoubt[d]
    OBVIOUS
  <2>1. ASSUME NEW c \in Calls, Step(c) PROVE c # d
    BY <2>1
    DEF Ended, Step, Proceed, Attempt, DeadLetter, Rejection, PassGate, FastFail, AcquireSlot,
        BulkheadFull, EnterBreaker, RefusedByBreaker, SendReturns, SendDeclines, SendRaises,
        NextAttempt, SkipDlq, StartDlqWrite, DlqWriteReturns, DlqWriteDeclines,
        DlqWriteRaises, Record, ReleaseSlot, Interrupt, InterruptBeforeTry,
        InterruptLockWait, InterruptCall, InterruptRelease
  <2>2. CASE Environment
    <3> USE DEF CallTypeOK, callVars, topicVars
    <3>1. ASSUME NEW c \in Calls, LandLate(c) \/ LandLateInDlq(c)
          PROVE  /\ pc' = pc /\ error' = error /\ dlq' = dlq
                 /\ copies'[d] + doubt'[d] = copies[d] + doubt[d]
                 /\ dlqCopies'[d] + dlqDoubt'[d] = dlqCopies[d] + dlqDoubt[d]
      BY <3>1 DEF LandLate, LandLateInDlq
    <3> QED
      BY <2>2, <3>1 DEF Environment, BlackoutElapses, ResetCircuitBreaker, SetDlqEnabled
  <2> QED
    BY <2>1, <2>2, OthersUnmoved DEF Next
<1> QED
  BY <1>1, ProducerSafe, PTL DEF Spec, OutcomeIsFinal

-----------------------------------------------------------------------------
(* Refinement                                                              *)

LEMMA PendingUntilEnded == ASSUME NEW c \in Calls PROVE Outcome(c) = "pending" <=> ~Ended(c)
BY DEF Outcome, Ended, Done, Succeeded, Rejected

LEMMA PendingUntilEndedNext ==
  ASSUME NEW c \in Calls PROVE Outcome(c)' = "pending" <=> ~Ended(c)'
BY DEF Outcome, Ended, Done, Succeeded, Rejected

(* The producer keeps the contract of SendContract: a copy that lands is   *)
(* its Land, a confirmed dead letter its DeadLetter, the step in which the *)
(* call returns its End, and every other step changes nothing it sees.     *)
THEOREM ContractKept == Spec => KeepsContract
<1> DEFINE out == [c \in Calls |-> Outcome(c)]
<1>1. Init => Contract!Init
  <2> SUFFICES ASSUME Init PROVE Contract!Init
    OBVIOUS
  <2>1. \A c \in Calls : ~Ended(c)
    BY DEF Init, Ended
  <2>2. out = [c \in Calls |-> "pending"]
    BY <2>1, PendingUntilEnded
  <2> QED
    BY <2>2 DEF Init, Contract!Init
<1>2. PartsInv /\ CallTypeOK /\ ProducerInv /\ CallTypeOK' /\ ProducerInv' /\ [Next]_vars
        => [Contract!Next]_(Contract!vars)
  <2> SUFFICES ASSUME PartsInv, CallTypeOK, ProducerInv, CallTypeOK', ProducerInv', [Next]_vars
               PROVE  Contract!Next \/ UNCHANGED <<out, copies, dlqCopies>>
    BY DEF Contract!vars
  <2> USE DEF CallTypeOK
  <2>1. ASSUME NEW c \in Calls, Step(c)
        PROVE  Contract!Next \/ UNCHANGED <<out, copies, dlqCopies>>
    <3>1. ~Ended(c) /\ Outcome(c) = "pending"
      BY <2>1, PendingUntilEnded
      DEF Ended, Step, Proceed, Attempt, DeadLetter, Rejection, PassGate, FastFail,
          AcquireSlot, BulkheadFull, EnterBreaker, RefusedByBreaker, SendReturns, SendDeclines,
          SendRaises, NextAttempt, SkipDlq, StartDlqWrite, DlqWriteReturns, DlqWriteDeclines,
          DlqWriteRaises, Record, ReleaseSlot, Interrupt, InterruptBeforeTry,
          InterruptLockWait, InterruptCall, InterruptRelease
    <3>2. \A d \in Calls : d # c => Outcome(d)' = Outcome(d)
      BY <2>1, OthersUnmoved DEF Outcome, Done, Ended, Succeeded, Rejected
    <3>3. CASE SendReturns(c)
      <4>1. out' = out
        BY <3>1, <3>2, <3>3, PendingUntilEndedNext DEF SendReturns, GoTo, Ended
      <4>2. copies[c] < MaxRetries + 1
        BY <3>3, ProducerAssumption DEF SendReturns, ProducerInv, CallFits, AttemptFits
      <4>3. Contract!Land(c)
        BY <3>1, <3>3, <4>1, <4>2 DEF SendReturns, Contract!Land
      <4> QED
        BY <4>3 DEF Contract!Next
    <3>4. CASE DlqWriteReturns(c)
      <4>1. out' = out
        BY <3>1, <3>2, <3>4, PendingUntilEndedNext DEF DlqWriteReturns, GoTo, Ended
      <4>2. dlqCopies[c] = 0
        BY <3>4 DEF DlqWriteReturns, ProducerInv, CallFits, DlqFits
      <4>3. Contract!DeadLetter(c)
        BY <3>1, <3>4, <4>1, <4>2 DEF DlqWriteReturns, Contract!DeadLetter
      <4> QED
        BY <4>3 DEF Contract!Next
    <3>5. CASE Ended(c)'
      <4>1. copies' = copies /\ dlqCopies' = dlqCopies
        BY <2>1, <3>1, <3>5
        DEF Ended, Step, Proceed, Attempt, DeadLetter, Rejection, PassGate, FastFail,
            AcquireSlot, BulkheadFull, EnterBreaker, RefusedByBreaker, SendReturns,
            SendDeclines, SendRaises, NextAttempt, SkipDlq, StartDlqWrite, DlqWriteReturns,
            DlqWriteDeclines, DlqWriteRaises, Record, ReleaseSlot, Interrupt,
            InterruptBeforeTry, InterruptLockWait, InterruptCall, InterruptRelease, GoTo,
            topicVars
      <4> DEFINE o == Outcome(c)'
      <4>2. /\ o \in Contract!Outcomes
            /\ o = "rejected" => copies[c] = 0 /\ dlqCopies[c] = 0
            /\ o = "confirmed" => copies[c] > 0 /\ dlqCopies[c] = 0
            /\ o = "claimed" => FailuresReturned /\ dlqCopies[c] = 0
            /\ o = "preserved" => dlqCopies[c] = 1
        BY <3>5, <4>1
        DEF Contract!Outcomes, Outcome, Done, Ended, Succeeded, Rejected, ProducerInv, CallFits,
            AttemptFits, ResultFits, DlqFits, DlqResult
      <4>3. out' = [out EXCEPT ![c] = o]
        BY <3>2
      <4>4. Contract!End(c, o)
        BY <3>1, <4>1, <4>2, <4>3 DEF Contract!End
      <4> QED
        BY <4>2, <4>4 DEF Contract!Next
    <3>6. CASE ~SendReturns(c) /\ ~DlqWriteReturns(c) /\ ~Ended(c)'
      <4>1. out' = out
        BY <3>1, <3>2, <3>6, PendingUntilEndedNext
      <4>2. copies' = copies /\ dlqCopies' = dlqCopies
        BY <2>1, <3>6
        DEF Step, Proceed, Attempt, DeadLetter, Rejection, PassGate, FastFail, AcquireSlot,
            BulkheadFull, EnterBreaker, RefusedByBreaker, SendDeclines, SendRaises,
            NextAttempt, SkipDlq, StartDlqWrite, DlqWriteDeclines, DlqWriteRaises, Record,
            ReleaseSlot, Interrupt, InterruptBeforeTry, InterruptLockWait, InterruptCall,
            InterruptRelease, topicVars
      <4> QED
        BY <4>1, <4>2
    <3> QED
      BY <3>3, <3>4, <3>5, <3>6
  <2>2. ASSUME NEW c \in Calls, LandLate(c) PROVE Contract!Next
    <3>1. out' = out
      BY <2>2 DEF LandLate, callVars, Outcome, Done, Ended, Succeeded, Rejected
    <3>2. copies[c] < MaxRetries + 1
      BY <2>2, ProducerAssumption DEF LandLate, ProducerInv, CallFits, AttemptFits
    <3>3. out[c] # "rejected"
      BY <2>2 DEF LandLate, Outcome, Done, Ended, Succeeded, Rejected, ProducerInv, CallFits,
                      AttemptFits
    <3> QED
      BY <2>2, <3>1, <3>2, <3>3 DEF LandLate, Contract!Land, Contract!Next
  <2>3. ASSUME NEW c \in Calls, LandLateInDlq(c) PROVE Contract!Next
    <3>1. out' = out
      BY <2>3 DEF LandLateInDlq, callVars, Outcome, Done, Ended, Succeeded, Rejected
    <3>2. dlqCopies[c] = 0 /\ dlqCopies'[c] = 1 /\ dlq[c] = "failed"
      BY <2>3 DEF LandLateInDlq, ProducerInv, CallFits, DlqFits, DlqResult
    <3>3. out[c] \notin {"rejected", "confirmed", "claimed"}
      BY <3>2 DEF Outcome, Done, Ended, Succeeded, Rejected, ProducerInv, CallFits, DlqFits
    <3> QED
      BY <2>3, <3>1, <3>2, <3>3 DEF LandLateInDlq, Contract!DeadLetter, Contract!Next
  <2>4. CASE BlackoutElapses \/ ResetCircuitBreaker \/ UNCHANGED vars
             \/ \E enabled \in DlqSettings : SetDlqEnabled(enabled)
    BY <2>4 DEF BlackoutElapses, ResetCircuitBreaker, SetDlqEnabled, vars, callVars, topicVars,
                Outcome, Done, Ended, Succeeded, Rejected
  <2> QED
    BY <2>1, <2>2, <2>3, <2>4 DEF Next, Environment
<1> QED
  BY <1>1, <1>2, ProducerSafe, PTL DEF Spec, KeepsContract, Contract!Spec

=============================================================================
