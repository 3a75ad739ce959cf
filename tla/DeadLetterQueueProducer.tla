---------------------- MODULE DeadLetterQueueProducer ----------------------
(***************************************************************************)
(* The DeadLetterQueueProducer: send_with_fault_tolerance, run by any      *)
(* number of concurrent calls over one circuit breaker, one bulkhead and   *)
(* one health monitor.  A call walks through the stages of the code:       *)
(*                                                                         *)
(*   idle -> bulkhead -> breaker -> sending -> (backoff -> breaker ...)    *)
(*        -> deciding -> dead_lettering -> recording -> releasing -> done  *)
(*                                                                         *)
(* and a KeyboardInterrupt outside its try ends it in "escaped".           *)
(*                                                                         *)
(* Outside the module: the two injected producers, with delivery           *)
(* confirmation required, as the code always calls them.  A send returns   *)
(* once the broker has confirmed; or it raises, and then the message may   *)
(* not have been written, or be written already, or be written later (a    *)
(* confirmation that timed out).  The Protocols in types.py have it return *)
(* None; one that answers as SingletonProducer.send does may also RETURN   *)
(* that it has failed, without having queued the message (FailuresReturned)*)
(* and nothing here reads what a send returns.                             *)
(*                                                                         *)
(* Left out: payload, topic and routing metadata of a message, the backoff *)
(* delays, logging, and the fields of the result that are times.           *)
(***************************************************************************)
EXTENDS Integers, Sequences, FiniteSets

CONSTANTS
  Calls,               (* executions of send_with_fault_tolerance            *)
  Interruptible,       (* those on the main thread, where KeyboardInterrupt
                          can be raised                                      *)
  FailuresReturned,    (* may the injected producers report a failure by
                          returning it?                                      *)
  LateCalls,           (* bound: those whose messages may still land after
                          a send or dead letter write that raised            *)
  DlqSettings,         (* bound: what the operator sets enable_dlq to        *)
  MaxConcurrentSends,  (* config.max_concurrent_sends                        *)
  MaxRetries,          (* config.max_retries                                 *)
  FailureThreshold,    (* config.failure_threshold                           *)
  SuccessThreshold,    (* config.success_threshold                           *)
  HealthWindowSize,    (* config.health_window_size                          *)
  UnhealthyPercent,    (* config.error_rate_unhealthy_threshold              *)
  NoCall

ASSUME ProducerAssumption ==
  /\ IsFiniteSet(Calls)
  /\ Interruptible \subseteq Calls /\ LateCalls \subseteq Calls
  /\ DlqSettings \subseteq BOOLEAN
  /\ FailuresReturned \in BOOLEAN
  /\ NoCall \notin Calls
  /\ MaxConcurrentSends \in Nat
  /\ MaxRetries \in Nat
  /\ FailureThreshold \in Nat \ {0}
  /\ SuccessThreshold \in Nat \ {0}
  /\ HealthWindowSize \in Nat \ {0}
  /\ UnhealthyPercent \in 0..100

VARIABLES
  (* the circuit breaker *)
  circuit, failCount, successCount, blackoutOver, caller,
  (* the bulkhead *)
  permits, activeCount, slot,
  (* the health monitor *)
  window, totalOperations, totalErrors,
  (* the producer *)
  enableDlq,     (* enable_dlq                                              *)
  pc,            (* the stage each call is in                               *)
  attempt,       (* attempt_number of its retry loop                        *)
  error,         (* the class of its result's error                         *)
  (* the topics; not state of the program, but what it is about *)
  copies,        (* copies of the call's message in the target topic        *)
  doubt,         (* copies that may still land there                        *)
  dlq,           (* what came of the message in _send_to_dlq                *)
  dlqCopies,     (* copies of the message in the dead letter topic          *)
  dlqDoubt       (* copies that may still land there                        *)

Breaker == INSTANCE CircuitBreaker
Slots   == INSTANCE Bulkhead
Health  == INSTANCE SlidingWindowHealthMonitor

breakerVars  == <<circuit, failCount, successCount, blackoutOver, caller>>
bulkheadVars == <<permits, activeCount, slot>>
healthVars   == <<window, totalOperations, totalErrors>>
callVars     == <<pc, attempt, error>>
topicVars    == <<copies, doubt, dlq, dlqCopies, dlqDoubt>>

vars == <<breakerVars, bulkheadVars, healthVars, enableDlq, callVars, topicVars>>

Stage == {"idle", "bulkhead", "breaker", "sending", "backoff", "deciding",
          "dead_lettering", "recording", "releasing", "done", "escaped"}

(* none: no error (yet), success once done; unread: no error to the code,  *)
(* success once done, but the producer returned a failure; circuit_open,   *)
(* bulkhead_full: the RuntimeErrors of stages 1 and 2; breaker:            *)
(* CircuitBreakerError; send: what the last send raised; interrupt: a      *)
(* KeyboardInterrupt that left the call instead of a result.               *)
Error == {"none", "unread", "circuit_open", "bulkhead_full", "breaker", "send", "interrupt"}

(* unsent: _send_to_dlq not reached; skipped: DLQ disabled; written: the   *)
(* write was confirmed; unread: logged as preserved, but the producer      *)
(* returned a failure; failed: the write raised.                           *)
DlqResult == {"unsent", "skipped", "written", "unread", "failed"}

Init ==
  /\ Breaker!BreakerInit
  /\ Slots!BulkheadInit
  /\ Health!HealthInit
  /\ enableDlq \in DlqSettings
  /\ pc = [c \in Calls |-> "idle"]
  /\ attempt = [c \in Calls |-> 0]
  /\ error = [c \in Calls |-> "none"]
  /\ copies = [c \in Calls |-> 0]
  /\ doubt = [c \in Calls |-> 0]
  /\ dlq = [c \in Calls |-> "unsent"]
  /\ dlqCopies = [c \in Calls |-> 0]
  /\ dlqDoubt = [c \in Calls |-> 0]

GoTo(c, stage)  == pc' = [pc EXCEPT ![c] = stage]
FailWith(c, e)  == error' = [error EXCEPT ![c] = e]

(* A send that raised may have left its message with the broker.           *)
MayLand(c) == IF c \in LateCalls THEN {0, 1} ELSE {0}

-----------------------------------------------------------------------------
(* Stage 1: the circuit breaker's gate.                                    *)

PassGate(c) ==
  /\ pc[c] = "idle"
  /\ Breaker!CanExecute
  /\ GoTo(c, "bulkhead")
  /\ UNCHANGED <<breakerVars, bulkheadVars, healthVars, enableDlq, attempt, error, topicVars>>

FastFail(c) ==
  /\ pc[c] = "idle"
  /\ ~Breaker!CanExecute
  /\ FailWith(c, "circuit_open")
  /\ GoTo(c, "done")
  /\ UNCHANGED <<breakerVars, bulkheadVars, healthVars, enableDlq, attempt, topicVars>>

-----------------------------------------------------------------------------
(* Stage 2: a slot of the bulkhead.  With the slot counted, the retry loop *)
(* starts its first attempt.                                               *)

AcquireSlot(c) ==
  /\ pc[c] = "bulkhead"
  /\ Slots!Acquire(c)
  /\ IF slot'[c] = "active"
     THEN GoTo(c, "breaker") /\ attempt' = [attempt EXCEPT ![c] = 1]
     ELSE UNCHANGED <<pc, attempt>>
  /\ UNCHANGED <<breakerVars, healthVars, enableDlq, error, topicVars>>

BulkheadFull(c) ==
  /\ pc[c] = "bulkhead"
  /\ slot[c] = "free"
  /\ Slots!Exhausted
  /\ FailWith(c, "bulkhead_full")
  /\ GoTo(c, "done")
  /\ UNCHANGED <<breakerVars, bulkheadVars, healthVars, enableDlq, attempt, topicVars>>

-----------------------------------------------------------------------------
(* Stage 3: _execute_with_retry.  One attempt is one call() of the circuit *)
(* breaker around one confirmed send.                                      *)

EnterBreaker(c) ==
  /\ pc[c] = "breaker"
  /\ Breaker!Enter(c)
  /\ GoTo(c, "sending")
  /\ UNCHANGED <<bulkheadVars, healthVars, enableDlq, attempt, error, topicVars>>

\* Mutant: a refused send is recorded as failed without meeting the DLQ.
RefusedSkipsDlq(c) ==
  /\ pc[c] = "breaker"
  /\ Breaker!Refuse(c)
  /\ FailWith(c, "breaker")
  /\ GoTo(c, "recording")
  /\ UNCHANGED <<bulkheadVars, healthVars, enableDlq, attempt, topicVars>>

(* CircuitBreakerError is not retried.                                     *)
RefusedByBreaker(c) ==
  /\ pc[c] = "breaker"
  /\ Breaker!Refuse(c)
  /\ FailWith(c, "breaker")
  /\ GoTo(c, "deciding")
  /\ UNCHANGED <<bulkheadVars, healthVars, enableDlq, attempt, topicVars>>

\* Mutant: the send is not asked to wait for the broker's confirmation.
SendReturnsUnconfirmed(c) ==
  /\ pc[c] = "sending"
  /\ Breaker!Succeed(c)
  /\ doubt' = [doubt EXCEPT ![c] = @ + 1]
  /\ GoTo(c, "recording")
  /\ UNCHANGED <<bulkheadVars, healthVars, enableDlq, attempt, error, copies, dlq, dlqCopies, dlqDoubt>>

\* Mutant: stage 4.1 does not test result.success.
SendReturnsThenDlq(c) ==
  /\ pc[c] = "sending"
  /\ Breaker!Succeed(c)
  /\ copies' = [copies EXCEPT ![c] = @ + 1]
  /\ GoTo(c, "deciding")
  /\ UNCHANGED <<bulkheadVars, healthVars, enableDlq, attempt, error, doubt, dlq, dlqCopies, dlqDoubt>>

SendReturns(c) ==
  /\ pc[c] = "sending"
  /\ Breaker!Succeed(c)
  /\ copies' = [copies EXCEPT ![c] = @ + 1]
  /\ GoTo(c, "recording")
  /\ UNCHANGED <<bulkheadVars, healthVars, enableDlq, attempt, error, doubt, dlq, dlqCopies, dlqDoubt>>

(* The producer reports a failure as the value of send_to_topic, which     *)
(* _protected_send drops: a success to breaker and retry loop.             *)
SendDeclines(c) ==
  /\ pc[c] = "sending"
  /\ FailuresReturned
  /\ Breaker!Succeed(c)
  /\ FailWith(c, "unread")
  /\ GoTo(c, "recording")
  /\ UNCHANGED <<bulkheadVars, healthVars, enableDlq, attempt, topicVars>>

\* Mutant: stop_after_attempt is given one attempt too many.
AttemptsLeftOneMore(c) == attempt[c] <= MaxRetries + 1

(* stop_after_attempt(max_retries + 1).                                    *)
AttemptsLeft(c) == attempt[c] <= MaxRetries

(* The send raises.  If that trips the circuit the breaker raises its own  *)
(* error instead, which ends the loop.  Otherwise the loop goes on while   *)
(* attempts are left.  tenacity keeps even a KeyboardInterrupt that an     *)
(* attempt raises: it is retried like any error, and only that of the last *)
(* attempt leaves the call, past the except clause.                        *)
SendRaises(c) ==
  /\ pc[c] = "sending"
  /\ Breaker!Fail(c)
  /\ \E inDoubt \in MayLand(c) : doubt' = [doubt EXCEPT ![c] = @ + inDoubt]
  /\ \/ Breaker!Trips /\ FailWith(c, "breaker") /\ GoTo(c, "deciding")
     \/ ~Breaker!Trips /\ AttemptsLeft(c) /\ GoTo(c, "backoff") /\ UNCHANGED error
     \/ /\ ~Breaker!Trips /\ ~AttemptsLeft(c)
        /\ \/ FailWith(c, "send") /\ GoTo(c, "deciding")
           \/ c \in Interruptible /\ FailWith(c, "interrupt") /\ GoTo(c, "releasing")
  /\ UNCHANGED <<bulkheadVars, healthVars, enableDlq, attempt, copies, dlq, dlqCopies, dlqDoubt>>

NextAttempt(c) ==
  /\ pc[c] = "backoff"
  /\ attempt' = [attempt EXCEPT ![c] = @ + 1]
  /\ GoTo(c, "breaker")
  /\ UNCHANGED <<breakerVars, bulkheadVars, healthVars, enableDlq, error, topicVars>>

-----------------------------------------------------------------------------
(* Stage 4: enable_dlq is read, and only now; then _send_to_dlq, which     *)
(* swallows the exceptions of the write, and the health monitor.           *)

SkipDlq(c) ==
  /\ pc[c] = "deciding"
  /\ ~enableDlq
  /\ dlq' = [dlq EXCEPT ![c] = "skipped"]
  /\ GoTo(c, "recording")
  /\ UNCHANGED <<breakerVars, bulkheadVars, healthVars, enableDlq, attempt, error,
                 copies, doubt, dlqCopies, dlqDoubt>>

StartDlqWrite(c) ==
  /\ pc[c] = "deciding"
  /\ enableDlq
  /\ GoTo(c, "dead_lettering")
  /\ UNCHANGED <<breakerVars, bulkheadVars, healthVars, enableDlq, attempt, error, topicVars>>

DlqWriteReturns(c) ==
  /\ pc[c] = "dead_lettering"
  /\ dlq' = [dlq EXCEPT ![c] = "written"]
  /\ dlqCopies' = [dlqCopies EXCEPT ![c] = @ + 1]
  /\ GoTo(c, "recording")
  /\ UNCHANGED <<breakerVars, bulkheadVars, healthVars, enableDlq, attempt, error,
                 copies, doubt, dlqDoubt>>

(* The value of underlying_producer.send is dropped as well.               *)
DlqWriteDeclines(c) ==
  /\ pc[c] = "dead_lettering"
  /\ FailuresReturned
  /\ dlq' = [dlq EXCEPT ![c] = "unread"]
  /\ GoTo(c, "recording")
  /\ UNCHANGED <<breakerVars, bulkheadVars, healthVars, enableDlq, attempt, error,
                 copies, doubt, dlqCopies, dlqDoubt>>

DlqWriteRaises(c) ==
  /\ pc[c] = "dead_lettering"
  /\ dlq' = [dlq EXCEPT ![c] = "failed"]
  /\ \E inDoubt \in MayLand(c) : dlqDoubt' = [dlqDoubt EXCEPT ![c] = inDoubt]
  /\ \/ /\ GoTo(c, "recording")
        /\ UNCHANGED error
     \/ /\ c \in Interruptible
        /\ FailWith(c, "interrupt")
        /\ GoTo(c, "releasing")
  /\ UNCHANGED <<breakerVars, bulkheadVars, healthVars, enableDlq, attempt,
                 copies, doubt, dlqCopies>>

Record(c) ==
  /\ pc[c] = "recording"
  /\ Health!RecordOperation(error[c] \in {"none", "unread"})
  /\ GoTo(c, "releasing")
  /\ UNCHANGED <<breakerVars, bulkheadVars, enableDlq, attempt, error, topicVars>>

-----------------------------------------------------------------------------
(* Stage 5: the finally clause; then the call has returned, or raised.     *)

ReleaseSlot(c) ==
  /\ pc[c] = "releasing"
  /\ Slots!Release(c)
  /\ IF slot'[c] = "free" THEN GoTo(c, "done") ELSE UNCHANGED pc
  /\ UNCHANGED <<breakerVars, healthVars, enableDlq, attempt, error, topicVars>>

-----------------------------------------------------------------------------
(* KeyboardInterrupt, on the main thread, elsewhere than in a send or in a *)
(* dead letter write, whose actions have it among what they may raise.     *)

(* Outside the try, before it: while the call waits for a slot, between    *)
(* the two steps of acquire(), or after them.  A slot it has stays taken.  *)
InterruptBeforeTry(c) ==
  /\ pc[c] = "bulkhead"
  /\ UNCHANGED bulkheadVars \/ Slots!CountUp(c)
  /\ FailWith(c, "interrupt")
  /\ GoTo(c, "escaped")
  /\ UNCHANGED <<breakerVars, healthVars, enableDlq, attempt, topicVars>>

(* In an attempt that waits for the breaker's lock: for tenacity one more  *)
(* attempt that failed, of which the breaker knows nothing.                *)
InterruptLockWait(c) ==
  /\ pc[c] = "breaker"
  /\ \/ AttemptsLeft(c) /\ GoTo(c, "backoff") /\ UNCHANGED error
     \/ ~AttemptsLeft(c) /\ FailWith(c, "interrupt") /\ GoTo(c, "releasing")
  /\ UNCHANGED <<breakerVars, bulkheadVars, healthVars, enableDlq, attempt, topicVars>>

\* Mutant: no finally clause, the exception leaves with the slot.
InterruptLeaksSlot(c) ==
  /\ pc[c] \in {"backoff", "deciding", "recording"}
  /\ FailWith(c, "interrupt")
  /\ GoTo(c, "done")
  /\ UNCHANGED <<breakerVars, bulkheadVars, healthVars, enableDlq, attempt, topicVars>>

(* Inside the try, outside an attempt: past every except clause.           *)
InterruptCall(c) ==
  /\ pc[c] \in {"backoff", "deciding", "recording"}
  /\ FailWith(c, "interrupt")
  /\ GoTo(c, "releasing")
  /\ UNCHANGED <<breakerVars, bulkheadVars, healthVars, enableDlq, attempt, topicVars>>

(* Outside the try, after it: before release() or between its two steps.   *)
InterruptRelease(c) ==
  /\ pc[c] = "releasing"
  /\ GoTo(c, "escaped")
  /\ UNCHANGED <<breakerVars, bulkheadVars, healthVars, enableDlq, attempt, error, topicVars>>

Interrupt(c) ==
  /\ c \in Interruptible
  /\ \/ InterruptBeforeTry(c) \/ InterruptLockWait(c)
     \/ InterruptCall(c) \/ InterruptRelease(c)

-----------------------------------------------------------------------------
(* The broker, the clock and the operator.                                 *)

LandLate(c) ==
  /\ doubt[c] > 0
  /\ doubt' = [doubt EXCEPT ![c] = @ - 1]
  /\ copies' = [copies EXCEPT ![c] = @ + 1]
  /\ UNCHANGED <<breakerVars, bulkheadVars, healthVars, enableDlq, callVars,
                 dlq, dlqCopies, dlqDoubt>>

LandLateInDlq(c) ==
  /\ dlqDoubt[c] > 0
  /\ dlqDoubt' = [dlqDoubt EXCEPT ![c] = @ - 1]
  /\ dlqCopies' = [dlqCopies EXCEPT ![c] = @ + 1]
  /\ UNCHANGED <<breakerVars, bulkheadVars, healthVars, enableDlq, callVars,
                 copies, doubt, dlq>>

BlackoutElapses ==
  /\ Breaker!BlackoutElapses
  /\ UNCHANGED <<bulkheadVars, healthVars, enableDlq, callVars, topicVars>>

ResetCircuitBreaker ==
  /\ Breaker!Reset
  /\ UNCHANGED <<bulkheadVars, healthVars, enableDlq, callVars, topicVars>>

SetDlqEnabled(enabled) ==
  /\ enableDlq' = enabled
  /\ UNCHANGED <<breakerVars, bulkheadVars, healthVars, callVars, topicVars>>

-----------------------------------------------------------------------------

Rejection(c) == FastFail(c) \/ BulkheadFull(c)

Attempt(c) ==
  \/ EnterBreaker(c) \/ RefusedByBreaker(c)
  \/ SendReturns(c) \/ SendDeclines(c) \/ SendRaises(c) \/ NextAttempt(c)

DeadLetter(c) ==
  \/ SkipDlq(c) \/ StartDlqWrite(c)
  \/ DlqWriteReturns(c) \/ DlqWriteDeclines(c) \/ DlqWriteRaises(c)

Proceed(c) ==
  \/ PassGate(c) \/ AcquireSlot(c) \/ Rejection(c)
  \/ Attempt(c) \/ DeadLetter(c) \/ Record(c) \/ ReleaseSlot(c)

Step(c) == Proceed(c) \/ Interrupt(c)

Environment ==
  \/ \E c \in Calls : LandLate(c) \/ LandLateInDlq(c)
  \/ BlackoutElapses
  \/ ResetCircuitBreaker
  \/ \E enabled \in DlqSettings : SetDlqEnabled(enabled)

Next == (\E c \in Calls : Step(c)) \/ Environment

Spec == Init /\ [][Next]_vars

(***************************************************************************)
(* A call that has begun goes on: every wait in it is bounded, by          *)
(* send_timeout_seconds in acquire, by delivery_confirmation_timeout in a  *)
(* send and by max_retry_delay_seconds in the backoff, except the one for  *)
(* the breaker's lock, which only has to be granted while it stays free.   *)
(* Nobody owes the system a new call, or an interrupt.                     *)
(***************************************************************************)
FairSpec == Spec /\ \A c \in Calls : WF_vars(pc[c] # "idle" /\ Proceed(c))

-----------------------------------------------------------------------------
(* Properties                                                              *)

CallTypeOK ==
  /\ enableDlq \in BOOLEAN
  /\ pc \in [Calls -> Stage]
  /\ attempt \in [Calls -> 0 .. MaxRetries + 1]
  /\ error \in [Calls -> Error]
  /\ copies \in [Calls -> Nat]
  /\ doubt \in [Calls -> Nat]
  /\ dlq \in [Calls -> DlqResult]
  /\ dlqCopies \in [Calls -> {0, 1}]
  /\ dlqDoubt \in [Calls -> {0, 1}]

(* Type invariant.                                                         *)
TypeOK ==
  /\ Breaker!BreakerTypeOK
  /\ Slots!BulkheadTypeOK
  /\ Health!HealthTypeOK
  /\ CallTypeOK

Done(c)      == pc[c] = "done"
Ended(c)     == pc[c] \in {"done", "escaped"}
Succeeded(c) == Done(c) /\ error[c] \in {"none", "unread"}
Rejected(c)  == error[c] \in {"circuit_open", "bulkhead_full"}

(* "success=True means broker-confirmed delivery" (types.py): a call that  *)
(* reports success has a copy of its message in the target topic.          *)
SuccessMeansDelivered == \A c \in Calls : Succeeded(c) => copies[c] > 0

(* What holds of that: the topic has a copy, whatever happened in the      *)
(* attempts before, unless the last send has returned that it failed; and  *)
(* no success, not even that one, is dead-lettered as well.                *)
SuccessIsConfirmedOrUnread ==
  \A c \in Calls :
    Succeeded(c) => /\ copies[c] > 0 \/ (FailuresReturned /\ error[c] = "unread")
                    /\ dlqCopies[c] + dlqDoubt[c] = 0

(* "immediate fast-fail; no network call made": a send turned away by the  *)
(* gate or by the bulkhead has left nothing anywhere, nothing is on its    *)
(* way, and it holds no slot.                                              *)
RejectionLeavesNoTrace ==
  \A c \in Calls :
    Rejected(c) =>
      /\ Done(c) /\ slot[c] = "free" /\ attempt[c] = 0
      /\ copies[c] + doubt[c] + dlqCopies[c] + dlqDoubt[c] = 0

(* A failure result of a send that was let in means one of two things: all *)
(* max_retries + 1 attempts were spent, or the breaker ended the loop.     *)
FailureIsExhaustion ==
  \A c \in Calls :
    Done(c) /\ error[c] = "send" => attempt[c] = MaxRetries + 1

(* Every send that was let in and failed met the dead letter queue before  *)
(* it returned: it was written, or the write failed, or the operator had   *)
(* disabled the queue.  A success never did.                               *)
FailureMeetsDlq ==
  \A c \in Calls :
    Ended(c) /\ error[c] # "interrupt" =>
      (dlq[c] # "unsent" <=> error[c] \in {"send", "breaker"})

(* Retries duplicate, but boundedly: a message has at most one copy, in    *)
(* its topic or still on its way, for each attempt that was started.       *)
CopiesBoundedByAttempts ==
  \A c \in Calls : copies[c] + doubt[c] <= attempt[c]

(* The breaker's lock is held for a whole confirmed send, so whatever      *)
(* max_concurrent_sends says, one send at a time is on the network; the    *)
(* other admitted calls wait, back off or write to the dead letter queue.  *)
OneSendAtATime ==
  \A c, d \in Calls : pc[c] = "sending" /\ pc[d] = "sending" => c = d

(* "Prevents one slow broker from exhausting all application threads":     *)
(* everything that can wait for the broker, and the dead letter write too, *)
(* happens inside a slot, and never in more than max_concurrent_sends      *)
(* calls at once.                                                          *)
NetworkOnlyInsideSlot ==
  LET busy == {c \in Calls : pc[c] \in {"breaker", "sending", "backoff", "deciding",
                                        "dead_lettering", "recording"}}
  IN  /\ \A c \in busy : slot[c] = "active"
      /\ Cardinality(busy) <= activeCount
      /\ activeCount <= MaxConcurrentSends

Leaked == {c \in Calls : pc[c] = "escaped" /\ slot[c] # "free"}

(* "The finally block guarantees release even if an unexpected exception   *)
(* escapes": whenever no call is under way, however the calls ended, the   *)
(* breaker's lock is free and every slot is back, but for those of calls   *)
(* interrupted outside the try, on the way into it or in the finally       *)
(* clause itself; active_count counts those of them that got so far.       *)
QuietMeansReleased ==
  (\A c \in Calls : pc[c] \in {"idle", "done", "escaped"}) =>
     /\ caller = NoCall
     /\ Leaked \subseteq Interruptible
     /\ permits + Cardinality(Leaked) = MaxConcurrentSends
     /\ activeCount = Cardinality({c \in Leaked : slot[c] = "active"})

Recorded == {c \in Calls : /\ pc[c] \in {"releasing", "done", "escaped"}
                           /\ error[c] \in {"none", "unread", "send", "breaker"}}
RecordedErrors == {c \in Recorded : error[c] \in {"send", "breaker"}}

(* The monitor counts each admitted call that produced a result exactly    *)
(* once, as what the code takes it for: rejected calls, and calls that     *)
(* were interrupted before they had one, do not count.                     *)
HealthCountsResults ==
  /\ totalOperations = Cardinality(Recorded)
  /\ totalErrors = Cardinality(RecordedErrors)

(* What a call has reported stays true: its result is never revised, and   *)
(* its message stops multiplying except for what was already on its way.   *)
OutcomeIsFinal ==
  [][\A c \in Calls : Ended(c) =>
        /\ pc'[c] = pc[c] /\ error'[c] = error[c] /\ dlq'[c] = dlq[c]
        /\ copies'[c] + doubt'[c] = copies[c] + doubt[c]
        /\ dlqCopies'[c] + dlqDoubt'[c] = dlqCopies[c] + dlqDoubt[c]]_vars

(* Every call that has begun returns: no deadlock between the bulkhead and *)
(* the breaker's lock, and no attempt without an end.                      *)
BegunCallsReturn == \A c \in Calls : pc[c] # "idle" ~> Ended(c)

(***************************************************************************)
(* The producer keeps the contract of SendContract.                        *)
(***************************************************************************)
Outcome(c) ==
  CASE ~Ended(c)                            -> "pending"
    [] Done(c) /\ error[c] = "none"         -> "confirmed"
    [] Done(c) /\ error[c] = "unread"       -> "claimed"
    [] Done(c) /\ Rejected(c)               -> "rejected"
    [] Done(c) /\ ~Rejected(c) /\ ~Succeeded(c)
               -> IF dlq[c] = "written" THEN "preserved" ELSE "given_up"
    [] Ended(c) /\ ~Done(c)                 -> "given_up"

Contract == INSTANCE SendContract
              WITH MaxCopies <- MaxRetries + 1,
                   outcome <- [c \in Calls |-> Outcome(c)],
                   topicCopies <- copies

KeepsContract == Contract!Spec

(***************************************************************************)
(* What ties the state of one call together, stage by stage: its slot, its *)
(* attempts, its result and its dead letter.                               *)
(***************************************************************************)
SlotFits(c) ==
  \/ pc[c] \in {"idle", "done"} /\ slot[c] = "free"
  \/ pc[c] = "bulkhead" /\ slot[c] \in {"free", "acquired"}
  \/ pc[c] = "releasing" /\ slot[c] \in {"active", "releasing"}
  \/ pc[c] = "escaped" /\ c \in Interruptible
  \/ pc[c] \notin {"idle", "done", "bulkhead", "releasing", "escaped"} /\ slot[c] = "active"

AttemptFits(c) ==
  /\ pc[c] \in {"idle", "bulkhead"} \/ Rejected(c) => attempt[c] = 0
  /\ pc[c] = "backoff" => attempt[c] <= MaxRetries
  /\ copies[c] + doubt[c] <= attempt[c]
  /\ pc[c] \in {"breaker", "sending"} => copies[c] + doubt[c] < attempt[c]

ResultFits(c) ==
  /\ Rejected(c) => Done(c)
  /\ pc[c] \in {"idle", "bulkhead", "breaker", "sending", "backoff"} => error[c] = "none"
  /\ pc[c] \in {"deciding", "dead_lettering"} => error[c] \in {"send", "breaker"}
  /\ pc[c] = "recording" => error[c] # "interrupt"
  /\ error[c] = "send" => attempt[c] = MaxRetries + 1
  /\ error[c] = "unread" => FailuresReturned
  /\ pc[c] \in {"recording", "releasing", "done", "escaped"} /\ error[c] = "none"
       => copies[c] > 0

DlqFits(c) ==
  /\ dlq[c] # "unsent" => pc[c] \in {"recording", "releasing", "done", "escaped"}
                          /\ error[c] \in {"send", "breaker", "interrupt"}
  /\ pc[c] \in {"recording", "releasing", "done", "escaped"}
     /\ error[c] \in {"send", "breaker"} => dlq[c] # "unsent"
  /\ dlq[c] \in {"unsent", "skipped", "unread"} => dlqCopies[c] = 0 /\ dlqDoubt[c] = 0
  /\ dlq[c] = "written" => dlqCopies[c] = 1 /\ dlqDoubt[c] = 0
  /\ dlq[c] = "failed" => dlqCopies[c] = 0 \/ dlqDoubt[c] = 0

CallFits(c) == SlotFits(c) /\ AttemptFits(c) /\ ResultFits(c) /\ DlqFits(c)

(* The one piece of state that ties calls to each other: whoever sends     *)
(* holds the breaker's lock, and nobody else does.                         *)
LockFits == \A c \in Calls : pc[c] = "sending" <=> caller = c

(* The inductive invariant: all of it together says where every slot, the  *)
(* lock and every copy of a message can be, at each stage of each call.    *)
ProducerInv ==
  /\ LockFits
  /\ \A c \in Calls : CallFits(c)

(* The slots the calls hold form a pool of max_concurrent_sends slots,     *)
(* whatever ends the calls that hold them.                                 *)
SlotsFormAPool == Slots!IsResourcePool

=============================================================================
