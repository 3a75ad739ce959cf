--------------------------- MODULE CircuitBreaker ---------------------------
(***************************************************************************)
(* The CircuitBreaker of the dead-letter-queue producer: a thin wrapper    *)
(* (can_execute, call, reset) around the library class                     *)
(* pybreaker.CircuitBreaker, whose state machine the wrapper relies on.    *)
(*                                                                         *)
(* Library behaviour the wrapper depends on (pybreaker 1.4):               *)
(*   - call() holds the breaker's lock from the check of the state to the  *)
(*     record of the outcome, so protected calls run one at a time;        *)
(*   - close() takes the same lock; current_state is read without it;      *)
(*   - a failure that trips the circuit, and a call that is refused, both  *)
(*     raise CircuitBreakerError.                                          *)
(*                                                                         *)
(* Time is one Boolean, read only while the circuit is OPEN: has the       *)
(* blackout window of that trip elapsed.  failCount is the library's       *)
(* counter while the circuit is CLOSED, its only reader, and successCount  *)
(* its counter while HALF_OPEN; all three have a neutral value elsewhere.  *)
(***************************************************************************)
EXTENDS Integers, SendCalls

CONSTANTS
  FailureThreshold,   (* config.failure_threshold, pybreaker fail_max *)
  SuccessThreshold,   (* config.success_threshold                     *)
  NoCall              (* the breaker's lock is free                   *)

ASSUME BreakerAssumption ==
  /\ NoCall \notin Calls
  /\ FailureThreshold \in Nat \ {0}
  /\ SuccessThreshold \in Nat \ {0}

VARIABLES
  circuit,        (* current_state, mapped to CircuitState              *)
  failCount,      (* consecutive failures in CLOSED                     *)
  successCount,   (* consecutive successes in HALF_OPEN                 *)
  blackoutOver,   (* recovery_timeout_seconds have passed since the trip *)
  caller          (* the call inside the protected operation, or NoCall *)

breakerVars == <<circuit, failCount, successCount, blackoutOver, caller>>

CircuitState == {"CLOSED", "OPEN", "HALF_OPEN"}

BreakerInit ==
  /\ circuit = "CLOSED"
  /\ failCount = 0
  /\ successCount = 0
  /\ blackoutOver = TRUE
  /\ caller = NoCall

(***************************************************************************)
(* can_execute: the gate read before a slot is asked for.  It looks at the *)
(* state without the breaker's lock and changes nothing.                   *)
(***************************************************************************)
InBlackout == circuit = "OPEN" /\ ~blackoutOver

\* Mutant: the gate waits for the breaker to leave OPEN by itself.
CanExecuteClosedOnly == circuit # "OPEN"

CanExecute == ~InBlackout

(***************************************************************************)
(* call(protected_call), from the lock to the protected operation: the     *)
(* first call after the blackout turns the circuit HALF_OPEN and is its    *)
(* own probe; during the blackout the call is refused.                     *)
(***************************************************************************)

Enter(c) ==
  /\ caller = NoCall
  /\ ~InBlackout
  /\ caller' = c
  /\ circuit' = IF circuit = "OPEN" THEN "HALF_OPEN" ELSE circuit
  /\ successCount' = IF circuit = "OPEN" THEN 0 ELSE successCount
  /\ UNCHANGED <<failCount, blackoutOver>>

Refuse(c) ==
  /\ caller = NoCall
  /\ InBlackout
  /\ UNCHANGED breakerVars

\* Mutant: one successful probe restores the circuit.
RecoversOnFirst == circuit = "HALF_OPEN"

Recovers == circuit = "HALF_OPEN" /\ successCount + 1 >= SuccessThreshold

\* Mutant: a success in CLOSED leaves the failure counter alone.
SucceedKeepsFailures(c) ==
  /\ caller = c
  /\ caller' = NoCall
  /\ circuit' = IF Recovers THEN "CLOSED" ELSE circuit
  /\ failCount' = IF Recovers THEN 0 ELSE failCount
  /\ successCount' = IF circuit = "HALF_OPEN" /\ ~Recovers THEN successCount + 1 ELSE 0
  /\ UNCHANGED blackoutOver

Succeed(c) ==
  /\ caller = c
  /\ caller' = NoCall
  /\ circuit' = IF Recovers THEN "CLOSED" ELSE circuit
  /\ failCount' = 0
  /\ successCount' = IF circuit = "HALF_OPEN" /\ ~Recovers THEN successCount + 1 ELSE 0
  /\ UNCHANGED blackoutOver

\* Mutant: a failed probe is counted as any other failure.
TripsByCountOnly == failCount + 1 >= FailureThreshold

Trips == circuit = "HALF_OPEN" \/ failCount + 1 >= FailureThreshold

\* Mutant: a trip keeps the opened_at of the trip before it.
FailKeepsOpenedAt(c) ==
  /\ caller = c
  /\ caller' = NoCall
  /\ circuit' = IF Trips THEN "OPEN" ELSE circuit
  /\ failCount' = IF Trips THEN 0 ELSE failCount + 1
  /\ successCount' = 0
  /\ UNCHANGED blackoutOver

\* Mutant: the lock is not released when the operation raises.
FailKeepsLock(c) ==
  /\ caller = c
  /\ circuit' = IF Trips THEN "OPEN" ELSE circuit
  /\ failCount' = IF Trips THEN 0 ELSE failCount + 1
  /\ successCount' = 0
  /\ blackoutOver' = IF Trips THEN FALSE ELSE blackoutOver
  /\ UNCHANGED caller

Fail(c) ==
  /\ caller = c
  /\ caller' = NoCall
  /\ circuit' = IF Trips THEN "OPEN" ELSE circuit
  /\ failCount' = IF Trips THEN 0 ELSE failCount + 1
  /\ successCount' = 0
  /\ blackoutOver' = IF Trips THEN FALSE ELSE blackoutOver

(***************************************************************************)
(* reset(): the operator closes the circuit, waiting for the lock.         *)
(***************************************************************************)
Reset ==
  /\ caller = NoCall
  /\ circuit' = "CLOSED"
  /\ failCount' = 0
  /\ successCount' = 0
  /\ blackoutOver' = TRUE
  /\ UNCHANGED caller

(***************************************************************************)
(* Time passes: the blackout window of the last trip comes to its end.     *)
(***************************************************************************)
BlackoutElapses ==
  /\ InBlackout
  /\ blackoutOver' = TRUE
  /\ UNCHANGED <<circuit, failCount, successCount, caller>>

BreakerNext ==
  \/ \E c \in Calls : Enter(c) \/ Refuse(c) \/ Succeed(c) \/ Fail(c)
  \/ Reset
  \/ BlackoutElapses

BreakerSpec == BreakerInit /\ [][BreakerNext]_breakerVars

-----------------------------------------------------------------------------
(* Properties                                                              *)

(* Type invariant; the counters never reach the thresholds they are        *)
(* compared with, because reaching one changes the state.                  *)
BreakerTypeOK ==
  /\ circuit \in CircuitState
  /\ failCount \in 0 .. FailureThreshold - 1
  /\ successCount \in 0 .. SuccessThreshold - 1
  /\ blackoutOver \in BOOLEAN
  /\ ~blackoutOver => circuit = "OPEN"
  /\ caller \in Calls \union {NoCall}

(* An operation that runs is covered by the state it was let through in:   *)
(* the breaker's lock keeps anybody from opening the circuit under it.     *)
NeverOpenUnderACall == caller # NoCall => circuit # "OPEN"

=============================================================================
