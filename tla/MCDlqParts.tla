----------------------------- MODULE MCDlqParts ------------------------------
(***************************************************************************)
(* The three parts of the dead-letter-queue producer, each on its own with *)
(* any caller: a behaviour exercises one part, the one on the bench.       *)
(*                                                                         *)
(* Histories that the code does not keep judge two of them: the outcomes   *)
(* that the circuit breaker has seen, to state its rules without its own   *)
(* counters, and those that the health monitor was told.                   *)
(***************************************************************************)
EXTENDS Bulkhead, CircuitBreaker, SlidingWindowHealthMonitor, SequencesExt

CONSTANT MaxOperations   (* bound: the operations the monitor is told of *)

VARIABLES
  bench,    (* the part under test                                        *)
  recent,   (* breaker: the outcomes since it last changed, newest last   *)
  waited,   (* breaker: has the blackout of this OPEN period passed?      *)
  history   (* monitor: every outcome it was told                         *)

partVars == <<bulkheadVars, breakerVars, healthVars>>
vars     == <<partVars, bench, recent, waited, history>>

Init ==
  /\ bench \in {"bulkhead", "breaker", "monitor"}
  /\ BulkheadInit /\ BreakerInit /\ HealthInit
  /\ recent = <<>> /\ waited = FALSE /\ history = <<>>

BulkheadStep ==
  /\ BulkheadNext
  /\ UNCHANGED <<breakerVars, healthVars, recent, waited, history>>

-----------------------------------------------------------------------------
(* The circuit breaker                                                     *)

(* Only as many outcomes are kept as any rule looks back on. *)
Depth == IF FailureThreshold > SuccessThreshold THEN FailureThreshold ELSE SuccessThreshold

Newest(s) == IF Len(s) > Depth THEN Tail(s) ELSE s

Remember(outcome) ==
  recent' = IF circuit' # circuit THEN <<>> ELSE Newest(Append(recent, outcome))

BreakerStep ==
  /\ \/ /\ \E c \in Calls : Enter(c) \/ Refuse(c)
        /\ recent' = IF circuit' # circuit THEN <<>> ELSE recent
        /\ UNCHANGED waited
     \/ /\ \E c \in Calls : Succeed(c)
        /\ Remember("success")
        /\ UNCHANGED waited
     \/ /\ \E c \in Calls : Fail(c)
        /\ Remember("failure")
        /\ waited' = IF circuit' = "OPEN" THEN FALSE ELSE waited
     \/ Reset /\ recent' = <<>> /\ UNCHANGED waited
     \/ BlackoutElapses /\ waited' = TRUE /\ UNCHANGED recent
  /\ UNCHANGED <<bulkheadVars, healthVars, history>>

-----------------------------------------------------------------------------
(* The health monitor                                                      *)

MonitorStep ==
  /\ Len(history) < MaxOperations
  /\ \E success \in BOOLEAN :
       RecordOperation(success) /\ history' = Append(history, success)
  /\ UNCHANGED <<bulkheadVars, breakerVars, recent, waited>>

Next ==
  /\ \/ bench = "bulkhead" /\ BulkheadStep
     \/ bench = "breaker" /\ BreakerStep
     \/ bench = "monitor" /\ MonitorStep
  /\ UNCHANGED bench

Spec == Init /\ [][Next]_vars

-----------------------------------------------------------------------------
(* Properties of the circuit breaker                                       *)

EndsInFailures(s, n) ==
  /\ Len(s) >= n
  /\ \A i \in Len(s) - n + 1 .. Len(s) : s[i] = "failure"

(* "Consecutive failures that trip the circuit from CLOSED to OPEN"        *)
(* (types.py, failure_threshold): the circuit opens with the               *)
(* failure_threshold-th failure in a row, one success starting the count   *)
(* anew, not earlier ...                                                   *)
OpensOnThresholdFailures ==
  [][circuit = "CLOSED" /\ circuit' = "OPEN"
       => EndsInFailures(recent, FailureThreshold - 1)]_vars

(* ... and not later: a circuit that is CLOSED has not seen them, nor has  *)
(* a HALF_OPEN one seen any failure, or all the successes it needs.        *)
NoOverdueTransition ==
  /\ circuit = "CLOSED" => ~EndsInFailures(recent, FailureThreshold)
  /\ circuit = "HALF_OPEN" =>
       /\ Len(recent) < SuccessThreshold
       /\ ~Contains(recent, "failure")

(* "Consecutive successes in HALF_OPEN needed to restore CLOSED state"     *)
(* (types.py, success_threshold): other than by the operator, whom the     *)
(* breaker serves only while no call runs, the circuit closes only after   *)
(* that many probes.                                                       *)
ClosesOnThresholdSuccesses ==
  [][circuit # "CLOSED" /\ circuit' = "CLOSED" /\ caller # NoCall
       => circuit = "HALF_OPEN" /\ Len(recent) = SuccessThreshold - 1]_vars

(* "OPEN --[recovery_timeout elapses]--> HALF_OPEN" (types.py): each OPEN  *)
(* period lasts its own blackout, counted from its own trip, before the    *)
(* first probe.                                                            *)
EachTripWaits == [][circuit = "OPEN" /\ circuit' = "HALF_OPEN" => waited]_vars

(* The wrapper's gate never turns away a send that the breaker would let   *)
(* through for good: a gate that is shut is a circuit still in blackout.   *)
ShutGateMeansBlackout == ~CanExecute => circuit = "OPEN" /\ ~waited

-----------------------------------------------------------------------------
(* Properties of the health monitor                                        *)

\* The last HealthWindowSize outcomes, or all of them when there are fewer.
Latest ==
  LET n == Len(history)
      first == IF n > HealthWindowSize THEN n - HealthWindowSize + 1 ELSE 1
  IN  first .. n

FailuresAmong(positions) == Cardinality({i \in positions : ~history[i]})

(* "Cumulative error rate dilutes recent spikes" (core.py): the verdict    *)
(* depends on the last health_window_size outcomes and on nothing older,   *)
(* and on all of them from the first operation on.  "Above which the       *)
(* producer is marked UNHEALTHY" (types.py): a rate at the threshold is    *)
(* healthy.                                                                *)
VerdictFollowsLatest ==
  IsHealthy <=> 100 * FailuresAmong(Latest) <= UnhealthyPercent * Cardinality(Latest)

=============================================================================
