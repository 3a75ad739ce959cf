--------------------- MODULE SlidingWindowHealthMonitor ---------------------
(***************************************************************************)
(* The health monitor of the dead-letter-queue producer: a deque with      *)
(* maxlen over the last operations, beside two totals that never shrink.   *)
(* One lock covers all three, so an operation is recorded in one step and  *)
(* a snapshot is taken of one state.  Timestamps and latencies are left    *)
(* out; a window entry is its success flag.                                *)
(***************************************************************************)
EXTENDS Integers, Sequences, FiniteSets

CONSTANTS
  HealthWindowSize,   (* config.health_window_size                            *)
  UnhealthyPercent    (* config.error_rate_unhealthy_threshold, in percent    *)

ASSUME MonitorAssumption ==
  /\ HealthWindowSize \in Nat \ {0}
  /\ UnhealthyPercent \in 0..100

VARIABLES
  window,            (* _window: the success flags, oldest first *)
  totalOperations,   (* _total_operations                        *)
  totalErrors        (* _total_errors                            *)

healthVars == <<window, totalOperations, totalErrors>>

HealthInit ==
  /\ window = <<>>
  /\ totalOperations = 0
  /\ totalErrors = 0

(* deque(maxlen).append: a full window drops its oldest entry.             *)
Slide(w, success) ==
  IF Len(w) < HealthWindowSize THEN Append(w, success) ELSE Append(Tail(w), success)

RecordOperation(success) ==
  /\ window' = Slide(window, success)
  /\ totalOperations' = totalOperations + 1
  /\ totalErrors' = totalErrors + IF success THEN 0 ELSE 1

WindowErrors == Cardinality({i \in DOMAIN window : ~window[i]})

\* Mutant: the rate is taken over the configured size, not over the samples.
IsHealthyOfSize == 100 * WindowErrors <= UnhealthyPercent * HealthWindowSize

(* error_rate <= threshold; an empty window has rate 0.                    *)
IsHealthy == 100 * WindowErrors <= UnhealthyPercent * Len(window)

HealthNext == \E success \in BOOLEAN : RecordOperation(success)

HealthSpec == HealthInit /\ [][HealthNext]_healthVars

-----------------------------------------------------------------------------

(* Type invariant; a deque never grows beyond its maxlen.                  *)
HealthTypeOK ==
  /\ window \in Seq(BOOLEAN)
  /\ Len(window) <= HealthWindowSize
  /\ totalOperations \in Nat
  /\ totalErrors \in Nat

(* What get_metrics_snapshot shows together fits together: the window has  *)
(* a sample for every operation until it is full, and no more errors than  *)
(* were ever counted.                                                      *)
SnapshotConsistent ==
  /\ WindowErrors <= totalErrors
  /\ totalErrors <= totalOperations
  /\ Len(window) = IF totalOperations < HealthWindowSize
                   THEN totalOperations ELSE HealthWindowSize

=============================================================================
