-------------------------- MODULE KafkaEventRouter ---------------------------
(***************************************************************************)
(* KafkaEventRouter: publish() called from several threads that share one  *)
(* router and one client, delivery callbacks that run on whichever thread  *)
(* is inside poll() or flush(), and three counters behind a lock.          *)
(*                                                                         *)
(*   idle -- publish --> producing --> counting --> polling --> returned   *)
(*     |                  |     ^                                          *)
(*     |       queue full v     | poll slice                               *)
(*     |                 draining                                          *)
(*     +--> invalid    producing --> timedOut, refused                     *)
(*                                                                         *)
(* The lock covers each update of a counter, not the pair produce(),       *)
(* accepted_count += 1: between the two any thread may serve the report.   *)
(* A publish is one call of publish(); what makes its event valid, and     *)
(* where it goes, is module EventRouting.                                  *)
(***************************************************************************)
EXTENDS KafkaClient

Publishes == Messages

VARIABLES
  at,              (* where each publish is                                *)
  expired,         (* has its deadline passed?                             *)
  flushing,        (* is the application inside poll() or flush()?         *)
  acceptedCount,   (* _accepted_count                                      *)
  deliveredCount,  (* _delivered_count                                     *)
  failedCount      (* _failed_count                                        *)

vars == <<fate, at, expired, flushing, acceptedCount, deliveredCount, failedCount>>

Place == {"idle", "producing", "draining", "counting", "polling",
          "returned", "invalid", "refused", "timedOut"}

Init ==
  /\ ClientInit
  /\ at = [p \in Publishes |-> "idle"]
  /\ expired = [p \in Publishes |-> FALSE]
  /\ flushing = FALSE
  /\ acceptedCount = 0 /\ deliveredCount = 0 /\ failedCount = 0

Goto(p, place) == at' = [at EXCEPT ![p] = place]

-----------------------------------------------------------------------------
(* publish()                                                               *)

(* Steps 2.1 and 2.2: nothing has touched the client or the counters when  *)
(* route_event or serialize_event raises.                                  *)
Validate(p) ==
  /\ at[p] = "idle"
  /\ Goto(p, "producing") \/ Goto(p, "invalid")
  /\ UNCHANGED <<fate, expired, flushing, acceptedCount, deliveredCount, failedCount>>

\* Mutant: a full queue is taken for an accepted message.
ProduceUnchecked(p) ==
  /\ at[p] = "producing"
  /\ Accept(p) \/ (Full /\ UNCHANGED fate)
  /\ Goto(p, "counting")
  /\ UNCHANGED <<expired, flushing, acceptedCount, deliveredCount, failedCount>>

Produce(p) ==
  /\ at[p] = "producing"
  /\ Accept(p)
  /\ Goto(p, "counting")
  /\ UNCHANGED <<expired, flushing, acceptedCount, deliveredCount, failedCount>>

(* Only BufferError is caught; any other exception of produce() escapes,   *)
(* e.g. for a message that is too large.                                   *)
ClientRefuses(p) ==
  /\ at[p] = "producing"
  /\ Goto(p, "refused")
  /\ UNCHANGED <<fate, expired, flushing, acceptedCount, deliveredCount, failedCount>>

QueueFull(p) ==
  /\ at[p] = "producing"
  /\ Full /\ ~expired[p]
  /\ Goto(p, "draining")
  /\ UNCHANGED <<fate, expired, flushing, acceptedCount, deliveredCount, failedCount>>

DrainSliceEnds(p) ==
  /\ at[p] = "draining"
  /\ Goto(p, "producing")
  /\ UNCHANGED <<fate, expired, flushing, acceptedCount, deliveredCount, failedCount>>

\* Mutant: LocalQueueTimeoutError is never raised.
TimeOutNever(p) ==
  /\ at[p] = "producing"
  /\ Full /\ expired[p]
  /\ Goto(p, "draining")
  /\ UNCHANGED <<fate, expired, flushing, acceptedCount, deliveredCount, failedCount>>

TimeOut(p) ==
  /\ at[p] = "producing"
  /\ Full /\ expired[p]
  /\ Goto(p, "timedOut")
  /\ UNCHANGED <<fate, expired, flushing, acceptedCount, deliveredCount, failedCount>>

DeadlinePasses(p) ==
  /\ at[p] \in {"producing", "draining"} /\ ~expired[p]
  /\ expired' = [expired EXCEPT ![p] = TRUE]
  /\ UNCHANGED <<fate, at, flushing, acceptedCount, deliveredCount, failedCount>>

\* Mutant: the update is lost when another publish is counting too.
CountAcceptedUnlocked(p) ==
  /\ at[p] = "counting"
  /\ acceptedCount' = IF \E q \in Publishes \ {p} : at[q] = "counting"
                      THEN acceptedCount ELSE acceptedCount + 1
  /\ Goto(p, "polling")
  /\ UNCHANGED <<fate, expired, flushing, deliveredCount, failedCount>>

CountAccepted(p) ==
  /\ at[p] = "counting"
  /\ acceptedCount' = acceptedCount + 1
  /\ Goto(p, "polling")
  /\ UNCHANGED <<fate, expired, flushing, deliveredCount, failedCount>>

ReturnReceipt(p) ==
  /\ at[p] = "polling"
  /\ Goto(p, "returned")
  /\ UNCHANGED <<fate, expired, flushing, acceptedCount, deliveredCount, failedCount>>

-----------------------------------------------------------------------------
(* Delivery callbacks                                                      *)

\* Mutant: whatever comes back counts as delivered.
OnDeliveryOptimistic(p) ==
  /\ deliveredCount' = deliveredCount + 1
  /\ UNCHANGED failedCount

OnDelivery(p) ==
  /\ deliveredCount' = IF fate[p] = "acked" THEN deliveredCount + 1 ELSE deliveredCount
  /\ failedCount'    = IF fate[p] = "refused" THEN failedCount + 1 ELSE failedCount

SomeoneInsideClient ==
  flushing \/ \E p \in Publishes : at[p] \in {"draining", "polling"}

(* The callback belongs to publish p and runs on any thread that polls.    *)
ServeReport(p) ==
  /\ SomeoneInsideClient
  /\ Serve(p)
  /\ OnDelivery(p)
  /\ UNCHANGED <<at, expired, flushing, acceptedCount>>

(* "Let the application flush the producer": it polls or flushes the       *)
(* client it owns whenever it likes, for as long as it likes.              *)
ApplicationPolls ==
  /\ flushing' = ~flushing
  /\ UNCHANGED <<fate, at, expired, acceptedCount, deliveredCount, failedCount>>

Background ==
  /\ BackgroundThread
  /\ UNCHANGED <<at, expired, flushing, acceptedCount, deliveredCount, failedCount>>

-----------------------------------------------------------------------------

PublishStep(p) ==
  \/ Produce(p) \/ ClientRefuses(p)
  \/ QueueFull(p) \/ DrainSliceEnds(p) \/ TimeOut(p)
  \/ CountAccepted(p) \/ ReturnReceipt(p)

Next ==
  \/ \E p \in Publishes : Validate(p) \/ PublishStep(p) \/ DeadlinePasses(p) \/ ServeReport(p)
  \/ ApplicationPolls \/ Background

Spec == Init /\ [][Next]_vars

-----------------------------------------------------------------------------
(* Properties                                                              *)

(* snapshot()                                                              *)
Awaiting == acceptedCount - deliveredCount - failedCount

Accepted == {p \in Publishes : fate[p] # "absent"}
Counting == {p \in Publishes : at[p] = "counting"}
Returned == {p \in Publishes : at[p] = "returned"}

TypeOK ==
  /\ ClientTypeOK
  /\ at \in [Publishes -> Place]
  /\ expired \in [Publishes -> BOOLEAN]
  /\ flushing \in BOOLEAN
  /\ acceptedCount \in Nat /\ deliveredCount \in Nat /\ failedCount \in Nat

(* What snapshot() calls awaiting is the number of messages whose result   *)
(* has not come back, less the messages that a publish has handed over and *)
(* not counted yet.  Those make it too low, even negative, and never high. *)
AwaitingIsExact == Awaiting = Cardinality(Outstanding) - Cardinality(Counting)

(* When no publish is between produce() and its count, the snapshot that   *)
(* __main__.py reads as "all confirmed" is right: every event that the     *)
(* router accepted was delivered.                                          *)
ConfirmedMeansDelivered ==
  Counting = {} /\ failedCount = 0 /\ Awaiting = 0 => Accepted = Delivered

(* publish() returns a receipt exactly for what the client holds or held,  *)
(* and an exception of publish() means that nothing was queued, so the     *)
(* caller may publish the event again without making a duplicate.          *)
ReceiptMeansAccepted ==
  \A p \in Publishes :
    fate[p] # "absent" <=> at[p] \in {"counting", "polling", "returned"}

(* "Return current counts, including how many are still awaiting a         *)
(* callback" (core.py): nobody awaits a callback when awaiting is zero.    *)
ZeroAwaitingMeansNoneAwaited ==
  Awaiting = 0 => \A p \in Returned : fate[p] \in {"delivered", "failed"}

=============================================================================
