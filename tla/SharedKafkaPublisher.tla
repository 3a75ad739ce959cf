------------------------ MODULE SharedKafkaPublisher ------------------------
(***************************************************************************)
(* SharedKafkaPublisher of notebook 03: threads that publish through one   *)
(* instance, a poller thread that serves the callbacks, and close(), which *)
(* may be called again.                                                    *)
(*                                                                         *)
(*   idle -- publish --> trying --> locked --> counting --> accepted       *)
(*                        ^  |        |                                    *)
(*                  sleep |  v        v queue full                         *)
(*                        | closed   full --> timedOut                     *)
(*                        +-----------+                                    *)
(*                                                                         *)
(* _state_lock covers the check of _closing and the produce(); inside it   *)
(* _metrics_lock covers the produce() and its count.  A publish is one     *)
(* call with arguments that pass publish's own checks.                     *)
(***************************************************************************)
EXTENDS KafkaClient

Publishes == Messages

VARIABLES
  at,            (* where each publish is                                  *)
  expired,       (* has its deadline passed?                               *)
  closing,       (* _closing                                               *)
  poller,        (* _poller: "running", "stopping" once the event is set   *)
  closer,        (* the close() that holds _close_lock                     *)
  accepted, delivered, failed, rejected,     (* _metrics                   *)
  drained        (* history: some close() has returned 0                   *)

metrics == <<accepted, delivered, failed, rejected>>
vars == <<fate, at, expired, closing, poller, closer, metrics, drained>>

Place == {"idle", "trying", "locked", "counting", "full",
          "accepted", "closed", "refused", "timedOut"}

Init ==
  /\ ClientInit
  /\ at = [p \in Publishes |-> "idle"]
  /\ expired = [p \in Publishes |-> FALSE]
  /\ closing = FALSE /\ poller = "running" /\ closer = "idle"
  /\ accepted = 0 /\ delivered = 0 /\ failed = 0 /\ rejected = 0
  /\ drained = FALSE

Goto(p, place) == at' = [at EXCEPT ![p] = place]

MetricsLockFree == \A p \in Publishes : at[p] # "counting"

\* Mutant: _closing is looked at before the lock is taken.
StateLockLate == \A p \in Publishes : at[p] # "counting"

StateLockFree == \A p \in Publishes : at[p] \notin {"locked", "counting"}

-----------------------------------------------------------------------------
(* publish()                                                               *)

Publish(p) ==
  /\ at[p] = "idle"
  /\ Goto(p, "trying")
  /\ UNCHANGED <<fate, expired, closing, poller, closer, metrics, drained>>

CheckClosing(p) ==
  /\ at[p] = "trying" /\ StateLockFree
  /\ Goto(p, IF closing THEN "closed" ELSE "locked")
  /\ UNCHANGED <<fate, expired, closing, poller, closer, metrics, drained>>

Produce(p) ==
  /\ at[p] = "locked" /\ MetricsLockFree
  /\ Accept(p)
  /\ Goto(p, "counting")
  /\ UNCHANGED <<expired, closing, poller, closer, metrics, drained>>

QueueFull(p) ==
  /\ at[p] = "locked" /\ MetricsLockFree
  /\ Full
  /\ Goto(p, "full")
  /\ UNCHANGED <<fate, expired, closing, poller, closer, metrics, drained>>

\* Any exception but BufferError leaves publish() and both locks.
Raises(p) ==
  /\ at[p] = "locked" /\ MetricsLockFree
  /\ Goto(p, "refused")
  /\ UNCHANGED <<fate, expired, closing, poller, closer, metrics, drained>>

CountAccepted(p) ==
  /\ at[p] = "counting"
  /\ accepted' = accepted + 1
  /\ Goto(p, "accepted")
  /\ UNCHANGED <<fate, expired, closing, poller, closer, delivered, failed, rejected, drained>>

TimeOut(p) ==
  /\ at[p] = "full" /\ expired[p] /\ MetricsLockFree
  /\ rejected' = rejected + 1
  /\ Goto(p, "timedOut")
  /\ UNCHANGED <<fate, expired, closing, poller, closer, accepted, delivered, failed, drained>>

Sleep(p) ==
  /\ at[p] = "full" /\ ~expired[p]
  /\ Goto(p, "trying")
  /\ UNCHANGED <<fate, expired, closing, poller, closer, metrics, drained>>

DeadlinePasses(p) ==
  /\ at[p] \in {"trying", "locked", "full"} /\ ~expired[p]
  /\ expired' = [expired EXCEPT ![p] = TRUE]
  /\ UNCHANGED <<fate, at, closing, poller, closer, metrics, drained>>

-----------------------------------------------------------------------------
(* _poll_loop, _on_delivery                                                *)

OnDelivery(p) ==
  /\ delivered' = IF fate[p] = "acked" THEN delivered + 1 ELSE delivered
  /\ failed'    = IF fate[p] = "refused" THEN failed + 1 ELSE failed

\* Mutant: the callback counts without the lock.
ServeReportUnlocked(p) ==
  /\ poller # "stopped" \/ closer = "flushing"
  /\ Serve(p)
  /\ OnDelivery(p)
  /\ UNCHANGED <<at, expired, closing, poller, closer, accepted, rejected, drained>>

ServeReport(p) ==
  /\ poller # "stopped" \/ closer = "flushing"
  /\ MetricsLockFree
  /\ Serve(p)
  /\ OnDelivery(p)
  /\ UNCHANGED <<at, expired, closing, poller, closer, accepted, rejected, drained>>

PollerStops ==
  /\ poller = "stopping"
  /\ poller' = "stopped"
  /\ UNCHANGED <<fate, at, expired, closing, closer, metrics, drained>>

-----------------------------------------------------------------------------
(* close(), for the first time or again                                    *)

BeginClose ==
  /\ closer = "idle" /\ StateLockFree
  /\ closing' = TRUE
  /\ poller' = IF poller = "running" THEN "stopping" ELSE poller
  /\ closer' = "joining"
  /\ UNCHANGED <<fate, at, expired, metrics, drained>>

\* RuntimeError: the poller is still inside poll() after the join.
JoinTimesOut ==
  /\ closer = "joining" /\ poller # "stopped"
  /\ closer' = "idle"
  /\ UNCHANGED <<fate, at, expired, closing, poller, metrics, drained>>

Join ==
  /\ closer = "joining" /\ poller = "stopped"
  /\ closer' = "flushing"
  /\ UNCHANGED <<fate, at, expired, closing, poller, metrics, drained>>

FlushReturns ==
  /\ closer = "flushing"
  /\ drained' = (drained \/ Outstanding = {})
  /\ closer' = "idle"
  /\ UNCHANGED <<fate, at, expired, closing, poller, metrics>>

Background ==
  /\ BackgroundThread
  /\ UNCHANGED <<at, expired, closing, poller, closer, metrics, drained>>

-----------------------------------------------------------------------------
ProduceStep(p) == Produce(p) \/ QueueFull(p) \/ Raises(p)

PublishStep(p) ==
  \/ CheckClosing(p) \/ ProduceStep(p)
  \/ CountAccepted(p) \/ TimeOut(p) \/ Sleep(p)

Next ==
  \/ \E p \in Publishes : Publish(p) \/ PublishStep(p) \/ DeadlinePasses(p) \/ ServeReport(p)
  \/ PollerStops \/ BeginClose \/ JoinTimesOut \/ Join \/ FlushReturns
  \/ Background

Spec == Init /\ [][Next]_vars

-----------------------------------------------------------------------------
\* "A very fast callback cannot be counted before local acceptance is
\* counted": what a snapshot calls accepted covers every result it shows, and
\* the difference is what the client still holds.
CountsAreOrdered ==
  /\ delivered + failed <= accepted
  /\ MetricsLockFree => accepted - delivered - failed = Cardinality(Outstanding)

\* Once a close() has returned 0 the client is empty for good: no publish
\* that had begun before slips a message in behind it.
DrainedForGood == drained => Outstanding = {}

=============================================================================
