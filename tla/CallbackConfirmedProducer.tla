---------------------- MODULE CallbackConfirmedProducer ----------------------
(***************************************************************************)
(* CallbackConfirmedProducer: one thread publishes events, serves delivery *)
(* callbacks while it goes, and finishes once with a DeliverySummary.      *)
(*                                                                         *)
(* The class is used from ONE thread, so a call runs to its end before     *)
(* the next one begins; what interleaves with it is the client's           *)
(* background thread, the clock, and a KeyboardInterrupt, which the thread *)
(* may take between any two steps.  `at` is where the thread is:           *)
(*                                                                         *)
(*   idle -- publish_event --> producing --> counting --> idle             *)
(*                              |     ^                                    *)
(*                   queue full v     | poll slice                         *)
(*                             draining                                    *)
(*   idle -- poll --> polling --> idle                                     *)
(*   idle -- finish --> flushing --> idle, with a summary                  *)
(*                                                                         *)
(* Events stand for calls of publish_event with a valid event; a call with *)
(* an invalid one, like any call after finish(), raises at once and        *)
(* changes nothing.                                                        *)
(***************************************************************************)
EXTENDS KafkaClient, Sequences

CONSTANTS
  RefusedEvents,   (* those the client refuses outright, e.g. too large    *)
  SampleSize,      (* RECENT_FAILURE_SAMPLE_SIZE                           *)
  MaxInterrupts,   (* bound: KeyboardInterrupts in a behaviour             *)
  NoEvent,         (* current, outside of publish_event                    *)
  NoSummary        (* summary, before finish() has returned                *)

Events == Messages

CallbackConfirmedAssumption ==
  /\ RefusedEvents \subseteq Events
  /\ SampleSize \in Nat \ {0}
  /\ MaxInterrupts \in Nat
  /\ NoEvent \notin Events

VARIABLES
  at,              (* where the thread is                                  *)
  current,         (* the event that publish_event is queueing             *)
  expired,         (* has the deadline of _queue_message passed?           *)
  isFinished,      (* is_finished                                          *)
  queuedCount,     (* queued_count                                         *)
  deliveredCount,  (* delivered_count                                      *)
  failedCount,     (* failed_count                                         *)
  recentFailures,  (* recent_delivery_failures, the latest last            *)
  summary,         (* the DeliverySummary that finish() returned           *)
  outcome,         (* history: how publish_event ended for each event      *)
  interrupts,      (* history: KeyboardInterrupts so far                   *)
  unheard          (* history: events whose callback was interrupted       *)

counts == <<queuedCount, deliveredCount, failedCount, recentFailures>>
vars   == <<fate, at, current, expired, isFinished, counts, summary, outcome,
            interrupts, unheard>>

Outcome == {"none", "returned", "refused", "timedOut", "interrupted"}

Init ==
  /\ ClientInit
  /\ at = "idle"
  /\ current = NoEvent
  /\ expired = FALSE
  /\ isFinished = FALSE
  /\ queuedCount = 0 /\ deliveredCount = 0 /\ failedCount = 0
  /\ recentFailures = <<>>
  /\ summary = NoSummary
  /\ outcome = [e \in Events |-> "none"]
  /\ interrupts = 0
  /\ unheard = {}

-----------------------------------------------------------------------------
(* publish_event() and _queue_message()                                    *)

(* The caller may offer again an event that it knows was not queued.       *)
PublishEvent(e) ==
  /\ at = "idle" /\ ~isFinished
  /\ outcome[e] \in {"none", "refused", "timedOut"}
  /\ at' = "producing" /\ current' = e /\ expired' = FALSE
  /\ UNCHANGED <<fate, isFinished, counts, summary, outcome, interrupts, unheard>>

EndPublish(how) ==
  /\ at' = "idle" /\ current' = NoEvent /\ expired' = FALSE
  /\ outcome' = [outcome EXCEPT ![current] = how]

Produce ==
  /\ at = "producing" /\ current \notin RefusedEvents
  /\ Accept(current)
  /\ at' = "counting"
  /\ UNCHANGED <<current, expired, isFinished, counts, summary, outcome, interrupts, unheard>>

\* Mutant: the stopwatch is read once more after produce() has returned.
CountUnlessLate ==
  /\ at = "counting"
  /\ EndPublish(IF expired THEN "timedOut" ELSE "returned")
  /\ queuedCount' = IF expired THEN queuedCount ELSE queuedCount + 1
  /\ UNCHANGED <<fate, isFinished, deliveredCount, failedCount, recentFailures, summary, interrupts, unheard>>

CountQueued ==
  /\ at = "counting"
  /\ EndPublish("returned")
  /\ queuedCount' = queuedCount + 1
  /\ UNCHANGED <<fate, isFinished, deliveredCount, failedCount, recentFailures, summary, interrupts, unheard>>

(* KafkaException is not caught: the event is neither queued nor counted.  *)
ClientRefuses ==
  /\ at = "producing" /\ current \in RefusedEvents
  /\ EndPublish("refused")
  /\ UNCHANGED <<fate, isFinished, counts, summary, interrupts, unheard>>

QueueFull ==
  /\ at = "producing" /\ current \notin RefusedEvents
  /\ Full /\ ~expired
  /\ at' = "draining"
  /\ UNCHANGED <<fate, current, expired, isFinished, counts, summary, outcome, interrupts, unheard>>

DrainSliceEnds ==
  /\ at = "draining"
  /\ at' = "producing"
  /\ UNCHANGED <<fate, current, expired, isFinished, counts, summary, outcome, interrupts, unheard>>

\* Mutant: an event that is given up is counted as queued.
GiveUpCounted ==
  /\ at = "producing" /\ current \notin RefusedEvents
  /\ Full /\ expired
  /\ EndPublish("timedOut")
  /\ queuedCount' = queuedCount + 1
  /\ UNCHANGED <<fate, isFinished, deliveredCount, failedCount, recentFailures, summary, interrupts, unheard>>

\* Mutant: a full queue is retried for ever.
GiveUpNever ==
  /\ at = "producing" /\ current \notin RefusedEvents
  /\ Full /\ expired
  /\ at' = "draining"
  /\ UNCHANGED <<fate, current, expired, isFinished, counts, summary, outcome, interrupts, unheard>>

GiveUp ==
  /\ at = "producing" /\ current \notin RefusedEvents
  /\ Full /\ expired
  /\ EndPublish("timedOut")
  /\ UNCHANGED <<fate, isFinished, counts, summary, interrupts, unheard>>

DeadlinePasses ==
  /\ at \in {"producing", "draining", "counting"} /\ ~expired
  /\ expired' = TRUE
  /\ UNCHANGED <<fate, at, current, isFinished, counts, summary, outcome, interrupts, unheard>>

-----------------------------------------------------------------------------
(* The delivery callback, which runs inside poll() and flush()             *)

NoteFailure(e) ==
  LET notes == Append(recentFailures, e)
  IN  IF Len(notes) > SampleSize THEN Tail(notes) ELSE notes

OnDelivery(e) ==
  /\ deliveredCount' = IF fate[e] = "acked" THEN deliveredCount + 1 ELSE deliveredCount
  /\ failedCount'    = IF fate[e] = "refused" THEN failedCount + 1 ELSE failedCount
  /\ recentFailures' = IF fate[e] = "refused" THEN NoteFailure(e) ELSE recentFailures

InsideClient == at \in {"draining", "polling", "flushing"}

ServeReport(e) ==
  /\ InsideClient
  /\ Serve(e)
  /\ OnDelivery(e)
  /\ UNCHANGED <<at, current, expired, isFinished, queuedCount, summary, outcome, interrupts, unheard>>

-----------------------------------------------------------------------------
(* poll() and finish()                                                     *)

Poll ==
  /\ at = "idle" /\ ~isFinished
  /\ at' = "polling"
  /\ UNCHANGED <<fate, current, expired, isFinished, counts, summary, outcome, interrupts, unheard>>

PollReturns ==
  /\ at = "polling"
  /\ at' = "idle"
  /\ UNCHANGED <<fate, current, expired, isFinished, counts, summary, outcome, interrupts, unheard>>

Finish ==
  /\ at = "idle" /\ ~isFinished
  /\ isFinished' = TRUE
  /\ at' = "flushing"
  /\ UNCHANGED <<fate, current, expired, counts, summary, outcome, interrupts, unheard>>

Awaiting == queuedCount - deliveredCount - failedCount

DeliverySummary ==
  [queued |-> queuedCount, delivered |-> deliveredCount, failed |-> failedCount,
   awaiting |-> Awaiting, unfinished |-> Cardinality(Outstanding),
   recentFailures |-> recentFailures]

(* flush() returns when nothing is left or when its time is up.            *)
FlushReturns ==
  /\ at = "flushing"
  /\ summary' = DeliverySummary
  /\ at' = "idle"
  /\ UNCHANGED <<fate, current, expired, isFinished, counts, outcome, interrupts, unheard>>

\* Mutant: success is judged by what flush() returned, as all_confirmed warns.
AllConfirmedByFlush(s) == s.unfinished = 0

AllConfirmed(s) == s.failed = 0 /\ s.awaiting = 0 /\ s.unfinished = 0

-----------------------------------------------------------------------------
(* KeyboardInterrupt                                                       *)

(* The call in progress ends by the exception, and no `except` of the      *)
(* class catches it.  Between produce() and `queued_count += 1` it leaves  *)
(* a message that the client holds and the tally does not.                 *)
Abandon ==
  /\ interrupts < MaxInterrupts
  /\ interrupts' = interrupts + 1
  /\ at' = "idle" /\ current' = NoEvent /\ expired' = FALSE
  /\ outcome' = IF current = NoEvent THEN outcome
                ELSE [outcome EXCEPT ![current] = "interrupted"]
  /\ UNCHANGED <<isFinished, counts, summary>>

InterruptCall == at # "idle" /\ Abandon /\ UNCHANGED <<fate, unheard>>

(* On entry to the callback it leaves a report that nobody has counted.    *)
InterruptCallback(e) ==
  /\ InsideClient
  /\ Serve(e)
  /\ unheard' = unheard \cup {e}
  /\ Abandon

-----------------------------------------------------------------------------

PublishStep == \/ Produce \/ CountQueued \/ ClientRefuses
               \/ QueueFull \/ DrainSliceEnds \/ GiveUp
ReturnStep  == PollReturns \/ FlushReturns
CallStep    == PublishStep \/ ReturnStep

Background ==
  /\ BackgroundThread
  /\ UNCHANGED <<at, current, expired, isFinished, counts, summary, outcome, interrupts, unheard>>

Next ==
  \/ \E e \in Events : PublishEvent(e) \/ ServeReport(e) \/ InterruptCallback(e)
  \/ CallStep
  \/ Poll \/ Finish
  \/ DeadlinePasses \/ Background \/ InterruptCall

Spec == Init /\ [][Next]_vars

-----------------------------------------------------------------------------
(* Properties                                                              *)

Accepted == {e \in Events : fate[e] # "absent"}
Returned == {e \in Events : outcome[e] = "returned"}

TypeOK ==
  /\ ClientTypeOK
  /\ at \in {"idle", "producing", "draining", "counting", "polling", "flushing"}
  /\ current \in Events \cup {NoEvent}
  /\ expired \in BOOLEAN /\ isFinished \in BOOLEAN
  /\ queuedCount \in Nat /\ deliveredCount \in Nat /\ failedCount \in Nat
  /\ recentFailures \in Seq(Events) /\ Len(recentFailures) <= SampleSize
  /\ outcome \in [Events -> Outcome]
  /\ interrupts \in 0..MaxInterrupts
  /\ unheard \subseteq Events

(* all_confirmed is "True only if nothing failed and nothing is still      *)
(* unresolved" (delivery_summary.py): it implies that every message the    *)
(* client ever took, also one whose publish_event was interrupted before   *)
(* it was counted, reached the broker.  Two interrupts can defeat it: an   *)
(* event not counted as queued cancels a report not counted as heard.      *)
VerdictIsSound ==
  summary # NoSummary /\ interrupts <= 1 /\ AllConfirmed(summary)
    => Accepted = Delivered

(* A run that no interrupt disturbed reports exactly what happened: as     *)
(* many queued as publish_event returned for, as many delivered and failed *)
(* as the broker answered, and the client agrees on what is unresolved.    *)
HonestReport ==
  summary # NoSummary /\ interrupts = 0 =>
    /\ summary.queued = Cardinality(Returned)
    /\ summary.delivered = Cardinality(Delivered)
    /\ summary.failed = Cardinality(Failed)
    /\ summary.awaiting = summary.unfinished
    /\ AllConfirmed(summary) <=> Returned = Delivered

(* An event that publish_event said was not queued is not with the client, *)
(* so publishing it again cannot make a duplicate.                         *)
UnsentMeansAbsent ==
  \A e \in Events : outcome[e] \in {"none", "refused", "timedOut"} /\ e # current
                      => fate[e] = "absent"

=============================================================================
