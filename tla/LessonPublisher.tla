--------------------------- MODULE LessonPublisher ---------------------------
(***************************************************************************)
(* The publishers that three lessons build, each around one loop that      *)
(* offers a message to the client until it is accepted or a deadline has   *)
(* passed.  lesson is the class at work:                                   *)
(*   forget     FireAndForgetPublisher, notebook 01 (production version):  *)
(*              no callbacks; close() may be repeated until it succeeds;   *)
(*   confirmed  CallbackConfirmedOrderProducer, notebook 02: callbacks     *)
(*              count, finish() is called once and returns a summary;      *)
(*   router     KafkaEventRouter, notebook 04: several threads publish,    *)
(*              callbacks count under a lock, the application flushes.     *)
(*                                                                         *)
(*   idle -- publish --> producing --> counting --> polling --> returned   *)
(*                        |     ^                                          *)
(*             queue full v     | poll slice                               *)
(*                        draining                                         *)
(*                                                                         *)
(* refused stands for every exception of a publish, whatever it says.      *)
(***************************************************************************)
EXTENDS KafkaClient

VARIABLES
  lesson,
  at,            (* where the publish of each message is                   *)
  expired,       (* has its deadline passed?                               *)
  accepted, delivered, failed,   (* the counters of the class              *)
  shutdown,      (* "open", "flushing" inside close() or finish(),         *)
                 (* "closing" after a close() that raised, "closed"        *)
  summary        (* what finish() returned, or NoReport                    *)

counters == <<accepted, delivered, failed>>
vars == <<fate, lesson, at, expired, counters, shutdown, summary>>

Lessons == {"forget", "confirmed", "router"}
Place   == {"idle", "producing", "draining", "counting", "polling", "returned", "refused"}
AtRest  == {"idle", "returned", "refused"}

NoReport == [queued |-> 0, failed |-> 0, awaiting |-> 0, remaining |-> -1]

Init ==
  /\ ClientInit
  /\ lesson \in Lessons
  /\ at = [m \in Messages |-> "idle"]
  /\ expired = [m \in Messages |-> FALSE]
  /\ accepted = 0 /\ delivered = 0 /\ failed = 0
  /\ shutdown = "open" /\ summary = NoReport

Goto(m, place) == at' = [at EXCEPT ![m] = place]

Quiet == shutdown # "flushing" /\ \A m \in Messages : at[m] \in AtRest

-----------------------------------------------------------------------------
(* send(), publish()                                                       *)

\* One thread, except in the router lesson.  A refused message may be
\* offered again.
Publish(m) ==
  /\ at[m] \in {"idle", "refused"}
  /\ lesson = "router" \/ Quiet
  /\ Goto(m, IF shutdown = "open" THEN "producing" ELSE "refused")
  /\ expired' = [expired EXCEPT ![m] = FALSE]
  /\ UNCHANGED <<fate, lesson, counters, shutdown, summary>>

Produce(m) ==
  /\ at[m] = "producing"
  /\ Accept(m)
  /\ Goto(m, "counting")
  /\ UNCHANGED <<lesson, expired, counters, shutdown, summary>>

\* Validation, encoding, or any exception of produce() but BufferError.
Raises(m) ==
  /\ at[m] = "producing"
  /\ Goto(m, "refused")
  /\ UNCHANGED <<fate, lesson, expired, counters, shutdown, summary>>

QueueFull(m) ==
  /\ at[m] = "producing" /\ Full /\ ~expired[m]
  /\ Goto(m, "draining")
  /\ UNCHANGED <<fate, lesson, expired, counters, shutdown, summary>>

DrainSliceEnds(m) ==
  /\ at[m] = "draining"
  /\ Goto(m, "producing")
  /\ UNCHANGED <<fate, lesson, expired, counters, shutdown, summary>>

TimeOut(m) ==
  /\ at[m] = "producing" /\ Full /\ expired[m]
  /\ Goto(m, "refused")
  /\ UNCHANGED <<fate, lesson, expired, counters, shutdown, summary>>

DeadlinePasses(m) ==
  /\ at[m] \in {"producing", "draining"} /\ ~expired[m]
  /\ expired' = [expired EXCEPT ![m] = TRUE]
  /\ UNCHANGED <<fate, lesson, at, counters, shutdown, summary>>

CountAccepted(m) ==
  /\ at[m] = "counting"
  /\ accepted' = accepted + 1
  /\ Goto(m, IF lesson = "confirmed" THEN "returned" ELSE "polling")
  /\ UNCHANGED <<fate, lesson, expired, delivered, failed, shutdown, summary>>

PollReturns(m) ==
  /\ at[m] = "polling"
  /\ Goto(m, "returned")
  /\ UNCHANGED <<fate, lesson, expired, counters, shutdown, summary>>

-----------------------------------------------------------------------------
(* Delivery callbacks                                                      *)

\* poll() of notebook 02, while its one thread does nothing else; the router
\* of notebook 04 leaves the client to the application at any time.
ApplicationPolls ==
  \/ lesson = "confirmed" /\ Quiet /\ shutdown = "open"
  \/ lesson = "router"

InsideClient ==
  \/ \E m \in Messages : at[m] \in {"draining", "polling"}
  \/ shutdown = "flushing"
  \/ ApplicationPolls

\* Mutant: what was not delivered is not counted at all.
OnDeliverySuccess(m) ==
  /\ delivered' = IF fate[m] = "acked" THEN delivered + 1 ELSE delivered
  /\ UNCHANGED failed

OnDelivery(m) ==
  /\ delivered' = IF fate[m] = "acked" THEN delivered + 1 ELSE delivered
  /\ failed'    = IF fate[m] = "refused" THEN failed + 1 ELSE failed

ServeReport(m) ==
  /\ InsideClient
  /\ Serve(m)
  /\ IF lesson = "forget" THEN UNCHANGED <<delivered, failed>> ELSE OnDelivery(m)
  /\ UNCHANGED <<lesson, at, expired, accepted, shutdown, summary>>

Background ==
  /\ BackgroundThread
  /\ UNCHANGED <<lesson, at, expired, counters, shutdown, summary>>

-----------------------------------------------------------------------------
(* close() of notebook 01, finish() of notebook 02                         *)

BeginClose ==
  /\ lesson # "router" /\ Quiet
  /\ shutdown = "open" \/ (lesson = "forget" /\ shutdown = "closing")
  /\ shutdown' = "flushing"
  /\ UNCHANGED <<fate, lesson, at, expired, counters, summary>>

\* Mutant: what flush() leaves behind is not looked at.
CloseReturnsAlways ==
  /\ lesson = "forget" /\ shutdown = "flushing"
  /\ shutdown' = "closed"
  /\ UNCHANGED <<fate, lesson, at, expired, counters, summary>>

\* TimeoutError when something is left.
CloseReturns ==
  /\ lesson = "forget" /\ shutdown = "flushing"
  /\ shutdown' = IF Outstanding = {} THEN "closed" ELSE "closing"
  /\ UNCHANGED <<fate, lesson, at, expired, counters, summary>>

FinishReturns ==
  /\ lesson = "confirmed" /\ shutdown = "flushing"
  /\ shutdown' = "closed"
  /\ summary' = [queued |-> accepted, failed |-> failed,
                 awaiting |-> accepted - delivered - failed,
                 remaining |-> Cardinality(Outstanding)]
  /\ UNCHANGED <<fate, lesson, at, expired, counters>>

AllConfirmed(s) == s.failed = 0 /\ s.awaiting = 0 /\ s.remaining = 0

-----------------------------------------------------------------------------
PublishStep(m) ==
  \/ Produce(m) \/ Raises(m) \/ QueueFull(m) \/ DrainSliceEnds(m) \/ TimeOut(m)
  \/ CountAccepted(m) \/ PollReturns(m)

Next ==
  \/ \E m \in Messages : Publish(m) \/ PublishStep(m) \/ DeadlinePasses(m) \/ ServeReport(m)
  \/ BeginClose \/ CloseReturns \/ FinishReturns
  \/ Background

Spec == Init /\ [][Next]_vars

-----------------------------------------------------------------------------
\* all_confirmed, "True only when no accepted message failed or remains
\* unresolved": everything the client took has been delivered.
VerdictIsSound ==
  AllConfirmed(summary) => \A m \in Messages : fate[m] \in {"absent", "delivered"}

\* What is accepted and not yet heard of is what the client holds, less what
\* a publish has handed over and not counted yet.
AwaitingIsExact ==
  lesson # "forget" =>
    accepted - delivered - failed =
      Cardinality(Outstanding) - Cardinality({m \in Messages : at[m] = "counting"})

\* close() returns only when the client has nothing left, and nothing gets
\* into it any more.
ClosedMeansDrained == lesson = "forget" /\ shutdown = "closed" => Outstanding = {}

=============================================================================
