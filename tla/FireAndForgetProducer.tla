------------------------ MODULE FireAndForgetProducer ------------------------
(***************************************************************************)
(* FireAndForgetProducer of producers/fire_and_forget: threads that share  *)
(* one producer queue messages without ever learning their delivery, and   *)
(* the application closes the producer: once its threads have stopped, as  *)
(* the documentation wants it, or under their feet.                        *)
(*                                                                         *)
(*   idle -- send --> entering --> producing --> calling --> idle          *)
(*                                  ^             |                        *)
(*                       poll slice |             v queue full             *)
(*                                  +--------- draining                    *)
(*                                                                         *)
(* self._producer is read again at each use and close() may set it to None *)
(* between two of them; between reading it and calling produce() on what   *)
(* was read there is room for another thread, too ("calling").             *)
(*                                                                         *)
(* A send whose result is retryable may be tried again by its caller, with *)
(* the same message.  No callback is registered, so poll() runs no code of *)
(* this class: what it does is to take reports out of the local queue.     *)
(***************************************************************************)
EXTENDS KafkaClient

CONSTANTS
  RejectedMessages,  (* messages produce() rejects, e.g. too large          *)
  MayWait,           (* queue_capacity_wait_seconds > 0                     *)
  MayCloseEarly      (* may the application close while sends are under way? *)

FireAndForgetAssumption ==
  /\ RejectedMessages \subseteq Messages
  /\ MayWait \in BOOLEAN /\ MayCloseEarly \in BOOLEAN

VARIABLES
  at,          (* where the send of each message is                        *)
  expired,     (* has its waiting budget run out?                          *)
  result,      (* what its last send() returned                            *)
  lifecycle,   (* "open", "closing" while close() flushes, then "closed"   *)
  resolved,    (* did close() log that all queued messages are resolved?   *)
  early        (* history: close() has begun while a send was under way,   *)
               (* or a send has begun while close() was flushing           *)

vars == <<fate, at, expired, result, lifecycle, resolved, early>>

\* "raised": AssertionError of _queue_message or AttributeError of None.poll.
SendResult ==
  {"none", "queued", "producer_closed", "queue_full", "client_rejected", "raised"}

Retryable(m) == result[m] = "queue_full"

Init ==
  /\ ClientInit
  /\ at = [m \in Messages |-> "idle"]
  /\ expired = [m \in Messages |-> FALSE]
  /\ result = [m \in Messages |-> "none"]
  /\ lifecycle = "open"
  /\ resolved = FALSE /\ early = FALSE

Detached == lifecycle = "closed"

Return(m, outcome) ==
  /\ at' = [at EXCEPT ![m] = "idle"]
  /\ result' = [result EXCEPT ![m] = outcome]

-----------------------------------------------------------------------------
(* send() and _queue_message()                                             *)

Callable(m) == at[m] = "idle" /\ (result[m] = "none" \/ Retryable(m))

(* send() finds a client, and _queue_message looks again.                  *)
Send(m) ==
  /\ Callable(m) /\ ~Detached
  /\ lifecycle = "open" \/ MayCloseEarly
  /\ at' = [at EXCEPT ![m] = "entering"]
  /\ early' = (early \/ lifecycle # "open")
  /\ UNCHANGED <<fate, expired, result, lifecycle, resolved>>

SendOnClosed(m) ==
  /\ Callable(m) /\ Detached
  /\ Return(m, "producer_closed")
  /\ UNCHANGED <<fate, expired, lifecycle, resolved, early>>

(* The deadline is now + queue_capacity_wait_seconds: a budget of zero has *)
(* run out when the first BufferError looks at it.                         *)
EnterQueueing(m) ==
  /\ at[m] = "entering"
  /\ IF Detached
     THEN Return(m, "raised") /\ UNCHANGED expired
     ELSE /\ at' = [at EXCEPT ![m] = "producing"]
          /\ expired' = [expired EXCEPT ![m] = ~MayWait]
          /\ UNCHANGED result
  /\ UNCHANGED <<fate, lifecycle, resolved, early>>

(* None.produce is an AttributeError, which counts as a rejection.         *)
ReadClient(m) ==
  /\ at[m] = "producing"
  /\ IF Detached
     THEN Return(m, "client_rejected")
     ELSE at' = [at EXCEPT ![m] = "calling"] /\ UNCHANGED result
  /\ UNCHANGED <<fate, expired, lifecycle, resolved, early>>

Produce(m) ==
  /\ at[m] = "calling" /\ m \notin RejectedMessages
  /\ Accept(m)
  /\ Return(m, "queued")
  /\ UNCHANGED <<expired, lifecycle, resolved, early>>

ClientRejects(m) ==
  /\ at[m] = "calling" /\ m \in RejectedMessages
  /\ Return(m, "client_rejected")
  /\ UNCHANGED <<fate, expired, lifecycle, resolved, early>>

Drain(m) ==
  /\ at[m] = "calling" /\ m \notin RejectedMessages
  /\ Full /\ ~expired[m]
  /\ at' = [at EXCEPT ![m] = "draining"]
  /\ UNCHANGED <<fate, expired, result, lifecycle, resolved, early>>

\* Mutant: the message is queued once more although it is reported dropped.
DropAfterLateProduce(m) ==
  /\ at[m] = "calling" /\ m \notin RejectedMessages
  /\ expired[m]
  /\ Full \/ Accept(m)
  /\ Full => UNCHANGED fate
  /\ Return(m, "queue_full")
  /\ UNCHANGED <<expired, lifecycle, resolved, early>>

Drop(m) ==
  /\ at[m] = "calling" /\ m \notin RejectedMessages
  /\ Full /\ expired[m]
  /\ Return(m, "queue_full")
  /\ UNCHANGED <<fate, expired, lifecycle, resolved, early>>

(* poll() serves every report that is ready when it is called.             *)
ServeReady == fate' = [m \in Messages |-> CASE fate[m] = "acked"   -> "delivered"
                                            [] fate[m] = "refused" -> "failed"
                                            [] OTHER               -> fate[m]]

\* Mutant: the loop waits for room without serving the reports.
SleepSlice(m) ==
  /\ at[m] = "draining"
  /\ at' = [at EXCEPT ![m] = "producing"]
  /\ UNCHANGED <<fate, expired, result, lifecycle, resolved, early>>

(* None.poll raises inside the handler of BufferError, beyond the reach of *)
(* the `except Exception` beside it.                                       *)
PollSlice(m) ==
  /\ at[m] = "draining"
  /\ IF Detached
     THEN Return(m, "raised") /\ UNCHANGED fate
     ELSE ServeReady /\ at' = [at EXCEPT ![m] = "producing"] /\ UNCHANGED result
  /\ UNCHANGED <<expired, lifecycle, resolved, early>>

(* Time passes: while a send waits inside poll(), or on its way to the     *)
(* next produce(), where it is all one whether the client has been read.   *)
BudgetRunsOut(m) ==
  /\ at[m] \in {"producing", "draining"} /\ ~expired[m]
  /\ expired' = [expired EXCEPT ![m] = TRUE]
  /\ UNCHANGED <<fate, at, result, lifecycle, resolved, early>>

-----------------------------------------------------------------------------
(* poll(), flush() and close()                                             *)

(* poll() and flush() of the application, with any timeout, while the      *)
(* producer is open.                                                       *)
ApplicationPolls ==
  /\ lifecycle = "open"
  /\ ServeReady
  /\ UNCHANGED <<at, expired, result, lifecycle, resolved, early>>

(* "Application shutdown must first stop worker threads from calling       *)
(* send(), then call close() once": what it does unless MayCloseEarly.     *)
BeginClose ==
  /\ lifecycle = "open"
  /\ LET quiet == \A m \in Messages : at[m] = "idle"
     IN  /\ quiet \/ MayCloseEarly
         /\ early' = ~quiet
  /\ lifecycle' = "closing"
  /\ UNCHANGED <<fate, at, expired, result, resolved>>

FlushSlice ==
  /\ lifecycle = "closing"
  /\ ServeReady
  /\ UNCHANGED <<at, expired, result, lifecycle, resolved, early>>

\* Mutant: a flush that raised (-1) is taken for nothing outstanding.
EndCloseLeniently ==
  /\ lifecycle = "closing"
  /\ \E outstanding \in {Cardinality(Outstanding), -1} : resolved' = (outstanding <= 0)
  /\ lifecycle' = "closed"
  /\ UNCHANGED <<fate, at, expired, result, early>>

(* flush() returns what is outstanding, or -1 when the client raises; the  *)
(* producer is detached in every case.                                     *)
EndClose ==
  /\ lifecycle = "closing"
  /\ \E outstanding \in {Cardinality(Outstanding), -1} : resolved' = (outstanding = 0)
  /\ lifecycle' = "closed"
  /\ UNCHANGED <<fate, at, expired, result, early>>

Background ==
  /\ BackgroundThread
  /\ UNCHANGED <<at, expired, result, lifecycle, resolved, early>>

-----------------------------------------------------------------------------

SendStep(m) ==
  \/ EnterQueueing(m) \/ ReadClient(m)
  \/ Produce(m) \/ ClientRejects(m) \/ Drain(m) \/ Drop(m) \/ PollSlice(m)

CallerGoesOn(m) == Send(m) \/ SendOnClosed(m) \/ SendStep(m)

Next ==
  \/ \E m \in Messages : CallerGoesOn(m) \/ BudgetRunsOut(m)
  \/ ApplicationPolls \/ BeginClose \/ FlushSlice \/ EndClose \/ Background

Spec == Init /\ [][Next]_vars

-----------------------------------------------------------------------------
(* Properties                                                              *)

TypeOK ==
  /\ ClientTypeOK
  /\ at \in [Messages -> {"idle", "entering", "producing", "calling", "draining"}]
  /\ expired \in [Messages -> BOOLEAN]
  /\ result \in [Messages -> SendResult]
  /\ lifecycle \in {"open", "closing", "closed"}
  /\ resolved \in BOOLEAN /\ early \in BOOLEAN

(* queued=True exactly for the messages that the local queue accepted: a   *)
(* message reported dropped is not in flight, so that a retry never makes  *)
(* a duplicate, and none is in flight unreported; also when close()        *)
(* detaches the client under the send.                                     *)
QueuedMeansAccepted == \A m \in Messages : result[m] = "queued" <=> fate[m] # "absent"

(* "Close: all queued messages resolved." is logged only when every        *)
(* message that was ever accepted has reached its outcome, and that stays  *)
(* true of the closed producer, if it was closed as documented.            *)
ResolvedMeansNothingLost == resolved /\ ~early => Detached /\ Outstanding = {}

=============================================================================
