-------------------------- MODULE SingletonProducer --------------------------
(***************************************************************************)
(* One instance of the singleton package's FireAndForgetProducer: threads  *)
(* that call send_with_retry() on it, the health verdict that delivery     *)
(* callbacks keep, and its shutdown.                                       *)
(*                                                                         *)
(*   idle --> guard --> producing --> polling  --> done                    *)
(*             |  ^        |     \--> awaiting --/                         *)
(*   unhealthy v  |        v             |                                 *)
(*         rejected <------+             v timeout, error                  *)
(*             |  +-- backoff <------- raised                              *)
(*             v         |                                                 *)
(*            done <-----+ no attempt left                                 *)
(*                                                                         *)
(* Each attempt of a call offers a message of its own to the client.  A    *)
(* send() with no retry is a call with MaxRetries = 0, except that it      *)
(* raises where send_with_retry catches.                                   *)
(***************************************************************************)
EXTENDS Integers, FiniteSets

CONSTANTS
  Calls,            (* calls of send_with_retry, each on a thread          *)
  MaxRetries,       (* max_retries                                         *)
  QueueCapacity,    (* queue.buffering.max.messages                        *)
  Confirming,       (* calls with require_delivery_confirmation=True       *)
  RaisingCallback,  (* calls whose custom callback raises                  *)
  Persistent,       (* calls that the caller makes again when they fail    *)
  Faulty,           (* calls whose message may turn out unfit to be sent   *)
  MinCallbacks,     (* HEALTH_MIN_MESSAGE_COUNT                            *)
  MaxErrorPercent,  (* 100 * HEALTH_ERROR_RATE_THRESHOLD                   *)
  Backends,         (* the clients the factory may find installed          *)
  MayShutDown       (* bound: does the application ever shut down?         *)

AttemptNumbers == 1 .. MaxRetries + 1
Attempts       == Calls \X AttemptNumbers

ASSUME SingletonAssumption ==
  /\ IsFiniteSet(Calls) /\ MaxRetries \in Nat
  /\ QueueCapacity \in Nat \ {0}
  /\ Confirming \subseteq Calls /\ RaisingCallback \subseteq Calls
  /\ Persistent \subseteq Calls /\ Faulty \subseteq Calls
  /\ MinCallbacks \in Nat \ {0} /\ MaxErrorPercent \in Nat
  /\ Backends \subseteq {"confluent_kafka", "kafka_python"} /\ Backends # {}
  /\ MayShutDown \in BOOLEAN

VARIABLES
  fate,          (* of each message, see KafkaClient                       *)
  at,            (* where each call is                                     *)
  attempt,       (* the attempt it is making                               *)
  expired,       (* has the confirmation deadline of the attempt passed?   *)
  verdict,       (* RetryResult.success, or "none"                         *)
  healthy,       (* _is_healthy                                            *)
  messagesSent,  (* _messages_sent                                         *)
  errorCount,    (* _error_count                                           *)
  flushing,      (* is the application inside flush()?                     *)
  producer,      (* _producer: attached, being flushed, or None            *)
  backend        (* what _producer is, for good                            *)

INSTANCE KafkaClient WITH Messages <- Attempts

health == <<healthy, messagesSent, errorCount>>
vars   == <<fate, at, attempt, expired, verdict, health, flushing, producer, backend>>

Place == {"idle", "guard", "producing", "polling", "awaiting",
          "rejected", "raised", "backoff", "done"}

RetryResult == {"none", "success", "failure"}

(* confluent_kafka if it is installed, otherwise the kafka-python adapter. *)
DefaultProducerFactory == backend \in Backends

Init ==
  /\ ClientInit
  /\ at = [c \in Calls |-> "idle"]
  /\ attempt = [c \in Calls |-> 1]
  /\ expired = [c \in Calls |-> FALSE]
  /\ verdict = [c \in Calls |-> "none"]
  /\ healthy = TRUE /\ messagesSent = 0 /\ errorCount = 0
  /\ flushing = FALSE
  /\ producer = "attached"
  /\ DefaultProducerFactory

Message(c)      == <<c, attempt[c]>>
Goto(c, place)  == at' = [at EXCEPT ![c] = place]
Detached        == producer = "None"

-----------------------------------------------------------------------------
(* send()                                                                  *)

Begin(c) ==
  /\ \/ at[c] = "idle"
     \/ /\ at[c] = "done" /\ verdict[c] = "failure" /\ c \in Persistent
        /\ \A n \in AttemptNumbers : fate[<<c, n>>] = "absent"
  /\ Goto(c, "guard")
  /\ attempt' = [attempt EXCEPT ![c] = 1]
  /\ expired' = [expired EXCEPT ![c] = FALSE]
  /\ verdict' = [verdict EXCEPT ![c] = "none"]
  /\ UNCHANGED <<backend, fate, health, flushing, producer>>

HealthGuard(c) ==
  /\ at[c] = "guard"
  /\ Goto(c, IF healthy THEN "producing" ELSE "rejected")
  /\ UNCHANGED <<backend, fate, attempt, expired, verdict, health, flushing, producer>>

Produce(c) ==
  /\ at[c] = "producing" /\ ~Detached
  /\ Accept(Message(c))
  /\ Goto(c, IF c \in Confirming THEN "awaiting" ELSE "polling")
  /\ UNCHANGED <<backend, attempt, expired, verdict, health, flushing, producer>>

(* What produce() raises becomes success=False: BufferError of a full      *)
(* queue, None.produce, or a faulty message that the client will not have. *)
(* Nothing is polled on this path.                                         *)
ProduceFails(c) ==
  /\ at[c] = "producing"
  /\ Full \/ Detached \/ c \in Faulty
  /\ Goto(c, "rejected")
  /\ UNCHANGED <<backend, fate, attempt, expired, verdict, health, flushing, producer>>

(* Before produce(): data that is None or no JSON raises ValueError, which *)
(* ends the call; a key or header that cannot be encoded may raise others. *)
Unsendable(c) ==
  /\ at[c] = "producing" /\ c \in Faulty
  /\ \/ Goto(c, "done") /\ verdict' = [verdict EXCEPT ![c] = "failure"]
     \/ Goto(c, "raised") /\ UNCHANGED verdict
  /\ UNCHANGED <<backend, fate, attempt, expired, health, flushing, producer>>

Succeed(c) ==
  /\ Goto(c, "done")
  /\ verdict' = [verdict EXCEPT ![c] = "success"]

\* Mutant: success is what poll(0) has served, not what was queued.
PollReturnsUnsure(c) ==
  /\ at[c] = "polling"
  /\ IF fate[Message(c)] # "delivered" THEN Goto(c, "raised") /\ UNCHANGED verdict ELSE Succeed(c)
  /\ UNCHANGED <<backend, fate, attempt, expired, health, flushing, producer>>

(* poll(0) of fire-and-forget mode; None.poll raises out of send().        *)
PollReturns(c) ==
  /\ at[c] = "polling"
  /\ IF Detached THEN Goto(c, "raised") /\ UNCHANGED verdict ELSE Succeed(c)
  /\ UNCHANGED <<backend, fate, attempt, expired, health, flushing, producer>>

-----------------------------------------------------------------------------
(* _await_delivery_confirmation()                                          *)

(* The callback sets delivery_event in a `finally`, after it has run.      *)
Confirmed(c) == fate[Message(c)] \in {"delivered", "failed"}

\* Mutant: the delivery error is not looked at once the event is set.
ConfirmationArrivesUnread(c) ==
  /\ at[c] = "awaiting" /\ Confirmed(c)
  /\ Succeed(c)
  /\ UNCHANGED <<backend, fate, attempt, expired, health, flushing, producer>>

ConfirmationArrives(c) ==
  /\ at[c] = "awaiting" /\ Confirmed(c)
  /\ IF fate[Message(c)] = "delivered" /\ c \notin RaisingCallback
     THEN Succeed(c)
     ELSE Goto(c, "raised") /\ UNCHANGED verdict
  /\ UNCHANGED <<backend, fate, attempt, expired, health, flushing, producer>>

ConfirmationFails(c) ==
  /\ at[c] = "awaiting" /\ ~Confirmed(c)
  /\ expired[c] \/ Detached
  /\ Goto(c, "raised")
  /\ UNCHANGED <<backend, fate, attempt, expired, verdict, health, flushing, producer>>

DeadlinePasses(c) ==
  /\ at[c] = "awaiting" /\ ~expired[c]
  /\ expired' = [expired EXCEPT ![c] = TRUE]
  /\ UNCHANGED <<backend, fate, at, attempt, verdict, health, flushing, producer>>

-----------------------------------------------------------------------------
(* send_with_retry() after a failed attempt                                *)

(* success=False: an unhealthy producer ends the call at once.             *)
AfterRejection(c) ==
  /\ at[c] = "rejected"
  /\ IF healthy
     THEN Goto(c, "backoff") /\ UNCHANGED verdict
     ELSE Goto(c, "done") /\ verdict' = [verdict EXCEPT ![c] = "failure"]
  /\ UNCHANGED <<backend, fate, attempt, expired, health, flushing, producer>>

(* `except Exception`: TimeoutError and RuntimeError of confirmation mode, *)
(* AttributeError of a detached producer, are all retried.                 *)
Backoff(c) ==
  /\ at[c] \in {"backoff", "raised"}
  /\ IF attempt[c] <= MaxRetries
     THEN /\ Goto(c, "guard")
          /\ attempt' = [attempt EXCEPT ![c] = @ + 1]
          /\ expired' = [expired EXCEPT ![c] = FALSE]
          /\ UNCHANGED verdict
     ELSE /\ Goto(c, "done")
          /\ verdict' = [verdict EXCEPT ![c] = "failure"]
          /\ UNCHANGED <<backend, attempt, expired>>
  /\ UNCHANGED <<backend, fate, health, flushing, producer>>

-----------------------------------------------------------------------------
(* _default_delivery_callback()                                            *)

Unacceptable(errors, sent) ==
  /\ errors + sent >= MinCallbacks
  /\ 100 * errors > MaxErrorPercent * (errors + sent)

\* Mutant: the verdict is that of the rate, so later successes lift it.
RecordDeliveryRecovers(m) ==
  /\ messagesSent' = messagesSent + IF fate[m] = "acked" THEN 1 ELSE 0
  /\ errorCount'   = errorCount + IF fate[m] = "refused" THEN 1 ELSE 0
  /\ healthy' = (~Detached /\ ~Unacceptable(errorCount', messagesSent'))

RecordDelivery(m) ==
  /\ messagesSent' = messagesSent + IF fate[m] = "acked" THEN 1 ELSE 0
  /\ errorCount'   = errorCount + IF fate[m] = "refused" THEN 1 ELSE 0
  /\ healthy' = (healthy /\ ~Unacceptable(errorCount', messagesSent'))

SomeoneInsideClient ==
  \/ flushing
  \/ producer = "flushing"
  \/ ~Detached /\ \E c \in Calls : at[c] \in {"polling", "awaiting"}

(* KafkaPythonProducerAdapter: the future's callbacks run on the sender    *)
(* thread of kafka-python at any time, and poll() is a sleep.              *)
ServesItself == backend = "kafka_python"

ServeReport(m) ==
  /\ SomeoneInsideClient \/ ServesItself
  /\ Serve(m)
  /\ RecordDelivery(m)
  /\ UNCHANGED <<backend, at, attempt, expired, verdict, flushing, producer>>

-----------------------------------------------------------------------------
(* flush() and _shutdown()                                                 *)

BeginFlush ==
  /\ producer = "attached" /\ ~flushing
  /\ flushing' = TRUE
  /\ UNCHANGED <<backend, fate, at, attempt, expired, verdict, health, producer>>

EndFlush ==
  /\ flushing
  /\ flushing' = FALSE
  /\ UNCHANGED <<backend, fate, at, attempt, expired, verdict, health, producer>>

BeginShutdown ==
  /\ MayShutDown
  /\ producer = "attached"
  /\ producer' = "flushing"
  /\ UNCHANGED <<backend, fate, at, attempt, expired, verdict, health, flushing>>

(* _producer = None, _is_healthy = False, without the health lock.         *)
EndShutdown ==
  /\ producer = "flushing"
  /\ producer' = "None"
  /\ healthy' = FALSE
  /\ UNCHANGED <<backend, fate, at, attempt, expired, verdict, messagesSent, errorCount, flushing>>

Background ==
  /\ BackgroundThread
  /\ UNCHANGED <<backend, at, attempt, expired, verdict, health, flushing, producer>>

-----------------------------------------------------------------------------

CallStep(c) ==
  \/ HealthGuard(c) \/ Unsendable(c) \/ Produce(c) \/ ProduceFails(c) \/ PollReturns(c)
  \/ ConfirmationArrives(c) \/ ConfirmationFails(c)
  \/ AfterRejection(c) \/ Backoff(c)

Next ==
  \/ \E c \in Calls : Begin(c) \/ CallStep(c) \/ DeadlinePasses(c)
  \/ \E m \in Attempts : ServeReport(m)
  \/ BeginFlush \/ EndFlush \/ BeginShutdown \/ EndShutdown \/ Background

Spec == Init /\ [][Next]_vars

(* Begun calls go on, time advances.                                       *)
FairSpec == Spec /\ \A c \in Calls : WF_vars(CallStep(c)) /\ WF_vars(DeadlinePasses(c))

(* Moreover the broker answers every message, a poll with reports to serve *)
(* serves them, and persistent callers try again.  flush() is for the end. *)
BusySpec ==
  /\ FairSpec
  /\ WF_vars(Background)
  /\ \A m \in Attempts : SF_vars(ServeReport(m))
  /\ \A c \in Persistent : WF_vars(Begin(c))

-----------------------------------------------------------------------------
(* Properties                                                              *)

Copies(c) == {n \in AttemptNumbers : fate[<<c, n>>] # "absent"}

TypeOK ==
  /\ ClientTypeOK
  /\ at \in [Calls -> Place]
  /\ attempt \in [Calls -> AttemptNumbers]
  /\ expired \in [Calls -> BOOLEAN]
  /\ verdict \in [Calls -> RetryResult]
  /\ healthy \in BOOLEAN /\ flushing \in BOOLEAN
  /\ messagesSent \in Nat /\ errorCount \in Nat
  /\ producer \in {"attached", "flushing", "None"}
  /\ backend \in Backends

(* A successful result means what its mode promises: the message of its    *)
(* last attempt was queued, and in confirmation mode the broker has it.    *)
SuccessIsEarned ==
  \A c \in Calls : verdict[c] = "success" =>
    /\ attempt[c] \in Copies(c)
    /\ c \in Confirming => fate[Message(c)] = "delivered"

(* What is retried in fire-and-forget mode is a failed local enqueue, so   *)
(* the retries never queue a message twice, and, while the producer is not *)
(* shut down, a failed call has queued nothing.                            *)
PlainRetryNeverDuplicates ==
  \A c \in Calls \ Confirming :
    /\ Cardinality(Copies(c)) <= 1
    /\ verdict[c] = "failure" /\ producer # "None" => Copies(c) = {}

(* An unhealthy producer, and a call that is not past the health guard: a  *)
(* message of it that is not queued.                                       *)
Stopped(m) == ~healthy /\ at[m[1]] # "producing" /\ fate[m] = "absent"

(* "Once unhealthy, the producer stays unhealthy until reset_instance()"   *)
(* (_default_delivery_callback): from the callback, or the shutdown, that  *)
(* lets the verdict fall, no later result of any message lifts it again,   *)
(* and no call, retry or later poll of a call queues another message: only *)
(* the calls that had read the verdict before finish the attempt at hand.  *)
UnhealthySendsNoMore == [][\A m \in Attempts : Stopped(m) => Stopped(m)']_vars

(* A full producer buffer is what send_with_retry is for: with callers     *)
(* that keep trying and a broker that answers everything, a full queue     *)
(* does not stay full.                                                     *)
FullQueueClears == Full ~> ~Full

=============================================================================
