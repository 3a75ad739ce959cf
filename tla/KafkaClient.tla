----------------------------- MODULE KafkaClient -----------------------------
(***************************************************************************)
(* The confluent_kafka Producer as the producers of this repository use    *)
(* it: an asynchronous client with a bounded local queue.                  *)
(*                                                                         *)
(*   absent --Accept--> queued --Acknowledge--> acked   --Serve--> delivered *)
(*                             --Refuse-------> refused --Serve--> failed  *)
(*                                                                         *)
(* produce() accepts a message or raises BufferError, according to the     *)
(* room in the queue.  A background thread moves messages to the broker    *)
(* and brings back an answer, in any order; a message also counts as       *)
(* refused when librdkafka gives it up for lack of an answer.  The answer  *)
(* waits in the report queue, still occupying the local queue, until some  *)
(* thread is inside poll() or flush(): there the delivery callback runs.   *)
(*                                                                         *)
(* A message is one accepted call of produce(), not a content.             *)
(***************************************************************************)
EXTENDS Integers, FiniteSets

CONSTANTS
  Messages,        (* the messages that may be offered to produce()        *)
  QueueCapacity    (* queue.buffering.max.messages                         *)

ASSUME ClientAssumption ==
  /\ IsFiniteSet(Messages)
  /\ QueueCapacity \in Nat \ {0}

VARIABLE fate      (* how far each message has come *)

Pending == {"queued", "acked", "refused"}
Fate    == Pending \cup {"absent", "delivered", "failed"}

ClientInit == fate = [m \in Messages |-> "absent"]

(* What flush() counts and what takes room in the queue.                   *)
Outstanding == {m \in Messages : fate[m] \in Pending}
Delivered   == {m \in Messages : fate[m] = "delivered"}
Failed      == {m \in Messages : fate[m] = "failed"}

Full == Cardinality(Outstanding) >= QueueCapacity

(* produce() returns: the message is in the local queue.                   *)
Accept(m) ==
  /\ fate[m] = "absent"
  /\ ~Full
  /\ fate' = [fate EXCEPT ![m] = "queued"]

Acknowledge(m) == fate[m] = "queued" /\ fate' = [fate EXCEPT ![m] = "acked"]
Refuse(m)      == fate[m] = "queued" /\ fate' = [fate EXCEPT ![m] = "refused"]

BackgroundThread == \E m \in Messages : Acknowledge(m) \/ Refuse(m)

(* poll() or flush() takes one report from the queue and calls its         *)
(* callback with error = None exactly when the broker acknowledged.        *)
Serve(m) ==
  /\ fate[m] \in {"acked", "refused"}
  /\ fate' = [fate EXCEPT ![m] = IF @ = "acked" THEN "delivered" ELSE "failed"]

ClientTypeOK == fate \in [Messages -> Fate]
=============================================================================
