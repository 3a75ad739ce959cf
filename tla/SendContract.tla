---------------------------- MODULE SendContract ----------------------------
(***************************************************************************)
(* What send_with_fault_tolerance promises about one message per call,     *)
(* with no breaker, no slots and no retries in sight:                      *)
(*                                                                         *)
(*   rejected    the call returns a failure and neither topic ever gets    *)
(*               a copy of the message;                                    *)
(*   confirmed   the call returns success, the target topic has a copy     *)
(*               and the dead letter topic never gets one;                 *)
(*   claimed     the call returns success although the producer it sent    *)
(*               with has returned a failure: the dead letter topic never  *)
(*               gets a copy, and the target topic may have none either;   *)
(*               it can end so only where producers return failures;       *)
(*   preserved   the call returns a failure and the dead letter topic has  *)
(*               its one copy; the target topic may have, or still get,    *)
(*               some as well;                                             *)
(*   given_up    the call returns a failure, or is interrupted, and        *)
(*               promises nothing.                                         *)
(*                                                                         *)
(* The target topic never gets more than MaxCopies copies.  A copy can     *)
(* land after the call has ended: a confirmation that times out does not   *)
(* recall the message.                                                     *)
(***************************************************************************)
EXTENDS Integers

CONSTANTS
  Calls,
  MaxCopies,         (* copies one call may put into the target topic  *)
  FailuresReturned   (* may the producers report failure by returning? *)

VARIABLES
  outcome,      (* per call, "pending" or how it ended           *)
  topicCopies,  (* per call, its message's copies in its topic   *)
  dlqCopies     (* per call, its message's copies in the DLQ     *)

vars == <<outcome, topicCopies, dlqCopies>>

Outcomes == {"rejected", "confirmed", "claimed", "preserved", "given_up"}

Init ==
  /\ outcome = [c \in Calls |-> "pending"]
  /\ topicCopies = [c \in Calls |-> 0]
  /\ dlqCopies = [c \in Calls |-> 0]

Land(c) ==
  /\ outcome[c] # "rejected"
  /\ topicCopies[c] < MaxCopies
  /\ topicCopies' = [topicCopies EXCEPT ![c] = @ + 1]
  /\ UNCHANGED <<outcome, dlqCopies>>

DeadLetter(c) ==
  /\ outcome[c] \notin {"rejected", "confirmed", "claimed"}
  /\ dlqCopies[c] = 0
  /\ dlqCopies' = [dlqCopies EXCEPT ![c] = 1]
  /\ UNCHANGED <<outcome, topicCopies>>

End(c, o) ==
  /\ outcome[c] = "pending"
  /\ o = "rejected" => topicCopies[c] = 0 /\ dlqCopies[c] = 0
  /\ o = "confirmed" => topicCopies[c] > 0 /\ dlqCopies[c] = 0
  /\ o = "claimed" => FailuresReturned /\ dlqCopies[c] = 0
  /\ o = "preserved" => dlqCopies[c] = 1
  /\ outcome' = [outcome EXCEPT ![c] = o]
  /\ UNCHANGED <<topicCopies, dlqCopies>>

Next ==
  \E c \in Calls : Land(c) \/ DeadLetter(c) \/ \E o \in Outcomes : End(c, o)

Spec == Init /\ [][Next]_vars

=============================================================================
