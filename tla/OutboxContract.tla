--------------------------- MODULE OutboxContract ---------------------------
(***************************************************************************)
(* What the outbox promises the application about an event it accepted.    *)
(* It stays open until it is settled; it is called delivered only when a   *)
(* copy of it is in Kafka, and then for good; it leaves quarantine by an   *)
(* operator's decision only.  Nothing is ever dropped.                     *)
(***************************************************************************)
CONSTANT Events

VARIABLES
  standing,    (* of each event: "unknown", "open", "delivered" or "quarantined" *)
  persisted    (* events with a copy in Kafka                                    *)

vars == <<standing, persisted>>

Init ==
  /\ standing = [e \in Events |-> "unknown"]
  /\ persisted = {}

Move(e, from, to) ==
  /\ standing[e] = from
  /\ standing' = [standing EXCEPT ![e] = to]

Accept(e) == Move(e, "unknown", "open") /\ UNCHANGED persisted

\* A copy may reach Kafka at any time, late ones of a settled event included.
Land(S) == persisted' = persisted \cup S /\ UNCHANGED standing

Deliver(e) == e \in persisted /\ Move(e, "open", "delivered") /\ UNCHANGED persisted

\* A sweep may quarantine several events at once.
Quarantine(S) ==
  /\ \A e \in S : standing[e] = "open"
  /\ standing' = [e \in Events |-> IF e \in S THEN "quarantined" ELSE standing[e]]
  /\ UNCHANGED persisted

Replay(e) == Move(e, "quarantined", "open") /\ UNCHANGED persisted

Next ==
  \/ \E e \in Events : Accept(e) \/ Deliver(e) \/ Replay(e)
  \/ \E S \in SUBSET Events : Land(S) \/ Quarantine(S)

Spec == Init /\ [][Next]_vars

=============================================================================
