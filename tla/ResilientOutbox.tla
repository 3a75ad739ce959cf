--------------------------- MODULE ResilientOutbox ---------------------------
(***************************************************************************)
(* The outbox as the resilient producer deploys it: relays that move its   *)
(* rows to the orders topic, and the forwarder that mirrors its dead       *)
(* letters to the DLQ topic, over one database.                            *)
(***************************************************************************)
EXTENDS OutboxRelay, DeadLetterForwarder

outboxVars == <<row, relayVars, forwarderVars>>

Start == RelayInit /\ ForwarderInit

Relaying   == RelayNext /\ UNCHANGED forwarderVars
Forwarding == ForwarderNext /\ UNCHANGED relayVars

OutboxSpec == Start /\ [][Relaying \/ Forwarding]_outboxVars

-----------------------------------------------------------------------------
Standing(e) ==
  CASE row[e].status = "absent" -> "unknown"
    [] row[e].status \in {"pending", "leased"} -> "open"
    [] row[e].status = "delivered" -> "delivered"
    [] row[e].status = "dead_letter" -> "quarantined"

Contract == INSTANCE OutboxContract WITH standing <- [e \in Events |-> Standing(e)]

\* The outbox keeps its contract: delivered only with a copy in Kafka and for
\* good, quarantined until an operator decides, and never dropped.
KeepsOutboxContract == Contract!Spec

=============================================================================
