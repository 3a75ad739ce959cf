---------------------------- MODULE ProbeBreaker ----------------------------
(***************************************************************************)
(* The CircuitBreaker of the outbox relay: a thread-safe breaker that      *)
(* hands out permit tickets.  A ticket is "normal" while the circuit is    *)
(* CLOSED and "probe" for the single test send of a HALF_OPEN circuit; its *)
(* holder gives it back to success, failure or cancel.                     *)
(*                                                                         *)
(* Each method holds the breaker's lock from its first line to its last,   *)
(* so each is one operator from a breaker to the breaker it leaves.  Time  *)
(* is one Boolean, cooled: open_until has passed.                          *)
(***************************************************************************)
EXTENDS Naturals

CONSTANT Threshold   (* consecutive failures that open the circuit *)

ASSUME ThresholdAssumption == Threshold \in Nat \ {0}

Tickets == {"normal", "probe"}
NoTicket == "none"

Breakers == [state: {"CLOSED", "OPEN", "HALF_OPEN"}, failures: 0 .. Threshold,
             cooled: BOOLEAN, probe: BOOLEAN]

ClosedBreaker ==
  [state |-> "CLOSED", failures |-> 0, cooled |-> FALSE, probe |-> FALSE]

-----------------------------------------------------------------------------
\* allow: a cooled circuit enters HALF_OPEN before the ticket is chosen.
Entered(b) ==
  IF b.state = "OPEN" /\ b.cooled THEN [b EXCEPT !.state = "HALF_OPEN"] ELSE b

\* Mutant: the flag of an outstanding probe is not looked at.
TicketForEveryone(b) ==
  CASE Entered(b).state = "CLOSED" -> "normal"
    [] Entered(b).state = "HALF_OPEN" -> "probe"
    [] OTHER -> NoTicket

Ticket(b) ==
  CASE Entered(b).state = "CLOSED" -> "normal"
    [] Entered(b).state = "HALF_OPEN" /\ ~b.probe -> "probe"
    [] OTHER -> NoTicket

AfterAllow(b) == [Entered(b) EXCEPT !.probe = @ \/ Ticket(b) = "probe"]

-----------------------------------------------------------------------------
\* _open: whatever probe was outstanding is forgotten.
Opened(b) == [b EXCEPT !.state = "OPEN", !.cooled = FALSE, !.probe = FALSE]

IsLiveProbe(b, ticket) == ticket = "probe" /\ b.state = "HALF_OPEN"
IsLiveNormal(b, ticket) == ticket = "normal" /\ b.state = "CLOSED"

AfterSuccess(b, ticket) ==
  IF IsLiveProbe(b, ticket) \/ IsLiveNormal(b, ticket)
  THEN [b EXCEPT !.state = "CLOSED", !.failures = 0, !.probe = FALSE]
  ELSE b

AfterFailure(b, ticket) ==
  CASE IsLiveProbe(b, ticket) -> Opened(b)
    [] IsLiveNormal(b, ticket) ->
         LET counted == [b EXCEPT !.failures = @ + 1]
         IN  IF counted.failures >= Threshold THEN Opened(counted) ELSE counted
    [] OTHER -> b

AfterCancel(b, ticket) ==
  IF IsLiveProbe(b, ticket) THEN [b EXCEPT !.probe = FALSE] ELSE b

=============================================================================
