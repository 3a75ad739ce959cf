---------------------------- MODULE OutboxRelay -----------------------------
(***************************************************************************)
(* ResilientOutboxRelay: workers that move rows of the outbox to Kafka.    *)
(* Each relay has a producer with a bounded local queue and a breaker of   *)
(* its own; the database is shared.  dispatch_once is cut where another    *)
(* relay, the broker or the clock can come between: at each transaction    *)
(* and each produce.                                                       *)
(*                                                                         *)
(* A relay may crash at any step, or close and be replaced: the new        *)
(* process has a fresh breaker and never hears of the reports of the old   *)
(* one.  Database errors are left out: every transaction commits.          *)
(***************************************************************************)
EXTENDS SQLiteOutbox, ProbeBreaker, FiniteSets

CONSTANTS
  Relays,          (* worker processes                             *)
  NoLease,         (* the relay holds no record                    *)
  QueueCapacity,   (* queue.buffering.max.messages                 *)
  MaxRestarts      (* bound on crashes and closes, all relays      *)

\* An iteration's record, with the ticket allow() gave for it.
Held == [lease: Leases, ticket: Tickets]

ASSUME RelayAssumption ==
  /\ IsFiniteSet(Relays)
  /\ NoLease \notin Held
  /\ QueueCapacity \in Nat
  /\ MaxRestarts \in Nat

VARIABLES
  pc,          (* where each relay is in dispatch_once                      *)
  held,        (* the record about to be produced, and its breaker ticket   *)
  breaker,     (* self.breaker                                              *)
  flights,     (* messages accepted by a producer, not yet reported         *)
  restarts,
  (* kept for observation *)
  persisted,   (* events with a copy in the orders topic                    *)
  sends        (* accepted sends of the event under leases of its round     *)

relayVars == <<pc, held, breaker, flights, restarts, persisted, sends>>

Steps == {"idle", "loop", "claimed", "closed"}

\* A message in a producer's queue, with what its callback's closure binds.
Flights == [relay: Relays, lease: Leases, ticket: Tickets,
            fate: {"sent", "acked", "failed"}]

RelayTypeOK ==
  /\ row \in [Events -> Rows]
  /\ pc \in [Relays -> Steps]
  /\ held \in [Relays -> Held \cup {NoLease}]
  /\ breaker \in [Relays -> Breakers]
  /\ flights \subseteq Flights
  /\ restarts \in 0 .. MaxRestarts
  /\ persisted \subseteq Events
  /\ sends \in [Events -> Nat]

RelayInit ==
  /\ OutboxInit
  /\ pc = [r \in Relays |-> "idle"]
  /\ held = [r \in Relays |-> NoLease]
  /\ breaker = [r \in Relays |-> ClosedBreaker]
  /\ flights = {}
  /\ restarts = 0
  /\ persisted = {}
  /\ sends = [e \in Events |-> 0]

Goto(r, step) == pc' = [pc EXCEPT ![r] = step]
SetBreaker(r, b) == breaker' = [breaker EXCEPT ![r] = b]

QueueOf(r) == {f \in flights : f.relay = r}

UsedTokens ==
  {row[e].token : e \in Events} \cup {f.lease.token : f \in flights}
    \cup {held[r].lease.token : r \in {x \in Relays : held[x] # NoLease}}

\* uuid4: a token nobody remembers, and which one makes no difference.
FreshToken == CHOOSE t \in Tokens : t \notin UsedTokens

-----------------------------------------------------------------------------
(***************************************************************************)
(* dispatch_once                                                           *)
(***************************************************************************)
Sweep(r) ==
  /\ pc[r] = "idle"
  /\ QuarantineExpired
  /\ Goto(r, "loop")
  /\ UNCHANGED <<held, breaker, flights, restarts, persisted, sends>>

\* The circuit is OPEN, or its test send is out.
Refused(r) ==
  /\ pc[r] = "loop" /\ Ticket(breaker[r]) = NoTicket
  /\ SetBreaker(r, AfterAllow(breaker[r]))
  /\ Goto(r, "idle")
  /\ UNCHANGED <<row, held, flights, restarts, persisted, sends>>

\* allow() concerns this relay alone, so it is one step with claim_due.
Admits(r) == pc[r] = "loop" /\ Ticket(breaker[r]) # NoTicket

Claim(r) ==
  /\ Admits(r)
  /\ SetBreaker(r, AfterAllow(breaker[r]))
  /\ Tokens \ UsedTokens # {}
  /\ \E e \in Events :
       /\ ClaimDue(e, FreshToken)
       /\ held' = [held EXCEPT ![r] = [lease |-> ClaimedLease(e),
                                       ticket |-> Ticket(breaker[r])]]
  /\ Goto(r, "claimed")
  /\ UNCHANGED <<flights, restarts, persisted, sends>>

NothingDue(r) ==
  /\ Admits(r)
  /\ ~\E e \in Events : Claimable(e)
  /\ SetBreaker(r, AfterCancel(AfterAllow(breaker[r]), Ticket(breaker[r])))
  /\ Goto(r, "idle")
  /\ UNCHANGED <<row, held, flights, restarts, persisted, sends>>

DropRecord(r) == held' = [held EXCEPT ![r] = NoLease]

\* A send counts in the round its lease belongs to.
CountSend(l) ==
  sends' = IF l.round = row[l.event].round
           THEN [sends EXCEPT ![l.event] = @ + 1] ELSE sends

\* Accepted; the loop ends here when these were max_events.
Produce(r) ==
  /\ pc[r] = "claimed" /\ Cardinality(QueueOf(r)) < QueueCapacity
  /\ flights' = flights \cup {[relay |-> r, lease |-> held[r].lease,
                               ticket |-> held[r].ticket, fate |-> "sent"]}
  /\ CountSend(held[r].lease)
  /\ DropRecord(r)
  /\ Goto(r, "loop") \/ Goto(r, "idle")
  /\ UNCHANGED <<row, breaker, restarts, persisted>>

\* The loop ends and the ticket is given back: nothing was sent.
GiveUp(r) ==
  /\ SetBreaker(r, AfterCancel(breaker[r], held[r].ticket))
  /\ DropRecord(r)
  /\ Goto(r, "idle")
  /\ UNCHANGED <<flights, restarts, persisted, sends>>

\* BufferError.
QueueFull(r) ==
  /\ pc[r] = "claimed" /\ Cardinality(QueueOf(r)) >= QueueCapacity
  /\ ReleaseUnsent(held[r].lease)
  /\ GiveUp(r)

\* Any other exception of produce: quarantined at once.
ProduceRaises(r) ==
  /\ pc[r] = "claimed"
  /\ MarkFailure(held[r].lease, FALSE)
  /\ GiveUp(r)

-----------------------------------------------------------------------------
(***************************************************************************)
(* poll(0) at the end of dispatch_once, service_events, and close's flush  *)
(* serve reports between the dispatches of a relay.  _delivery_callback is *)
(* one transaction and then the breaker, which no other thread reads.      *)
(***************************************************************************)
ServesReports(r) == pc[r] \in {"idle", "closed"}

\* mark_delivered: a stale acknowledgement changes neither row nor breaker.
Acked(f) ==
  /\ f.fate = "acked" /\ ServesReports(f.relay)
  /\ MarkDelivered(f.lease)
  /\ SetBreaker(f.relay, IF Holds(f.lease)
                         THEN AfterSuccess(breaker[f.relay], f.ticket)
                         ELSE breaker[f.relay])
  /\ flights' = flights \ {f}
  /\ UNCHANGED <<pc, held, restarts, persisted, sends>>

\* mark_failure: is_retryable is the application's to decide.
Failed(f, retryable) ==
  /\ f.fate = "failed" /\ ServesReports(f.relay)
  /\ MarkFailure(f.lease, retryable)
  /\ SetBreaker(f.relay,
       CASE ~Holds(f.lease) -> breaker[f.relay]
         [] Holds(f.lease) /\ retryable -> AfterFailure(breaker[f.relay], f.ticket)
         [] OTHER -> AfterCancel(breaker[f.relay], f.ticket))
  /\ flights' = flights \ {f}
  /\ UNCHANGED <<pc, held, restarts, persisted, sends>>

-----------------------------------------------------------------------------
(***************************************************************************)
(* Closing, crashing, and the process that takes over.                     *)
(***************************************************************************)
Close(r) ==
  /\ pc[r] = "idle" /\ restarts < MaxRestarts
  /\ restarts' = restarts + 1
  /\ Goto(r, "closed")
  /\ UNCHANGED <<row, held, breaker, flights, persisted, sends>>

Undecided(r) == {f.lease.event : f \in {g \in QueueOf(r) : g.fate = "sent"}}

\* Any of the messages whose fate is open may have reached the broker.
FreshProcess(r) ==
  /\ Goto(r, "idle")
  /\ DropRecord(r)
  /\ SetBreaker(r, ClosedBreaker)
  /\ flights' = flights \ QueueOf(r)
  /\ \E landed \in SUBSET Undecided(r) :
       persisted' = persisted \cup landed
  /\ UNCHANGED <<row, sends>>

Crash(r) ==
  /\ pc[r] # "closed" /\ restarts < MaxRestarts
  /\ restarts' = restarts + 1
  /\ FreshProcess(r)

Replace(r) ==
  /\ pc[r] = "closed"
  /\ FreshProcess(r)
  /\ UNCHANGED restarts

-----------------------------------------------------------------------------
(***************************************************************************)
(* The environment: the application, the clock, the operator, the broker.  *)
(***************************************************************************)
OrderAccepted(e) ==
  /\ CreateOrder(e)
  /\ UNCHANGED relayVars

ClockTicks(e) ==
  /\ DeadlinePasses(e)
  /\ UNCHANGED relayVars

CoolDown(r) ==
  /\ breaker[r].state = "OPEN" /\ ~breaker[r].cooled
  /\ SetBreaker(r, [breaker[r] EXCEPT !.cooled = TRUE])
  /\ UNCHANGED <<row, pc, held, flights, restarts, persisted, sends>>

OperatorReplays(e) ==
  /\ RequeueDeadLetter(e)
  /\ sends' = [sends EXCEPT ![e] = 0]
  /\ UNCHANGED <<pc, held, breaker, flights, restarts, persisted>>

\* acks=all: acknowledged means stored; a failed send may be stored as well.
BrokerDecides(f, fate) ==
  /\ f.fate = "sent"
  /\ flights' = (flights \ {f}) \cup {[f EXCEPT !.fate = fate]}
  /\ \/ persisted' = persisted \cup {f.lease.event}
     \/ fate = "failed" /\ persisted' = persisted
  /\ UNCHANGED <<row, pc, held, breaker, restarts, sends>>

-----------------------------------------------------------------------------
RelayStep(r) ==
  \/ Sweep(r)
  \/ Refused(r) \/ Claim(r) \/ NothingDue(r)
  \/ Produce(r) \/ QueueFull(r) \/ ProduceRaises(r)

Serve(f) == Acked(f) \/ \E retryable \in BOOLEAN : Failed(f, retryable)

Decide(f) == \E fate \in {"acked", "failed"} : BrokerDecides(f, fate)

WorkerActions(r) ==
  \/ RelayStep(r) \/ CoolDown(r)
  \/ Close(r) \/ Crash(r) \/ Replace(r)
  \/ \E f \in QueueOf(r) : Serve(f) \/ Decide(f)

EventActions(e) == OrderAccepted(e) \/ ClockTicks(e) \/ OperatorReplays(e)

RelayNext ==
  \/ \E r \in Relays : WorkerActions(r)
  \/ \E e \in Events : EventActions(e)

RelaySpec == RelayInit /\ [][RelayNext]_<<row, relayVars>>

-----------------------------------------------------------------------------
(***************************************************************************)
(* Safety.                                                                 *)
(***************************************************************************)
HoldersOf(t) ==
  {r \in Relays : held[r] # NoLease /\ held[r].lease.token = t}
    \cup {f \in flights : f.lease.token = t}

\* A leased row has at most one party that can still decide it: the relay
\* about to produce its record, or the one message whose callback carries
\* its token.  The WHERE clauses on lease_token guarantee this across
\* expiries, reclaims, crashes and late reports.
OneLease ==
  \A e \in Events :
    row[e].status = "leased" =>
      \A x, y \in HoldersOf(row[e].token) : x = y

\* The attempts column never claims fewer sends than were made in this
\* round: release_unsent takes back only an attempt of its own that was
\* refused.
AttemptsCoverSends == \A e \in Events : sends[e] <= row[e].attempts

\* A HALF_OPEN circuit has at most one test send out: the ticket of the
\* loop's iteration, or that of one unreported message (a ticket of an
\* earlier HALF_OPEN period counts as much as one of this period).
OutstandingProbes(r) ==
  {f \in QueueOf(r) : f.ticket = "probe"}
    \cup {x \in {r} : held[x] # NoLease /\ held[x].ticket = "probe"}

OneProbe ==
  \A r \in Relays : breaker[r].state = "HALF_OPEN" =>
    \A x, y \in OutstandingProbes(r) : x = y

\* CircuitBreaker's docstring: "Pass that ticket to success(), failure(), or
\* cancel()".  If every ticket is passed on, a HALF_OPEN circuit that says a
\* probe is in flight has one.
ProbeInFlightIsReal ==
  \A r \in Relays :
    breaker[r].state = "HALF_OPEN" /\ breaker[r].probe => OutstandingProbes(r) # {}

\* The relay's circuit waits for the answer to a probe nobody holds: allow()
\* refuses every send from here on.
LostProbe(r) ==
  /\ breaker[r].state = "HALF_OPEN" /\ breaker[r].probe
  /\ OutstandingProbes(r) = {}

\* While its lease runs, a row is decided by that lease's own holder and by
\* nobody else: not by another relay's sweep or claim, nor by a late report
\* of an earlier lease.
LeaseIsRespected ==
  [][\A e \in Events, t \in Tokens :
       row[e].status = "leased" /\ ~row[e].ripe /\ row[e].token = t
         /\ row'[e].status # "leased"
           => \E x \in HoldersOf(t) : x \notin HoldersOf(t)']_<<row, relayVars>>

=============================================================================
