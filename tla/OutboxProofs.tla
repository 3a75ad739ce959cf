---------------------------- MODULE OutboxProofs -----------------------------
(***************************************************************************)
(* Theorems about ResilientOutbox, for every set of events, any number of  *)
(* relays, every queue, breaker threshold and number of attempts, and any  *)
(* number of crashes and replays.                                          *)
(*                                                                         *)
(* The invariant is a conjunction of parts, each of which is shown to be   *)
(* preserved by itself, given the others before the step.                  *)
(***************************************************************************)
EXTENDS ResilientOutbox, FiniteSetTheorems, TLAPS

Copies == [event: Events, round: 0 .. MaxRequeues, fate: {"sent", "acked", "failed"}]

TypeInv ==
  /\ row \in [Events -> Rows]
  /\ pc \in [Relays -> Steps]
  /\ held \in [Relays -> Held \cup {NoLease}]
  /\ flights \subseteq Flights
  /\ sends \in [Events -> Nat]
  /\ batch \subseteq [event: Events, round: 0 .. MaxRequeues]
  /\ copy \in Copies \cup {NoCopy}

\* A leased row has a token, and its claim has been counted.
LeasedInv ==
  \A e \in Events :
    row[e].status = "leased" => row[e].token \in Tokens /\ row[e].attempts >= 1

\* A relay has a record in hand exactly while it is about to produce it.
HeldInv == \A r \in Relays : held[r] # NoLease <=> pc[r] = "claimed"

\* A token is in one pair of hands, whether or not its lease still runs.
UniqueInv ==
  /\ \A r, s \in Relays :
       held[r] # NoLease /\ held[s] # NoLease /\ held[r].lease.token = held[s].lease.token
         => r = s
  /\ \A f, g \in flights : f.lease.token = g.lease.token => f = g
  /\ \A r \in Relays, f \in flights :
       held[r] # NoLease => held[r].lease.token # f.lease.token

\* A record in hand is of its row's round or of an earlier one, and of this
\* round if its lease is the row's.
RoundInv ==
  \A r \in Relays : held[r] # NoLease =>
    LET l == held[r].lease
    IN  /\ l.round <= row[l.event].round
        /\ Holds(l) => l.round = row[l.event].round

\* The relays about to make a send of the event in its present round.
Holding(e) ==
  {r \in Relays : /\ held[r] # NoLease
                  /\ held[r].lease.event = e
                  /\ held[r].lease.round = row[e].round}

\* The attempts cover the sends that were made and those about to be made.
SendsInv ==
  \A e \in Events : sends[e] + Cardinality(Holding(e)) <= row[e].attempts

\* What the broker has acknowledged is in the topic, and so is the DLQ copy.
LandedInv ==
  /\ \A f \in flights : f.fate = "acked" => f.lease.event \in persisted
  /\ copy # NoCopy /\ copy.fate = "acked" => <<copy.event, copy.round>> \in mirrored

CoreInv == TypeInv /\ LeasedInv /\ HeldInv /\ UniqueInv /\ RoundInv /\ SendsInv

OutboxInv == CoreInv /\ LandedInv /\ PublishedMeansMirrored

-----------------------------------------------------------------------------
(* The rows                                                                *)

\* The row that a lease's holder leaves behind: no longer leased, in its
\* round, with its attempts but for less of them.
EndedRow(e, less) ==
  /\ row'[e].status \in {"delivered", "pending", "dead_letter"}
  /\ row'[e].attempts = row[e].attempts - less
  /\ row'[e].round = row[e].round
  /\ row'[e].dlqPublished = row[e].dlqPublished

LeaseEnds(l, less) ==
  /\ row' \in [Events -> Rows]
  /\ Holds(l) => EndedRow(l.event, less)
  /\ \A e \in Events : (e # l.event \/ ~Holds(l)) => row'[e] = row[e]

(* mark_delivered, mark_failure and release_unsent change the row whose    *)
(* lease they hold, and nothing else.                                      *)
LEMMA LeaseEndings ==
  ASSUME TypeInv, LeasedInv, NEW l \in Leases
  PROVE  /\ MarkDelivered(l) => LeaseEnds(l, 0)
         /\ \A retryable \in BOOLEAN : MarkFailure(l, retryable) => LeaseEnds(l, 0)
         /\ ReleaseUnsent(l) => LeaseEnds(l, 1)
<1>1. row[l.event] \in Rows /\ l.event \in Events
  BY DEF TypeInv, Leases
<1>2. ASSUME NEW ended, NEW less, EndLease(l, ended),
             Holds(l) => /\ ended \in Rows
                         /\ ended.status \in {"delivered", "pending", "dead_letter"}
                         /\ ended.attempts = row[l.event].attempts - less
                         /\ ended.round = row[l.event].round
                         /\ ended.dlqPublished = row[l.event].dlqPublished
      PROVE  LeaseEnds(l, less)
  BY <1>1, <1>2 DEF EndLease, TypeInv, LeaseEnds, EndedRow
<1>3. ASSUME NEW status \in {"delivered", "pending", "dead_letter"},
             EndLease(l, Unleased(row[l.event], status))
      PROVE  LeaseEnds(l, 0)
  <2> DEFINE ended == Unleased(row[l.event], status)
  <2>1. /\ ended \in Rows /\ ended.status = status
        /\ ended.attempts = row[l.event].attempts
        /\ ended.round = row[l.event].round
        /\ ended.dlqPublished = row[l.event].dlqPublished
    BY <1>1 DEF Unleased, Rows, Statuses
  <2>2. ended.attempts = row[l.event].attempts - 0
    BY <1>1, <2>1, OutboxAssumption DEF Rows
  <2> HIDE DEF ended
  <2>3. EndLease(l, ended)
    BY <1>3 DEF ended
  <2> QED
    BY <1>2, <2>1, <2>2, <2>3
<1>4. ASSUME NEW retryable \in BOOLEAN, MarkFailure(l, retryable)
      PROVE  LeaseEnds(l, 0)
  BY <1>3, <1>4 DEF MarkFailure, AfterFailedSend
<1>5. ASSUME ReleaseUnsent(l) PROVE LeaseEnds(l, 1)
  <2> DEFINE ended == [Unleased(row[l.event], "pending") EXCEPT !.attempts = @ - 1]
  <2>1. ASSUME Holds(l)
        PROVE  /\ ended \in Rows /\ ended.status = "pending"
               /\ ended.attempts = row[l.event].attempts - 1
               /\ ended.round = row[l.event].round
               /\ ended.dlqPublished = row[l.event].dlqPublished
    <3>1. row[l.event].attempts - 1 \in 0 .. AttemptBound
      BY <1>1, <2>1, OutboxAssumption DEF LeasedInv, Holds, Rows
    <3> QED
      BY <1>1, <3>1 DEF Unleased, Rows, Statuses
  <2> HIDE DEF ended
  <2>2. EndLease(l, ended)
    BY <1>5 DEF ReleaseUnsent, ended
  <2> QED
    BY <1>2, <2>1, <2>2
<1> QED
  BY <1>3, <1>4, <1>5 DEF MarkDelivered

(* What the other updates do to a row.                                     *)
LEMMA ClaimedRow ==
  ASSUME TypeInv, NEW e \in Events, NEW t \in Tokens, ClaimDue(e, t)
  PROVE  /\ row' \in [Events -> Rows]
         /\ \A x \in Events \ {e} : row'[x] = row[x]
         /\ row'[e].status = "leased" /\ row'[e].token = t
         /\ row'[e].attempts = row[e].attempts + 1
         /\ row'[e].round = row[e].round /\ row'[e].dlqPublished = row[e].dlqPublished
         /\ ClaimedLease(e) \in Leases
         /\ ClaimedLease(e) = [event |-> e, token |-> t, attempts |-> row[e].attempts + 1,
                               round |-> row[e].round]
         /\ row[e].status \in {"pending", "leased"}
<1>1. row[e] \in Rows /\ row[e].attempts < AttemptBound
  BY DEF TypeInv, ClaimDue, Claimable
<1>2. row[e].attempts + 1 \in 0 .. AttemptBound /\ row[e].attempts + 1 \in 1 .. AttemptBound
  BY <1>1, OutboxAssumption DEF Rows
<1>3. row' \in [Events -> Rows]
  BY <1>1, <1>2 DEF ClaimDue, TypeInv, Rows, Statuses
<1>4. \A x \in Events \ {e} : row'[x] = row[x]
  BY DEF ClaimDue, TypeInv
<1>5. /\ row'[e].status = "leased" /\ row'[e].token = t
      /\ row'[e].attempts = row[e].attempts + 1
      /\ row'[e].round = row[e].round /\ row'[e].dlqPublished = row[e].dlqPublished
  BY <1>1 DEF ClaimDue, TypeInv, Rows
<1>6. ClaimedLease(e) = [event |-> e, token |-> t, attempts |-> row[e].attempts + 1,
                         round |-> row[e].round]
  BY <1>5 DEF ClaimedLease
<1>7. row[e].round \in 0 .. MaxRequeues
  BY <1>1 DEF Rows
<1>8. ClaimedLease(e) \in Leases
  BY <1>2, <1>6, <1>7 DEF Leases
<1> QED
  BY <1>3, <1>4, <1>5, <1>6, <1>8 DEF ClaimDue, Claimable

\* Nothing that the counts and the leases go by has changed, except that a
\* lease may be over.
Calm(e) ==
  /\ row'[e].attempts = row[e].attempts /\ row'[e].round = row[e].round
  /\ row'[e].status = "leased" =>
       row[e].status = "leased" /\ row'[e].token = row[e].token

CalmRows == row' \in [Events -> Rows] /\ \A e \in Events : Calm(e)

(* The sweep, the application, the clock, a lease that ends, and the mark  *)
(* of a mirrored row are calm.                                             *)
LEMMA CalmUpdates ==
  ASSUME TypeInv
  PROVE  /\ QuarantineExpired => CalmRows
         /\ \A e \in Events : CreateOrder(e) => CalmRows
         /\ \A e \in Events : DeadlinePasses(e) => CalmRows
         /\ \A e \in Events : MarkDlqPublished(e) => CalmRows
         /\ \A l \in Leases : LeaseEnds(l, 0) => CalmRows
         /\ UNCHANGED row => CalmRows
<1> USE DEF TypeInv, CalmRows, Calm, Rows, Statuses
<1>1. ASSUME QuarantineExpired PROVE CalmRows
  <2>1. \A e \in Events : Unleased(row[e], "dead_letter") \in Rows
    BY DEF Unleased
  <2> QED
    BY <1>1, <2>1 DEF QuarantineExpired, Unleased
<1>2. ASSUME NEW e \in Events, CreateOrder(e) PROVE CalmRows
  BY <1>2 DEF CreateOrder
<1>3. ASSUME NEW e \in Events, DeadlinePasses(e) PROVE CalmRows
  BY <1>3 DEF DeadlinePasses
<1>4. ASSUME NEW e \in Events, MarkDlqPublished(e) PROVE CalmRows
  BY <1>4 DEF MarkDlqPublished
<1>5. ASSUME NEW l \in Leases, LeaseEnds(l, 0) PROVE CalmRows
  <2>1. l.event \in Events /\ row[l.event].attempts - 0 = row[l.event].attempts
    BY OutboxAssumption DEF Leases
  <2> QED
    BY <1>5, <2>1 DEF LeaseEnds, EndedRow
<1> QED
  BY <1>1, <1>2, <1>3, <1>4, <1>5

(* The operator's replay begins a round.                                   *)
LEMMA ReplayedRow ==
  ASSUME TypeInv, NEW e \in Events, RequeueDeadLetter(e)
  PROVE  /\ row' \in [Events -> Rows]
         /\ \A x \in Events \ {e} : row'[x] = row[x]
         /\ row[e].status = "dead_letter" /\ row'[e].status = "pending"
         /\ row'[e].attempts = 0 /\ row'[e].round = row[e].round + 1
         /\ row'[e].dlqPublished = FALSE
<1>1. row[e] \in Rows /\ row[e].round < MaxRequeues
  BY DEF TypeInv, RequeueDeadLetter
<1>2. row[e].round + 1 \in 0 .. MaxRequeues /\ 0 \in 0 .. AttemptBound
  BY <1>1, OutboxAssumption DEF Rows
<1>3. row' \in [Events -> Rows]
  BY <1>1, <1>2 DEF RequeueDeadLetter, TypeInv, Rows, Statuses
<1>4. /\ row'[e].status = "pending" /\ row'[e].attempts = 0
      /\ row'[e].round = row[e].round + 1 /\ row'[e].dlqPublished = FALSE
      /\ \A x \in Events \ {e} : row'[x] = row[x]
  BY <1>1 DEF RequeueDeadLetter, TypeInv, Rows
<1> QED
  BY <1>3, <1>4 DEF RequeueDeadLetter

-----------------------------------------------------------------------------
(* The counts and the leases                                               *)

(* In every reachable state a round has finitely many senders.             *)
LEMMA HoldingFinite ==
  ASSUME NEW e \in Events
  PROVE  IsFiniteSet(Holding(e)) /\ Cardinality(Holding(e)) \in Nat
<1>1. Holding(e) \subseteq Relays
  BY DEF Holding
<1> QED
  BY <1>1, RelayAssumption, FS_Subset, FS_CardinalityType

\* Records and messages may be dropped and leases may end, but nothing is
\* claimed, sent or replayed.
Dropping ==
  /\ CalmRows
  /\ held' \in [Relays -> Held \cup {NoLease}]
  /\ \A r \in Relays : held'[r] \in {held[r], NoLease}
  /\ flights' \subseteq flights
  /\ sends' = sends

(* Dropping disturbs none of the parts about counts and leases.            *)
LEMMA DroppingInv ==
  ASSUME TypeInv, LeasedInv, UniqueInv, RoundInv, SendsInv, Dropping
  PROVE  LeasedInv' /\ UniqueInv' /\ RoundInv' /\ SendsInv'
<1> USE DEF TypeInv, Dropping, CalmRows, Calm
<1>1. LeasedInv'
  BY DEF LeasedInv
<1>2. UniqueInv'
  BY DEF UniqueInv
<1>3. RoundInv'
  <2> SUFFICES ASSUME NEW r \in Relays, held'[r] # NoLease
               PROVE  /\ held[r].lease.round <= row[held[r].lease.event].round
                      /\ Holds(held[r].lease)' => held[r].lease.round
                                                  = row[held[r].lease.event].round
                      /\ held'[r] = held[r] /\ held[r].lease.event \in Events
    BY DEF RoundInv, Holds
  <2>1. held'[r] = held[r] /\ held[r].lease.event \in Events
    BY DEF Held, Leases
  <2>2. Holds(held[r].lease)' => Holds(held[r].lease)
    BY <2>1 DEF Holds
  <2> QED
    BY <2>1, <2>2 DEF RoundInv
<1>4. SendsInv'
  <2> SUFFICES ASSUME NEW e \in Events
               PROVE  sends[e] + Cardinality(Holding(e)') <= row[e].attempts
    BY DEF SendsInv
  <2>1. Holding(e)' \subseteq Holding(e)
    BY DEF Holding
  <2>2. Cardinality(Holding(e)') <= Cardinality(Holding(e)) /\ Cardinality(Holding(e)') \in Nat
    BY <2>1, HoldingFinite, FS_Subset, FS_CardinalityType
  <2>3. sends[e] \in Nat /\ row[e].attempts \in Nat
    BY OutboxAssumption DEF Rows
  <2> QED
    BY <2>2, <2>3, HoldingFinite DEF SendsInv
<1> QED
  BY <1>1, <1>2, <1>3, <1>4

(* A claim takes a token nobody knows, and the attempt it counts is that   *)
(* of the record it hands out.                                             *)
LEMMA ClaimInv ==
  ASSUME TypeInv, LeasedInv, HeldInv, UniqueInv, RoundInv, SendsInv,
         NEW r \in Relays, Claim(r), UNCHANGED forwarderVars
  PROVE  TypeInv' /\ LeasedInv' /\ HeldInv' /\ UniqueInv' /\ RoundInv' /\ SendsInv'
<1>1. PICK e \in Events :
        /\ ClaimDue(e, FreshToken)
        /\ held' = [held EXCEPT ![r] = [lease |-> ClaimedLease(e),
                                        ticket |-> Ticket(breaker[r])]]
  BY DEF Claim
<1>2. FreshToken \in Tokens /\ FreshToken \notin UsedTokens
  BY DEF Claim, FreshToken
<1>3. Ticket(breaker[r]) \in Tickets
  BY DEF Claim, Admits, Ticket, Tickets, NoTicket
<1> DEFINE new == [lease |-> ClaimedLease(e), ticket |-> Ticket(breaker[r])]
<1>4. /\ row' \in [Events -> Rows]
      /\ \A x \in Events \ {e} : row'[x] = row[x]
      /\ row'[e].status = "leased" /\ row'[e].token = FreshToken
      /\ row'[e].attempts = row[e].attempts + 1
      /\ row'[e].round = row[e].round
      /\ ClaimedLease(e) \in Leases
      /\ ClaimedLease(e).event = e /\ ClaimedLease(e).token = FreshToken
      /\ ClaimedLease(e).round = row[e].round
  BY <1>1, <1>2, ClaimedRow
<1>5. new \in Held /\ new # NoLease /\ new.lease = ClaimedLease(e)
  BY <1>3, <1>4, RelayAssumption DEF Held
<1> HIDE DEF new
<1>6. held' = [held EXCEPT ![r] = new]
  BY <1>1 DEF new
<1>7. held[r] = NoLease
  BY DEF Claim, Admits, HeldInv
<1>8. /\ held' \in [Relays -> Held \cup {NoLease}]
      /\ held'[r] = new /\ \A s \in Relays \ {r} : held'[s] = held[s]
  BY <1>5, <1>6 DEF TypeInv
<1>9. /\ flights' = flights /\ sends' = sends
      /\ pc[r] = "loop" /\ pc' = [pc EXCEPT ![r] = "claimed"]
  BY DEF Claim, Admits, Goto
<1>10. TypeInv'
  BY <1>4, <1>8, <1>9 DEF TypeInv, Steps, forwarderVars
<1>11. LeasedInv'
  <2>1. row[e].attempts \in Nat
    BY OutboxAssumption DEF TypeInv, Rows
  <2> QED
    BY <1>2, <1>4, <2>1 DEF LeasedInv
<1>12. HeldInv'
  BY <1>5, <1>8, <1>9 DEF HeldInv, TypeInv
<1>13. UniqueInv'
  <2>1. \A s \in Relays : held[s] # NoLease => held[s].lease.token # FreshToken
    BY <1>2 DEF UsedTokens
  <2>2. \A f \in flights : f.lease.token # FreshToken
    BY <1>2 DEF UsedTokens
  <2> QED
    BY <1>4, <1>5, <1>8, <1>9, <2>1, <2>2 DEF UniqueInv
<1>14. RoundInv'
  <2> SUFFICES ASSUME NEW s \in Relays, held'[s] # NoLease
               PROVE  LET l == held'[s].lease
                      IN  /\ l.round <= row'[l.event].round
                          /\ row'[l.event].status = "leased" /\ row'[l.event].token = l.token
                               => l.round = row'[l.event].round
    BY DEF RoundInv, Holds
  <2>1. CASE s = r
    BY <1>4, <1>5, <1>8, <2>1, OutboxAssumption DEF TypeInv, Rows
  <2>2. CASE s # r
    <3>1. held'[s] = held[s] /\ held[s].lease.event \in Events
      BY <1>8, <2>2 DEF TypeInv, Held, Leases
    <3>2. held[s].lease.token # FreshToken
      BY <1>2, <3>1 DEF UsedTokens
    <3> QED
      BY <1>4, <3>1, <3>2 DEF RoundInv, Holds
  <2> QED
    BY <2>1, <2>2
<1>15. SendsInv'
  <2> SUFFICES ASSUME NEW x \in Events
               PROVE  sends[x] + Cardinality(Holding(x)') <= row'[x].attempts
    BY <1>9 DEF SendsInv
  <2>1. CASE x # e
    <3>1. Holding(x)' = Holding(x)
      BY <1>4, <1>5, <1>7, <1>8, <2>1 DEF Holding
    <3> QED
      BY <1>4, <2>1, <3>1 DEF SendsInv
  <2>2. CASE x = e
    <3>1. Holding(e)' = Holding(e) \cup {r} /\ r \notin Holding(e)
      BY <1>4, <1>5, <1>7, <1>8 DEF Holding
    <3>2. Cardinality(Holding(e)') = Cardinality(Holding(e)) + 1
      BY <3>1, HoldingFinite, FS_AddElement
    <3>3. sends[e] \in Nat /\ row[e].attempts \in Nat
      BY OutboxAssumption DEF TypeInv, Rows
    <3>4. sends[e] + Cardinality(Holding(e)) <= row[e].attempts
      BY DEF SendsInv
    <3> QED
      BY <1>4, <2>2, <3>2, <3>3, <3>4, HoldingFinite
  <2> QED
    BY <2>1, <2>2
<1> QED
  BY <1>10, <1>11, <1>12, <1>13, <1>14, <1>15

(* An accepted message takes the record's token and its place in the       *)
(* count.                                                                  *)
LEMMA ProduceInv ==
  ASSUME TypeInv, LeasedInv, HeldInv, UniqueInv, RoundInv, SendsInv,
         NEW r \in Relays, Produce(r), UNCHANGED forwarderVars
  PROVE  TypeInv' /\ LeasedInv' /\ HeldInv' /\ UniqueInv' /\ RoundInv' /\ SendsInv'
<1> DEFINE l == held[r].lease
           sent == [relay |-> r, lease |-> l, ticket |-> held[r].ticket, fate |-> "sent"]
<1>1. held[r] # NoLease /\ held[r] \in Held
  BY DEF Produce, HeldInv, TypeInv
<1>2. l \in Leases /\ l.event \in Events /\ sent \in Flights /\ sent.lease = l
  BY <1>1 DEF Held, Leases, Flights
<1>3. flights' = flights \cup {sent} /\ row' = row
  BY DEF Produce
<1>4. CountSend(l)
  BY DEF Produce
<1> HIDE DEF sent, l
<1>5. /\ held' \in [Relays -> Held \cup {NoLease}] /\ held'[r] = NoLease
      /\ \A s \in Relays \ {r} : held'[s] = held[s]
      /\ pc' \in [Relays -> Steps] /\ pc'[r] # "claimed"
      /\ \A s \in Relays \ {r} : pc'[s] = pc[s]
  BY DEF Produce, DropRecord, Goto, TypeInv, Steps
<1>6. sends' \in [Events -> Nat]
      /\ \A x \in Events : sends'[x] = IF x = l.event /\ l.round = row[x].round
                                       THEN sends[x] + 1 ELSE sends[x]
  BY <1>2, <1>4 DEF CountSend, TypeInv
<1>7. TypeInv'
  BY <1>2, <1>3, <1>5, <1>6 DEF TypeInv, forwarderVars
<1>8. LeasedInv' /\ HeldInv'
  BY <1>3, <1>5 DEF LeasedInv, HeldInv
<1>9. UniqueInv'
  <2>1. \A s \in Relays \ {r} : held[s] # NoLease => held[s].lease.token # l.token
    BY <1>1 DEF UniqueInv, l
  <2>2. \A f \in flights : f.lease.token # l.token
    BY <1>1 DEF UniqueInv, l
  <2> QED
    BY <1>2, <1>3, <1>5, <2>1, <2>2 DEF UniqueInv
<1>10. RoundInv'
  BY <1>3, <1>5 DEF RoundInv, Holds
<1>11. SendsInv'
  <2> SUFFICES ASSUME NEW x \in Events
               PROVE  sends'[x] + Cardinality(Holding(x)') <= row[x].attempts
    BY <1>3 DEF SendsInv
  <2>1. sends[x] \in Nat /\ row[x].attempts \in Nat
        /\ sends[x] + Cardinality(Holding(x)) <= row[x].attempts
    BY OutboxAssumption DEF TypeInv, Rows, SendsInv
  <2>2. CASE x = l.event /\ l.round = row[x].round
    <3>1. Holding(x)' = Holding(x) \ {r} /\ r \in Holding(x)
      BY <1>1, <1>3, <1>5, <2>2 DEF Holding, l
    <3>2. Cardinality(Holding(x)') = Cardinality(Holding(x)) - 1
      BY <3>1, HoldingFinite, FS_RemoveElement
    <3> QED
      BY <1>6, <2>1, <2>2, <3>2, HoldingFinite
  <2>3. CASE ~(x = l.event /\ l.round = row[x].round)
    <3>1. Holding(x)' = Holding(x)
      BY <1>1, <1>3, <1>5, <2>3 DEF Holding, l
    <3> QED
      BY <1>6, <2>1, <2>3, <3>1
  <2> QED
    BY <2>2, <2>3
<1> QED
  BY <1>7, <1>8, <1>9, <1>10, <1>11

(* A record that is not sent takes its attempt back if its lease is still  *)
(* the row's, and then it counts in the row's round.                       *)
LEMMA ReleaseInv ==
  ASSUME TypeInv, LeasedInv, HeldInv, UniqueInv, RoundInv, SendsInv,
         NEW r \in Relays, QueueFull(r)
  PROVE  LeasedInv' /\ UniqueInv' /\ RoundInv' /\ SendsInv' /\ row' \in [Events -> Rows]
<1> DEFINE l == held[r].lease
<1>1. held[r] # NoLease /\ l \in Leases /\ l.event \in Events
  BY DEF QueueFull, HeldInv, TypeInv, Held, Leases
<1>2. LeaseEnds(l, 1)
  BY <1>1, LeaseEndings DEF QueueFull
<1>3. /\ held' \in [Relays -> Held \cup {NoLease}] /\ held'[r] = NoLease
      /\ \A s \in Relays \ {r} : held'[s] = held[s]
      /\ flights' = flights /\ sends' = sends
  BY DEF QueueFull, GiveUp, DropRecord, TypeInv
<1>4. \A e \in Events : /\ row'[e].round = row[e].round
                        /\ row'[e].status = "leased" => row'[e] = row[e]
  BY <1>1, <1>2 DEF LeaseEnds, EndedRow
<1>5. Holds(l) => l.round = row[l.event].round
  BY <1>1 DEF RoundInv
<1> HIDE DEF l
<1>6. LeasedInv'
  BY <1>4 DEF LeasedInv
<1>7. UniqueInv'
  BY <1>3 DEF UniqueInv
<1>8. RoundInv'
  <2> SUFFICES ASSUME NEW s \in Relays \ {r}, held[s] # NoLease
               PROVE  LET m == held[s].lease
                      IN  /\ m.round <= row'[m.event].round
                          /\ row'[m.event].status = "leased" /\ row'[m.event].token = m.token
                               => m.round = row'[m.event].round
    BY <1>3 DEF RoundInv, Holds
  <2>1. held[s].lease.event \in Events
    BY DEF TypeInv, Held, Leases
  <2> QED
    BY <1>4, <2>1 DEF RoundInv, Holds
<1>9. SendsInv'
  <2> SUFFICES ASSUME NEW x \in Events
               PROVE  sends[x] + Cardinality(Holding(x)') <= row'[x].attempts
    BY <1>3 DEF SendsInv
  <2>1. sends[x] \in Nat /\ row[x].attempts \in Nat
        /\ sends[x] + Cardinality(Holding(x)) <= row[x].attempts
    BY OutboxAssumption DEF TypeInv, Rows, SendsInv
  <2>2. CASE x = l.event /\ Holds(l)
    <3>1. Holding(x)' = Holding(x) \ {r} /\ r \in Holding(x)
      BY <1>1, <1>3, <1>4, <1>5, <2>2 DEF Holding, l
    <3>2. Cardinality(Holding(x)') = Cardinality(Holding(x)) - 1
      BY <3>1, HoldingFinite, FS_RemoveElement
    <3>3. row'[x].attempts = row[x].attempts - 1
      BY <1>2, <2>2 DEF LeaseEnds, EndedRow
    <3> QED
      BY <2>1, <3>2, <3>3, HoldingFinite
  <2>3. CASE ~(x = l.event /\ Holds(l))
    <3>1. row'[x] = row[x]
      BY <1>2, <2>3 DEF LeaseEnds
    <3>2. Holding(x)' \subseteq Holding(x)
      BY <1>3, <1>4 DEF Holding
    <3>3. Cardinality(Holding(x)') <= Cardinality(Holding(x))
          /\ Cardinality(Holding(x)') \in Nat
      BY <3>2, HoldingFinite, FS_Subset, FS_CardinalityType
    <3> QED
      BY <2>1, <3>1, <3>3, HoldingFinite
  <2> QED
    BY <2>2, <2>3
<1> QED
  BY <1>2, <1>6, <1>7, <1>8, <1>9 DEF LeaseEnds

(* The operator's replay: no record in hand is of the round that begins.   *)
LEMMA ReplayInv ==
  ASSUME TypeInv, LeasedInv, UniqueInv, RoundInv, SendsInv,
         NEW e \in Events, OperatorReplays(e)
  PROVE  /\ LeasedInv' /\ UniqueInv' /\ RoundInv' /\ SendsInv'
         /\ row' \in [Events -> Rows] /\ sends' \in [Events -> Nat]
<1>1. /\ row' \in [Events -> Rows]
      /\ \A x \in Events \ {e} : row'[x] = row[x]
      /\ row'[e].status = "pending" /\ row'[e].attempts = 0
      /\ row'[e].round = row[e].round + 1
  BY ReplayedRow DEF OperatorReplays
<1>2. held' = held /\ flights' = flights
  BY DEF OperatorReplays
<1>3. sends' \in [Events -> Nat] /\ sends'[e] = 0 /\ \A x \in Events \ {e} : sends'[x] = sends[x]
  BY DEF OperatorReplays, TypeInv
<1>4. row[e].round \in Nat
  BY OutboxAssumption DEF TypeInv, Rows
<1>5. \A r \in Relays : held[r] # NoLease =>
        held[r].lease.event \in Events /\ held[r].lease.round \in Nat
  BY OutboxAssumption DEF TypeInv, Held, Leases
<1>6. LeasedInv' /\ UniqueInv'
  BY <1>1, <1>2 DEF LeasedInv, UniqueInv
<1>7. RoundInv'
  <2> SUFFICES ASSUME NEW r \in Relays, held[r] # NoLease
               PROVE  LET m == held[r].lease
                      IN  /\ m.round <= row'[m.event].round
                          /\ row'[m.event].status = "leased" /\ row'[m.event].token = m.token
                               => m.round = row'[m.event].round
    BY <1>2 DEF RoundInv, Holds
  <2> QED
    BY <1>1, <1>4, <1>5 DEF RoundInv, Holds
<1>8. SendsInv'
  <2> SUFFICES ASSUME NEW x \in Events
               PROVE  sends'[x] + Cardinality(Holding(x)') <= row'[x].attempts
    BY DEF SendsInv
  <2>1. CASE x = e
    <3>1. Holding(e)' = {}
      BY <1>1, <1>2, <1>4, <1>5 DEF Holding, RoundInv
    <3> QED
      BY <1>1, <1>3, <2>1, <3>1, FS_EmptySet
  <2>2. CASE x # e
    <3>1. Holding(x)' = Holding(x)
      BY <1>1, <1>2, <2>2 DEF Holding
    <3> QED
      BY <1>1, <1>3, <2>2, <3>1 DEF SendsInv
  <2> QED
    BY <2>1, <2>2
<1> QED
  BY <1>1, <1>3, <1>6, <1>7, <1>8

-----------------------------------------------------------------------------
(* The steps                                                               *)

(* Which steps only drop.                                                  *)
LEMMA DroppingSteps ==
  ASSUME TypeInv, LeasedInv, HeldInv
  PROVE  /\ \A r \in Relays :
              Sweep(r) \/ Refused(r) \/ NothingDue(r) \/ ProduceRaises(r) \/ CoolDown(r)
                \/ Close(r) \/ Crash(r) \/ Replace(r) => Dropping
         /\ \A f \in flights : Serve(f) => Dropping
         /\ \A e \in Events : OrderAccepted(e) \/ ClockTicks(e) => Dropping
         /\ Forwarding => Dropping
         /\ UNCHANGED outboxVars => Dropping
<1>1. UNCHANGED <<held, flights, sends>> /\ CalmRows => Dropping
  BY DEF Dropping, TypeInv
<1>2. \A r \in Relays, l \in Leases : LeaseEnds(l, 0) => CalmRows
  BY CalmUpdates
<1>3. ASSUME NEW r \in Relays, Sweep(r) \/ Refused(r) \/ NothingDue(r) \/ CoolDown(r) \/ Close(r)
      PROVE  Dropping
  BY <1>1, <1>3, CalmUpdates DEF Sweep, Refused, NothingDue, CoolDown, Close
<1>4. ASSUME NEW r \in Relays, ProduceRaises(r)
      PROVE  Dropping
  <2>1. held[r].lease \in Leases
    BY <1>4 DEF ProduceRaises, HeldInv, TypeInv, Held
  <2>2. CalmRows
    BY <1>4, <2>1, LeaseEndings, CalmUpdates DEF ProduceRaises
  <2> QED
    BY <1>4, <2>2 DEF Dropping, TypeInv, ProduceRaises, GiveUp, DropRecord
<1>5. ASSUME NEW r \in Relays, Crash(r) \/ Replace(r)
      PROVE  Dropping
  <2>1. FreshProcess(r)
    BY <1>5 DEF Crash, Replace
  <2>2. CalmRows
    BY <2>1, CalmUpdates DEF FreshProcess
  <2> QED
    BY <2>1, <2>2 DEF Dropping, TypeInv, FreshProcess, DropRecord, QueueOf
<1>6. ASSUME NEW f \in flights, Serve(f)
      PROVE  Dropping
  <2>1. f.lease \in Leases
    BY DEF TypeInv, Flights
  <2>2. CalmRows /\ held' = held /\ sends' = sends /\ flights' = flights \ {f}
    BY <1>6, <2>1, LeaseEndings, CalmUpdates DEF Serve, Acked, Failed
  <2> QED
    BY <2>2 DEF Dropping, TypeInv
<1>7. ASSUME NEW e \in Events, OrderAccepted(e) \/ ClockTicks(e)
      PROVE  Dropping
  BY <1>1, <1>7, CalmUpdates DEF OrderAccepted, ClockTicks, relayVars
<1>8. ASSUME Forwarding PROVE Dropping
  <2>1. UNCHANGED <<held, flights, sends>>
    BY <1>8 DEF Forwarding, relayVars
  <2>2. CalmRows
    <3>1. CASE CopyReported
      <4>1. CASE copy.fate = "acked"
        <5>1. copy.event \in Events /\ MarkDlqPublished(copy.event)
          BY <3>1, <4>1 DEF CopyReported, TypeInv, Copies
        <5> QED
          BY <5>1, CalmUpdates
      <4>2. CASE copy.fate # "acked"
        BY <3>1, <4>2, CalmUpdates DEF CopyReported
      <4> QED
        BY <4>1, <4>2
    <3>2. CASE UNCHANGED row
      BY <3>2, CalmUpdates
    <3> QED
      BY <1>8, <3>1, <3>2
      DEF Forwarding, ForwarderNext, ForwardOnce, ProduceCopy, CopyRefused, DlqDecides
  <2> QED
    BY <1>1, <2>1, <2>2
<1>9. ASSUME UNCHANGED outboxVars PROVE Dropping
  BY <1>1, <1>9, CalmUpdates DEF outboxVars, relayVars
<1> QED
  BY <1>3, <1>4, <1>5, <1>6, <1>7, <1>8, <1>9

(* The relays' own steps but for their claims and sends keep the types,    *)
(* and a record in hand is one about to be produced.                       *)
LEMMA HandsInv ==
  ASSUME TypeInv, HeldInv, Dropping, NEW r \in Relays, UNCHANGED forwarderVars,
         \/ Sweep(r) \/ Refused(r) \/ NothingDue(r) \/ ProduceRaises(r) \/ CoolDown(r)
         \/ Close(r) \/ Crash(r) \/ Replace(r)
  PROVE  TypeInv' /\ HeldInv'
<1>1. CASE Sweep(r) \/ Refused(r) \/ NothingDue(r) \/ Close(r)
  <2>1. /\ pc[r] # "claimed" /\ held' = held
        /\ \E step \in Steps \ {"claimed"} : pc' = [pc EXCEPT ![r] = step]
    BY <1>1 DEF Sweep, Refused, NothingDue, Admits, Close, Goto, Steps
  <2> QED
    BY <2>1 DEF TypeInv, HeldInv, Dropping, CalmRows, forwarderVars
<1>2. CASE ProduceRaises(r) \/ Crash(r) \/ Replace(r)
  <2>1. held' = [held EXCEPT ![r] = NoLease] /\ pc' = [pc EXCEPT ![r] = "idle"]
    BY <1>2 DEF ProduceRaises, GiveUp, Crash, Replace, FreshProcess, DropRecord, Goto
  <2> QED
    BY <2>1 DEF TypeInv, HeldInv, Dropping, CalmRows, forwarderVars, Steps
<1>3. CASE CoolDown(r)
  BY <1>3 DEF CoolDown, TypeInv, HeldInv, Dropping, CalmRows, forwarderVars
<1> QED
  BY <1>1, <1>2, <1>3

(* A report, a clock, an application, the forwarder: pc and held stay.     *)
LEMMA StillHandsInv ==
  ASSUME TypeInv, HeldInv, Dropping, UNCHANGED <<pc, held>>,
         batch' \subseteq [event: Events, round: 0 .. MaxRequeues],
         copy' \in Copies \cup {NoCopy}
  PROVE  TypeInv' /\ HeldInv'
BY DEF TypeInv, HeldInv, Dropping, CalmRows

(* The forwarder's variables keep their types.                             *)
LEMMA ForwarderTypes ==
  ASSUME TypeInv, Forwarding
  PROVE  /\ batch' \subseteq [event: Events, round: 0 .. MaxRequeues]
         /\ copy' \in Copies \cup {NoCopy}
<1> USE DEF Forwarding, TypeInv
<1>1. CASE ForwardOnce
  BY <1>1 DEF ForwardOnce, PendingDeadLetters, Snapshot, Rows
<1>2. ASSUME NEW d \in batch, ProduceCopy(d)
      PROVE  /\ batch' \subseteq [event: Events, round: 0 .. MaxRequeues]
             /\ copy' \in Copies \cup {NoCopy}
  BY <1>2 DEF ProduceCopy, Copies
<1>3. CASE CopyRefused \/ CopyReported
  BY <1>3 DEF CopyRefused, CopyReported
<1>4. ASSUME NEW fate \in {"acked", "failed"}, DlqDecides(fate)
      PROVE  /\ batch' \subseteq [event: Events, round: 0 .. MaxRequeues]
             /\ copy' \in Copies \cup {NoCopy}
  BY <1>4 DEF DlqDecides, Copies
<1> QED
  BY <1>1, <1>2, <1>3, <1>4 DEF ForwarderNext

(* The broker's answer changes the fate of a message and nothing else.     *)
LEMMA DecisionInv ==
  ASSUME CoreInv, NEW f \in flights, NEW fate \in {"acked", "failed"},
         BrokerDecides(f, fate), UNCHANGED forwarderVars
  PROVE  CoreInv'
<1> DEFINE decided == [f EXCEPT !.fate = fate]
<1>1. f \in Flights
  BY DEF CoreInv, TypeInv
<1>2. decided \in Flights /\ decided.lease = f.lease
  BY <1>1 DEF Flights
<1>3. flights' = (flights \ {f}) \cup {decided} /\ UNCHANGED <<row, pc, held, sends>>
  BY DEF BrokerDecides
<1> HIDE DEF decided
<1>4. TypeInv'
  BY <1>2, <1>3 DEF CoreInv, TypeInv, forwarderVars
<1>5. UniqueInv'
  BY <1>2, <1>3 DEF CoreInv, UniqueInv
<1>6. LeasedInv' /\ HeldInv' /\ RoundInv'
  BY <1>3 DEF CoreInv, LeasedInv, HeldInv, RoundInv, Holds
<1>7. \A e \in Events : Holding(e)' = Holding(e)
  BY <1>3 DEF Holding
<1>8. SendsInv'
  BY <1>3, <1>7 DEF CoreInv, SendsInv
<1> QED
  BY <1>4, <1>5, <1>6, <1>8 DEF CoreInv

(* Every step of the deployment preserves the counts and the leases.       *)
LEMMA CoreNextInv ==
  ASSUME CoreInv, [Relaying \/ Forwarding]_outboxVars
  PROVE  CoreInv'
<1> USE DEF CoreInv
<1>1. ASSUME NEW r \in Relays, WorkerActions(r), UNCHANGED forwarderVars
      PROVE  CoreInv'
  <2>1. CASE Claim(r)
    BY <1>1, <2>1, ClaimInv
  <2>2. CASE Produce(r)
    BY <1>1, <2>2, ProduceInv
  <2>3. CASE QueueFull(r)
    <3>1. LeasedInv' /\ UniqueInv' /\ RoundInv' /\ SendsInv' /\ row' \in [Events -> Rows]
      BY <2>3, ReleaseInv
    <3>2. TypeInv' /\ HeldInv'
      BY <1>1, <2>3, <3>1
      DEF TypeInv, HeldInv, QueueFull, GiveUp, DropRecord, Goto, Steps, forwarderVars
    <3> QED
      BY <3>1, <3>2
  <2>4. CASE \/ Sweep(r) \/ Refused(r) \/ NothingDue(r) \/ ProduceRaises(r) \/ CoolDown(r)
             \/ Close(r) \/ Crash(r) \/ Replace(r)
    <3>1. Dropping
      BY <2>4, DroppingSteps
    <3> QED
      BY <1>1, <2>4, <3>1, DroppingInv, HandsInv
  <2>5. ASSUME NEW f \in QueueOf(r), Serve(f)
        PROVE  CoreInv'
    <3>1. f \in flights /\ Dropping
      BY <2>5, DroppingSteps DEF QueueOf
    <3>2. UNCHANGED <<pc, held>>
      BY <2>5 DEF Serve, Acked, Failed
    <3>3. batch' = batch /\ copy' = copy
      BY <1>1 DEF forwarderVars
    <3>4. TypeInv' /\ HeldInv'
      BY <3>1, <3>2, <3>3, StillHandsInv DEF TypeInv
    <3> QED
      BY <3>1, <3>4, DroppingInv
  <2>6. ASSUME NEW f \in QueueOf(r), Decide(f)
        PROVE  CoreInv'
    BY <1>1, <2>6, DecisionInv DEF Decide, QueueOf
  <2> QED
    BY <1>1, <2>1, <2>2, <2>3, <2>4, <2>5, <2>6 DEF WorkerActions, RelayStep
<1>2. ASSUME NEW e \in Events, EventActions(e), UNCHANGED forwarderVars
      PROVE  CoreInv'
  <2>1. CASE OperatorReplays(e)
    <3>1. UNCHANGED <<pc, held, flights, batch, copy>>
      BY <1>2, <2>1 DEF OperatorReplays, forwarderVars
    <3> QED
      BY <2>1, <3>1, ReplayInv DEF TypeInv, HeldInv
  <2>2. CASE OrderAccepted(e) \/ ClockTicks(e)
    <3>1. Dropping /\ UNCHANGED <<pc, held, batch, copy>>
      BY <1>2, <2>2, DroppingSteps DEF OrderAccepted, ClockTicks, relayVars, forwarderVars
    <3>2. TypeInv' /\ HeldInv'
      BY <3>1, StillHandsInv DEF TypeInv
    <3> QED
      BY <3>1, <3>2, DroppingInv
  <2> QED
    BY <1>2, <2>1, <2>2 DEF EventActions
<1>3. CASE Forwarding
  <2>1. Dropping /\ UNCHANGED <<pc, held>>
    BY <1>3, DroppingSteps DEF Forwarding, relayVars
  <2>2. TypeInv' /\ HeldInv'
    BY <1>3, <2>1, ForwarderTypes, StillHandsInv
  <2> QED
    BY <2>1, <2>2, DroppingInv
<1>4. CASE UNCHANGED outboxVars
  <2>1. Dropping /\ UNCHANGED <<pc, held, batch, copy>>
    BY <1>4, DroppingSteps DEF outboxVars, relayVars, forwarderVars
  <2>2. TypeInv' /\ HeldInv'
    BY <2>1, StillHandsInv DEF TypeInv
  <2> QED
    BY <2>1, <2>2, DroppingInv
<1> QED
  BY <1>1, <1>2, <1>3, <1>4 DEF Relaying, RelayNext

-----------------------------------------------------------------------------
(* What is in the topics                                                   *)

(* A step of the relays' side marks no row as mirrored.                    *)
LEMMA MarksKept ==
  ASSUME CoreInv, Relaying, NEW e \in Events, row'[e].dlqPublished
  PROVE  row[e].dlqPublished
<1> USE DEF CoreInv
<1>1. ASSUME NEW l \in Leases, NEW less, LeaseEnds(l, less) PROVE row[e].dlqPublished
  BY <1>1 DEF LeaseEnds, EndedRow, Leases
<1>2. CASE UNCHANGED row
  BY <1>2
<1>3. ASSUME NEW r \in Relays, WorkerActions(r) PROVE row[e].dlqPublished
  <2>1. CASE Sweep(r)
    BY <2>1 DEF Sweep, QuarantineExpired, Unleased, TypeInv, Rows
  <2>2. CASE Claim(r)
    <3>1. PICK x \in Events : ClaimDue(x, FreshToken)
      BY <2>2 DEF Claim
    <3>2. FreshToken \in Tokens
      BY <2>2 DEF Claim, FreshToken
    <3> QED
      BY <3>1, <3>2, ClaimedRow
  <2>3. CASE QueueFull(r) \/ ProduceRaises(r)
    <3>1. held[r].lease \in Leases
      BY <2>3 DEF QueueFull, ProduceRaises, HeldInv, TypeInv, Held
    <3> QED
      BY <1>1, <2>3, <3>1, LeaseEndings DEF QueueFull, ProduceRaises
  <2>4. ASSUME NEW f \in QueueOf(r), Serve(f) PROVE row[e].dlqPublished
    <3>1. f.lease \in Leases
      BY DEF QueueOf, TypeInv, Flights
    <3> QED
      BY <1>1, <2>4, <3>1, LeaseEndings DEF Serve, Acked, Failed
  <2> QED
    BY <1>2, <1>3, <2>1, <2>2, <2>3, <2>4
    DEF WorkerActions, RelayStep, Refused, NothingDue, Produce, CoolDown, Close, Crash, Replace,
        FreshProcess, Decide, BrokerDecides
<1>4. ASSUME NEW x \in Events, EventActions(x) PROVE row[e].dlqPublished
  <2>1. CASE OperatorReplays(x)
    BY <2>1, ReplayedRow DEF OperatorReplays
  <2>2. CASE OrderAccepted(x) \/ ClockTicks(x)
    BY <2>2 DEF OrderAccepted, CreateOrder, ClockTicks, DeadlinePasses, TypeInv, Rows
  <2> QED
    BY <1>4, <2>1, <2>2 DEF EventActions
<1> QED
  BY <1>3, <1>4 DEF Relaying, RelayNext

(* Messages come into flight undecided, and are acknowledged only when     *)
(* they are in the topic.                                                  *)
LEMMA LandedRelaying ==
  ASSUME CoreInv, LandedInv, Relaying
  PROVE  LandedInv' /\ persisted \subseteq persisted'
<1> USE DEF CoreInv, TypeInv
<1>1. ASSUME flights' \subseteq flights, persisted \subseteq persisted', UNCHANGED forwarderVars
      PROVE  LandedInv' /\ persisted \subseteq persisted'
  BY <1>1 DEF LandedInv, forwarderVars
<1>2. ASSUME NEW r \in Relays, Produce(r), UNCHANGED forwarderVars
      PROVE  LandedInv' /\ persisted \subseteq persisted'
  BY <1>2 DEF Produce, LandedInv, forwarderVars
<1>3. ASSUME NEW f \in flights, Decide(f), UNCHANGED forwarderVars
      PROVE  LandedInv' /\ persisted \subseteq persisted'
  <2>1. PICK fate \in {"acked", "failed"} : BrokerDecides(f, fate)
    BY <1>3 DEF Decide
  <2> DEFINE decided == [f EXCEPT !.fate = fate]
  <2>2. decided.lease = f.lease /\ decided.fate = fate
    BY DEF Flights
  <2>3. flights' = (flights \ {f}) \cup {decided} /\ persisted \subseteq persisted'
        /\ (fate = "acked" => f.lease.event \in persisted')
    BY <2>1 DEF BrokerDecides
  <2> HIDE DEF decided
  <2> QED
    BY <1>3, <2>2, <2>3 DEF LandedInv, forwarderVars
<1>4. ASSUME NEW r \in Relays, FreshProcess(r), UNCHANGED forwarderVars
      PROVE  LandedInv' /\ persisted \subseteq persisted'
  BY <1>1, <1>4 DEF FreshProcess
<1>5. ASSUME NEW f \in flights, Serve(f), UNCHANGED forwarderVars
      PROVE  LandedInv' /\ persisted \subseteq persisted'
  BY <1>1, <1>5 DEF Serve, Acked, Failed
<1>6. ASSUME NEW r \in Relays, WorkerActions(r), UNCHANGED forwarderVars
      PROVE  LandedInv' /\ persisted \subseteq persisted'
  <2>1. CASE \/ Sweep(r) \/ Refused(r) \/ Claim(r) \/ NothingDue(r)
             \/ QueueFull(r) \/ ProduceRaises(r) \/ CoolDown(r) \/ Close(r)
    BY <1>1, <1>6, <2>1
    DEF Sweep, Refused, Claim, NothingDue, QueueFull, ProduceRaises, GiveUp, CoolDown, Close
  <2> QED
    BY <1>2, <1>3, <1>4, <1>5, <1>6, <2>1
    DEF WorkerActions, RelayStep, Crash, Replace, QueueOf
<1>7. ASSUME NEW e \in Events, EventActions(e), UNCHANGED forwarderVars
      PROVE  LandedInv' /\ persisted \subseteq persisted'
  BY <1>1, <1>7 DEF EventActions, OrderAccepted, ClockTicks, OperatorReplays, relayVars
<1> QED
  BY <1>6, <1>7 DEF Relaying, RelayNext

(* The forwarder marks a row only for a copy that was acknowledged.        *)
LEMMA LandedForwarding ==
  ASSUME CoreInv, LandedInv, PublishedMeansMirrored, Forwarding
  PROVE  LandedInv' /\ PublishedMeansMirrored'
<1> USE DEF Forwarding, relayVars, LandedInv, PublishedMeansMirrored, CoreInv, TypeInv
<1>1. CASE ForwardOnce \/ CopyRefused
  BY <1>1 DEF ForwardOnce, CopyRefused
<1>2. ASSUME NEW d \in batch, ProduceCopy(d) PROVE LandedInv' /\ PublishedMeansMirrored'
  BY <1>2 DEF ProduceCopy
<1>3. ASSUME NEW fate \in {"acked", "failed"}, DlqDecides(fate)
      PROVE  LandedInv' /\ PublishedMeansMirrored'
  <2>1. copy \in Copies
    BY <1>3 DEF DlqDecides
  <2>2. copy'.event = copy.event /\ copy'.round = copy.round /\ copy'.fate = fate
    BY <1>3, <2>1 DEF DlqDecides, Copies
  <2>3. mirrored \subseteq mirrored'
        /\ (fate = "acked" => <<copy.event, copy.round>> \in mirrored')
    BY <1>3 DEF DlqDecides
  <2> QED
    BY <1>3, <2>2, <2>3 DEF DlqDecides
<1>4. CASE CopyReported
  <2>1. copy' = NoCopy /\ mirrored' = mirrored /\ copy \in Copies
    BY <1>4 DEF CopyReported
  <2>2. LandedInv'
    BY <2>1
  <2>3. CASE copy.fate = "acked"
    <3>1. copy.event \in Events /\ MarkDlqPublished(copy.event)
          /\ <<copy.event, copy.round>> \in mirrored
      BY <1>4, <2>1, <2>3 DEF CopyReported, Copies
    <3>2. \A e \in Events : row'[e].dlqPublished => row[e].dlqPublished \/ e = copy.event
      BY <3>1 DEF MarkDlqPublished
    <3>3. <<copy.event, copy.round>>[1] = copy.event
      OBVIOUS
    <3> QED
      BY <2>1, <2>2, <3>1, <3>2, <3>3
  <2>4. CASE copy.fate # "acked"
    BY <1>4, <2>1, <2>2, <2>4 DEF CopyReported
  <2> QED
    BY <2>3, <2>4
<1> QED
  BY <1>1, <1>2, <1>3, <1>4 DEF ForwarderNext

(* Before the first order.                                                 *)
LEMMA OutboxInitInv == Start => OutboxInv
<1> SUFFICES ASSUME Start PROVE OutboxInv
  OBVIOUS
<1> USE DEF Start, RelayInit, ForwarderInit, OutboxInit
<1>1. TypeInv
  BY OutboxAssumption DEF TypeInv, Rows, Statuses, Steps
<1>2. LeasedInv /\ HeldInv /\ UniqueInv /\ RoundInv
  BY DEF LeasedInv, HeldInv, UniqueInv, RoundInv
<1>3. SendsInv
  <2>1. \A e \in Events : Holding(e) = {}
    BY DEF Holding
  <2>2. \A e \in Events : sends[e] = 0 /\ row[e].attempts = 0
    OBVIOUS
  <2>3. \A e \in Events : Cardinality(Holding(e)) = 0
    BY <2>1, FS_EmptySet
  <2> SUFFICES ASSUME NEW e \in Events
               PROVE  sends[e] + Cardinality(Holding(e)) <= row[e].attempts
    BY DEF SendsInv
  <2>4. sends[e] = 0 /\ row[e].attempts = 0 /\ Cardinality(Holding(e)) = 0
    BY <2>2, <2>3
  <2> QED
    BY <2>4
<1>4. LandedInv /\ PublishedMeansMirrored
  BY DEF LandedInv, PublishedMeansMirrored
<1> QED
  BY <1>1, <1>2, <1>3, <1>4 DEF OutboxInv, CoreInv

(* One step, or none, preserves the whole invariant.                       *)
LEMMA OutboxNextInv == OutboxInv /\ [Relaying \/ Forwarding]_outboxVars => OutboxInv'
<1> SUFFICES ASSUME OutboxInv, [Relaying \/ Forwarding]_outboxVars PROVE OutboxInv'
  OBVIOUS
<1> USE DEF OutboxInv
<1>1. CoreInv'
  BY CoreNextInv
<1>2. CASE Relaying
  <2>1. PublishedMeansMirrored'
    BY <1>2, MarksKept DEF PublishedMeansMirrored, Relaying, forwarderVars
  <2> QED
    BY <1>1, <1>2, <2>1, LandedRelaying
<1>3. CASE Forwarding
  BY <1>1, <1>3, LandedForwarding
<1>4. CASE UNCHANGED outboxVars
  BY <1>1, <1>4 DEF outboxVars, relayVars, forwarderVars, LandedInv, PublishedMeansMirrored
<1> QED
  BY <1>2, <1>3, <1>4

(* The invariant holds throughout.                                         *)
THEOREM OutboxSafe == OutboxSpec => []OutboxInv
BY OutboxInitInv, OutboxNextInv, PTL DEF OutboxSpec

-----------------------------------------------------------------------------
(* The theorems                                                            *)

(* Of all the relays and messages that ever had to do with an event, at    *)
(* most one can still decide its leased row.                               *)
THEOREM LeaseIsExclusive == OutboxSpec => []OneLease
<1>1. OutboxInv => OneLease
  BY DEF OutboxInv, CoreInv, UniqueInv, OneLease, HoldersOf
<1> QED
  BY <1>1, OutboxSafe, PTL

(* The attempts column never claims fewer sends than were made since the   *)
(* operator's last replay.                                                 *)
THEOREM AttemptsAreHonest == OutboxSpec => []AttemptsCoverSends
<1>1. OutboxInv => AttemptsCoverSends
  <2> SUFFICES ASSUME OutboxInv, NEW e \in Events
               PROVE  sends[e] <= row[e].attempts
    BY DEF AttemptsCoverSends
  <2>1. sends[e] \in Nat /\ row[e].attempts \in Nat
    BY OutboxAssumption DEF OutboxInv, CoreInv, TypeInv, Rows
  <2>2. sends[e] + Cardinality(Holding(e)) <= row[e].attempts
    BY DEF OutboxInv, CoreInv, SendsInv
  <2> QED
    BY <2>1, <2>2, HoldingFinite
<1> QED
  BY <1>1, OutboxSafe, PTL

(* A row marked as mirrored has a copy of its event in the DLQ topic.      *)
THEOREM MirroredFirst == OutboxSpec => []PublishedMeansMirrored
<1>1. OutboxInv => PublishedMeansMirrored
  BY DEF OutboxInv
<1> QED
  BY <1>1, OutboxSafe, PTL

(* A step that takes a running lease's row out of "leased" is its holder's *)
(* own, and with it the holder lets go.                                    *)
LEMMA HolderDecides ==
  ASSUME OutboxInv, [Relaying \/ Forwarding]_outboxVars,
         NEW e \in Events, NEW t \in Tokens,
         row[e].status = "leased", ~row[e].ripe, row[e].token = t,
         row'[e].status # "leased"
  PROVE  \E x \in HoldersOf(t) : x \notin HoldersOf(t)'
<1> USE DEF OutboxInv, CoreInv
<1>1. ASSUME NEW l \in Leases, NEW less, LeaseEnds(l, less) PROVE l.token = t
  BY <1>1 DEF LeaseEnds, Holds
<1>2. ASSUME NEW r \in Relays, WorkerActions(r)
      PROVE  \E x \in HoldersOf(t) : x \notin HoldersOf(t)'
  <2>1. CASE QueueFull(r) \/ ProduceRaises(r)
    <3>1. held[r] # NoLease /\ held[r].lease \in Leases
      BY <2>1 DEF QueueFull, ProduceRaises, HeldInv, TypeInv, Held
    <3>2. held[r].lease.token = t
      BY <1>1, <2>1, <3>1, LeaseEndings DEF QueueFull, ProduceRaises
    <3>3. held'[r] = NoLease /\ flights' = flights
      BY <2>1 DEF QueueFull, ProduceRaises, GiveUp, DropRecord, TypeInv
    <3>4. r \in HoldersOf(t)
      BY <3>1, <3>2 DEF HoldersOf
    <3>5. r \notin HoldersOf(t)'
      BY <3>1, <3>2, <3>3 DEF HoldersOf, UniqueInv
    <3> QED
      BY <3>4, <3>5
  <2>2. ASSUME NEW f \in QueueOf(r), Serve(f)
        PROVE  \E x \in HoldersOf(t) : x \notin HoldersOf(t)'
    <3>1. f \in flights /\ f.lease \in Leases
      BY DEF QueueOf, TypeInv, Flights
    <3>2. f.lease.token = t
      BY <1>1, <2>2, <3>1, LeaseEndings DEF Serve, Acked, Failed
    <3>3. held' = held /\ flights' = flights \ {f}
      BY <2>2 DEF Serve, Acked, Failed
    <3>4. f \in HoldersOf(t)
      BY <3>1, <3>2 DEF HoldersOf
    <3>5. f \notin HoldersOf(t)'
      BY <3>1, <3>2, <3>3 DEF HoldersOf, UniqueInv
    <3> QED
      BY <3>4, <3>5
  <2>3. CASE Claim(r)
    <3>1. PICK x \in Events : ClaimDue(x, FreshToken)
      BY <2>3 DEF Claim
    <3>2. FreshToken \in Tokens
      BY <2>3 DEF Claim, FreshToken
    <3> QED
      BY <3>1, <3>2, ClaimedRow
  <2>4. CASE Sweep(r)
    BY <2>4 DEF Sweep, QuarantineExpired, Exhausted
  <2> QED
    BY <1>2, <2>1, <2>2, <2>3, <2>4
    DEF WorkerActions, RelayStep, Refused, NothingDue, Produce, CoolDown, Close, Crash, Replace,
        FreshProcess, Decide, BrokerDecides
<1>3. ASSUME NEW x \in Events, EventActions(x) PROVE FALSE
  BY <1>3 DEF EventActions, OrderAccepted, CreateOrder, ClockTicks, DeadlinePasses,
              OperatorReplays, RequeueDeadLetter, TypeInv, Rows
<1>4. ASSUME Forwarding PROVE FALSE
  BY <1>4 DEF Forwarding, ForwarderNext, ForwardOnce, ProduceCopy, CopyRefused, DlqDecides,
              CopyReported, MarkDlqPublished, TypeInv, Rows
<1> QED
  BY <1>2, <1>3, <1>4 DEF Relaying, RelayNext, outboxVars

(* While its lease runs, a row is decided by that lease's holder alone:    *)
(* not by another relay's sweep or claim, nor by a report of an earlier    *)
(* lease.                                                                  *)
THEOREM LeaseRespected == OutboxSpec => LeaseIsRespected
<1>1. OutboxInv /\ [Relaying \/ Forwarding]_outboxVars
        => [\A e \in Events, t \in Tokens :
              row[e].status = "leased" /\ ~row[e].ripe /\ row[e].token = t
                /\ row'[e].status # "leased"
                  => \E x \in HoldersOf(t) : x \notin HoldersOf(t)']_<<row, relayVars>>
  BY HolderDecides
<1> QED
  BY <1>1, OutboxSafe, PTL DEF OutboxSpec, LeaseIsRespected

-----------------------------------------------------------------------------
(* The contract                                                            *)

standing == [e \in Events |-> Standing(e)]

ContractStep == [Contract!Next]_(Contract!vars)

(* Where every row stands as before, copies may have landed at most.       *)
LEMMA StandsStill ==
  ASSUME \A e \in Events : Standing(e)' = Standing(e),
         NEW S \in SUBSET Events, persisted' = persisted \cup S
  PROVE  ContractStep
<1>1. standing' = standing
  BY DEF standing
<1>2. Contract!Land(S)
  BY <1>1 DEF Contract!Land, standing
<1> QED
  BY <1>2 DEF ContractStep, Contract!Next

(* Where not even that has happened, nothing has.                          *)
LEMMA NothingMoves ==
  ASSUME \A e \in Events : Standing(e)' = Standing(e), persisted' = persisted
  PROVE  ContractStep
<1>1. standing' = standing
  BY DEF standing
<1> QED
  BY <1>1 DEF ContractStep, Contract!vars, standing

\* The event moves, and no other does.
Moves(e, from, to) ==
  /\ Standing(e) = from /\ Standing(e)' = to
  /\ \A x \in Events \ {e} : Standing(x)' = Standing(x)
  /\ persisted' = persisted

(* Each move the contract has.                                             *)
LEMMA MovesKeepContract ==
  ASSUME NEW e \in Events
  PROVE  /\ Moves(e, "unknown", "open") => ContractStep
         /\ Moves(e, "open", "delivered") /\ e \in persisted => ContractStep
         /\ Moves(e, "open", "quarantined") => ContractStep
         /\ Moves(e, "quarantined", "open") => ContractStep
<1> USE DEF ContractStep, Contract!Next
<1>1. ASSUME NEW from, NEW to, Moves(e, from, to)
      PROVE  Contract!Move(e, from, to) /\ persisted' = persisted
  <2>1. standing' = [standing EXCEPT ![e] = to] /\ standing[e] = from
    BY <1>1 DEF Moves, standing
  <2> QED
    BY <1>1, <2>1 DEF Moves, Contract!Move, standing
<1>2. Moves(e, "unknown", "open") => Contract!Accept(e)
  BY <1>1 DEF Contract!Accept
<1>3. Moves(e, "open", "delivered") /\ e \in persisted => Contract!Deliver(e)
  BY <1>1 DEF Contract!Deliver
<1>4. Moves(e, "quarantined", "open") => Contract!Replay(e)
  BY <1>1 DEF Contract!Replay
<1>5. ASSUME Moves(e, "open", "quarantined") PROVE Contract!Quarantine({e})
  <2>1. standing[e] = "open" /\ persisted' = persisted
        /\ standing' = [x \in Events |-> IF x \in {e} THEN "quarantined" ELSE standing[x]]
    BY <1>5 DEF Moves, standing
  <2> QED
    BY <2>1 DEF Contract!Quarantine, standing
<1> QED
  BY <1>2, <1>3, <1>4, <1>5

(* A lease's end is for the contract a delivery, a quarantine or nothing.  *)
LEMMA EndingsKeepContract ==
  ASSUME CoreInv, NEW l \in Leases, persisted' = persisted
  PROVE  /\ MarkDelivered(l) /\ l.event \in persisted => ContractStep
         /\ \A retryable \in BOOLEAN : MarkFailure(l, retryable) => ContractStep
         /\ ReleaseUnsent(l) => ContractStep
<1> USE DEF CoreInv
<1>1. l.event \in Events /\ row[l.event] \in Rows
  BY DEF Leases, TypeInv
<1>2. ASSUME NEW less, LeaseEnds(l, less)
      PROVE  /\ ~Holds(l) \/ row'[l.event].status = "pending" => ContractStep
             /\ Holds(l) /\ row'[l.event].status = "delivered"
                  => Moves(l.event, "open", "delivered")
             /\ Holds(l) /\ row'[l.event].status = "dead_letter"
                  => Moves(l.event, "open", "quarantined")
  <2>1. \A x \in Events : x # l.event \/ ~Holds(l) => Standing(x)' = Standing(x)
    BY <1>2 DEF LeaseEnds, Standing
  <2>2. Holds(l) => Standing(l.event) = "open"
    BY <1>1 DEF Holds, Standing
  <2>3. /\ row'[l.event].status = "pending" => Standing(l.event)' = "open"
        /\ row'[l.event].status = "delivered" => Standing(l.event)' = "delivered"
        /\ row'[l.event].status = "dead_letter" => Standing(l.event)' = "quarantined"
    BY DEF Standing
  <2>4. (\A x \in Events : Standing(x)' = Standing(x)) => ContractStep
    BY NothingMoves
  <2> QED
    BY <1>1, <2>1, <2>2, <2>3, <2>4 DEF Moves
<1>3. ASSUME MarkDelivered(l), Holds(l) PROVE row'[l.event].status = "delivered"
  BY <1>1, <1>3 DEF MarkDelivered, EndLease, Unleased, Rows, TypeInv
<1>4. ASSUME NEW retryable \in BOOLEAN, MarkFailure(l, retryable), Holds(l)
      PROVE  row'[l.event].status \in {"pending", "dead_letter"}
  BY <1>1, <1>4 DEF MarkFailure, AfterFailedSend, EndLease, Unleased, Rows, TypeInv
<1>5. ASSUME ReleaseUnsent(l), Holds(l) PROVE row'[l.event].status = "pending"
  BY <1>1, <1>5 DEF ReleaseUnsent, EndLease, Unleased, Rows, TypeInv
<1> QED
  BY <1>1, <1>2, <1>3, <1>4, <1>5, LeaseEndings, MovesKeepContract

(* Every step is one of the contract's, or none.                           *)
LEMMA ContractSteps ==
  ASSUME OutboxInv, [Relaying \/ Forwarding]_outboxVars
  PROVE  ContractStep
<1> USE DEF OutboxInv, CoreInv
<1>1. (\A e \in Events : Standing(e)' = Standing(e)) /\ persisted' = persisted
        => ContractStep
  BY NothingMoves
<1>2. ASSUME NEW r \in Relays, WorkerActions(r) PROVE ContractStep
  <2>1. CASE Sweep(r)
    <3> DEFINE S == {e \in Events : Exhausted(e)}
    <3>1. /\ \A e \in S : Standing(e) = "open" /\ Standing(e)' = "quarantined"
          /\ \A e \in Events \ S : Standing(e)' = Standing(e)
          /\ persisted' = persisted
      BY <2>1 DEF Sweep, QuarantineExpired, Exhausted, Unleased, Standing, TypeInv, Rows
    <3>2. /\ \A e \in S : standing[e] = "open"
          /\ standing' = [e \in Events |-> IF e \in S THEN "quarantined" ELSE standing[e]]
      BY <3>1 DEF standing
    <3>3. Contract!Quarantine(S)
      BY <3>1, <3>2 DEF Contract!Quarantine, standing
    <3> QED
      BY <3>3 DEF ContractStep, Contract!Next
  <2>2. CASE Claim(r)
    <3>1. PICK e \in Events : ClaimDue(e, FreshToken)
      BY <2>2 DEF Claim
    <3>2. FreshToken \in Tokens
      BY <2>2 DEF Claim, FreshToken
    <3>3. \A x \in Events : Standing(x)' = Standing(x)
      BY <3>1, <3>2, ClaimedRow DEF Standing
    <3> QED
      BY <1>1, <2>2, <3>3 DEF Claim
  <2>3. CASE QueueFull(r) \/ ProduceRaises(r)
    <3>1. held[r].lease \in Leases
      BY <2>3 DEF QueueFull, ProduceRaises, HeldInv, TypeInv, Held
    <3> QED
      BY <2>3, <3>1, EndingsKeepContract DEF QueueFull, ProduceRaises, GiveUp
  <2>4. ASSUME NEW f \in QueueOf(r), Serve(f) PROVE ContractStep
    <3>1. f \in flights /\ f.lease \in Leases
      BY DEF QueueOf, TypeInv, Flights
    <3>2. CASE Acked(f)
      BY <3>1, <3>2, EndingsKeepContract DEF Acked, LandedInv
    <3>3. CASE \E retryable \in BOOLEAN : Failed(f, retryable)
      BY <3>1, <3>3, EndingsKeepContract DEF Failed
    <3> QED
      BY <2>4, <3>2, <3>3 DEF Serve
  <2>5. ASSUME NEW f \in QueueOf(r), Decide(f) PROVE ContractStep
    <3>1. f.lease.event \in Events
      BY DEF QueueOf, TypeInv, Flights, Leases
    <3>2. \A x \in Events : Standing(x)' = Standing(x)
      BY <2>5 DEF Decide, BrokerDecides, Standing
    <3>3. CASE persisted' = persisted \cup {f.lease.event}
      <4>1. {f.lease.event} \in SUBSET Events
        BY <3>1
      <4> QED
        BY <3>2, <3>3, <4>1, StandsStill
    <3>4. CASE persisted' = persisted
      BY <1>1, <3>2, <3>4
    <3> QED
      BY <2>5, <3>3, <3>4 DEF Decide, BrokerDecides
  <2>6. CASE Crash(r) \/ Replace(r)
    <3>1. PICK landed \in SUBSET Undecided(r) : persisted' = persisted \cup landed
      BY <2>6 DEF Crash, Replace, FreshProcess
    <3>2. landed \in SUBSET Events
      BY <3>1 DEF Undecided, QueueOf, TypeInv, Flights, Leases
    <3>3. \A x \in Events : Standing(x)' = Standing(x)
      BY <2>6 DEF Crash, Replace, FreshProcess, Standing
    <3> QED
      BY <3>1, <3>2, <3>3, StandsStill
  <2>7. CASE Refused(r) \/ NothingDue(r) \/ Produce(r) \/ CoolDown(r) \/ Close(r)
    <3>1. UNCHANGED <<row, persisted>>
      BY <2>7 DEF Refused, NothingDue, Produce, CoolDown, Close
    <3> QED
      BY <1>1, <3>1 DEF Standing
  <2> QED
    BY <1>2, <2>1, <2>2, <2>3, <2>4, <2>5, <2>6, <2>7 DEF WorkerActions, RelayStep
<1>3. ASSUME NEW e \in Events, EventActions(e) PROVE ContractStep
  <2>1. CASE OrderAccepted(e)
    <3>1. Moves(e, "unknown", "open")
      BY <2>1 DEF OrderAccepted, CreateOrder, relayVars, Moves, Standing, TypeInv, Rows
    <3> QED
      BY <3>1, MovesKeepContract
  <2>2. CASE ClockTicks(e)
    <3>1. \A x \in Events : Standing(x)' = Standing(x)
      BY <2>2 DEF ClockTicks, DeadlinePasses, Standing, TypeInv, Rows
    <3> QED
      BY <1>1, <2>2, <3>1 DEF ClockTicks, relayVars
  <2>3. CASE OperatorReplays(e)
    <3>1. RequeueDeadLetter(e) /\ persisted' = persisted
      BY <2>3 DEF OperatorReplays
    <3>2. Moves(e, "quarantined", "open")
      BY <3>1, ReplayedRow DEF Moves, Standing
    <3> QED
      BY <3>2, MovesKeepContract
  <2> QED
    BY <1>3, <2>1, <2>2, <2>3 DEF EventActions
<1>4. CASE Forwarding
  <2>1. persisted' = persisted
    BY <1>4 DEF Forwarding, relayVars
  <2>2. \A x \in Events : row'[x].status = row[x].status
    BY <1>4 DEF Forwarding, ForwarderNext, ForwardOnce, ProduceCopy, CopyRefused, DlqDecides,
                CopyReported, MarkDlqPublished, TypeInv, Rows
  <2> QED
    BY <1>1, <2>1, <2>2 DEF Standing
<1>5. CASE UNCHANGED outboxVars
  BY <1>1, <1>5 DEF outboxVars, relayVars, Standing
<1> QED
  BY <1>2, <1>3, <1>4, <1>5 DEF Relaying, RelayNext

(* The outbox keeps its contract: an accepted event is open until it is    *)
(* delivered, with a copy in Kafka and for good, or quarantined until an   *)
(* operator decides; none is ever dropped.                                 *)
THEOREM ContractKept == OutboxSpec => KeepsOutboxContract
<1>1. Start => Contract!Init
  BY DEF Start, RelayInit, OutboxInit, Contract!Init, Standing
<1>2. OutboxInv /\ [Relaying \/ Forwarding]_outboxVars => [Contract!Next]_(Contract!vars)
  BY ContractSteps DEF ContractStep
<1> QED
  BY <1>1, <1>2, OutboxSafe, PTL DEF OutboxSpec, KeepsOutboxContract, Contract!Spec

-----------------------------------------------------------------------------
(* The probes                                                              *)

Circuits == [state: {"CLOSED", "OPEN", "HALF_OPEN"}, failures: Nat,
             cooled: BOOLEAN, probe: BOOLEAN]

\* The circuit's test send is out.
Probing(b) == b.state = "HALF_OPEN" /\ b.probe

HoldsProbe(r) == held[r] # NoLease /\ held[r].ticket = "probe"

\* A probe ticket is out only while its circuit is probing: in the loop's
\* iteration or in one message.
ProbeInv ==
  /\ breaker \in [Relays -> Circuits]
  /\ \A r \in Relays : HoldsProbe(r) => Probing(breaker[r])
  /\ \A f \in flights : f.ticket = "probe" =>
       Probing(breaker[f.relay]) /\ ~HoldsProbe(f.relay)
  /\ \A f, g \in flights :
       f.relay = g.relay /\ f.ticket = "probe" /\ g.ticket = "probe" => f = g

(* allow: a probe is given only when none is out.                          *)
LEMMA Permits ==
  ASSUME NEW b \in Circuits
  PROVE  /\ AfterAllow(b) \in Circuits
         /\ Ticket(b) \in {"normal", "probe", "none"}
         /\ Ticket(b) = "probe" => Probing(AfterAllow(b))
         /\ Probing(b) => Ticket(b) = NoTicket /\ Probing(AfterAllow(b))
<1>1. Entered(b) \in Circuits /\ Ticket(b) \in {"normal", "probe", "none"}
  BY DEF Entered, Ticket, NoTicket, Circuits
<1>2. AfterAllow(b) \in Circuits
  BY <1>1 DEF AfterAllow, Circuits
<1>3. Ticket(b) = "probe" => Probing(AfterAllow(b))
  BY <1>1 DEF Ticket, NoTicket, Probing, AfterAllow, Circuits
<1>4. ASSUME Probing(b) PROVE Ticket(b) = NoTicket /\ Probing(AfterAllow(b))
  BY <1>4 DEF Ticket, NoTicket, Probing, AfterAllow, Entered, Circuits
<1> QED
  BY <1>1, <1>2, <1>3, <1>4

(* success, failure and cancel: while a probe is out only its own ticket   *)
(* changes anything.                                                       *)
LEMMA Reports ==
  ASSUME NEW b \in Circuits, NEW ticket \in {"normal", "probe", "none"}
  PROVE  /\ AfterSuccess(b, ticket) \in Circuits
         /\ AfterFailure(b, ticket) \in Circuits
         /\ AfterCancel(b, ticket) \in Circuits
         /\ Probing(b) /\ ticket # "probe" =>
              /\ AfterSuccess(b, ticket) = b
              /\ AfterFailure(b, ticket) = b
              /\ AfterCancel(b, ticket) = b
<1> USE DEF IsLiveProbe, IsLiveNormal
<1>1. AfterSuccess(b, ticket) \in Circuits /\ AfterCancel(b, ticket) \in Circuits
  BY DEF AfterSuccess, AfterCancel, Circuits
<1>2. \A c \in Circuits : Opened(c) \in Circuits
  BY DEF Opened, Circuits
<1>3. AfterFailure(b, ticket) \in Circuits
  <2> DEFINE counted == [b EXCEPT !.failures = b.failures + 1]
  <2>1. counted \in Circuits
    BY DEF Circuits
  <2>2. AfterFailure(b, ticket) \in {Opened(b), Opened(counted), counted, b}
    BY DEF AfterFailure
  <2> QED
    BY <1>2, <2>1, <2>2
<1>4. ASSUME Probing(b), ticket # "probe"
      PROVE  /\ AfterSuccess(b, ticket) = b
             /\ AfterFailure(b, ticket) = b
             /\ AfterCancel(b, ticket) = b
  BY <1>4 DEF Probing, AfterSuccess, AfterFailure, AfterCancel
<1> QED
  BY <1>1, <1>3, <1>4

\* No ticket for a test send of r is out.
NoProbe(r) == ~HoldsProbe(r) /\ \A f \in flights : f.relay = r => f.ticket # "probe"

(* A step that hands out no ticket keeps the probes if the circuit it      *)
(* leaves is probing still, or nobody has a probe of it any more.          *)
LEMMA ProbesDropped ==
  ASSUME ProbeInv, flights \subseteq Flights,
         \A s \in Relays : held'[s] \in {held[s], NoLease}, flights' \subseteq flights,
         NEW r \in Relays, NEW b \in Circuits, breaker' = [breaker EXCEPT ![r] = b],
         (Probing(breaker[r]) => Probing(b)) \/ NoProbe(r)'
  PROVE  ProbeInv'
<1>1. \A s \in Relays : HoldsProbe(s)' => HoldsProbe(s)
  BY DEF HoldsProbe
<1>2. breaker' \in [Relays -> Circuits] /\ breaker'[r] = b
      /\ \A s \in Relays \ {r} : breaker'[s] = breaker[s]
  BY DEF ProbeInv
<1>3. \A f \in flights' : f \in flights /\ f.relay \in Relays
  BY DEF Flights
<1>4. \A s \in Relays : HoldsProbe(s)' => Probing(breaker'[s])
  BY <1>1, <1>2 DEF ProbeInv, NoProbe
<1>5. ASSUME NEW f \in flights', f.ticket = "probe"
      PROVE  Probing(breaker'[f.relay]) /\ ~HoldsProbe(f.relay)'
  <2>1. f \in flights /\ f.relay \in Relays /\ Probing(breaker[f.relay]) /\ ~HoldsProbe(f.relay)
    BY <1>3, <1>5 DEF ProbeInv
  <2>2. ~HoldsProbe(f.relay)'
    BY <1>1, <2>1
  <2>3. CASE f.relay = r
    <3>1. ~NoProbe(r)'
      BY <1>5, <2>3 DEF NoProbe
    <3> QED
      BY <1>2, <2>1, <2>2, <2>3, <3>1
  <2>4. CASE f.relay # r
    BY <1>2, <2>1, <2>2, <2>4
  <2> QED
    BY <2>3, <2>4
<1>6. \A f, g \in flights' :
        f.relay = g.relay /\ f.ticket = "probe" /\ g.ticket = "probe" => f = g
  BY <1>3 DEF ProbeInv
<1> QED
  BY <1>2, <1>4, <1>5, <1>6 DEF ProbeInv, HoldsProbe

(* Every step keeps the probes.                                            *)
LEMMA ProbeNextInv ==
  ASSUME CoreInv, ProbeInv, [Relaying \/ Forwarding]_outboxVars
  PROVE  ProbeInv'
<1> USE DEF CoreInv, TypeInv
<1>1. ASSUME UNCHANGED <<breaker, held, flights>> PROVE ProbeInv'
  BY <1>1 DEF ProbeInv, HoldsProbe
<1>2. ASSUME NEW r \in Relays, WorkerActions(r) PROVE ProbeInv'
  <2> DEFINE b == breaker[r]
  <2>1. b \in Circuits
    BY DEF ProbeInv
  <2>2. ~Probing(b) => NoProbe(r)
    BY DEF ProbeInv, NoProbe
  <2>3. Ticket(b) # NoTicket => ~Probing(b)
    BY <2>1, Permits
  <2> HIDE DEF b
  <2>4. CASE Refused(r)
    <3>1. breaker' = [breaker EXCEPT ![r] = AfterAllow(b)] /\ UNCHANGED <<held, flights>>
      BY <2>4 DEF Refused, SetBreaker, b
    <3> QED
      <4>1. AfterAllow(b) \in Circuits /\ (Probing(b) => Probing(AfterAllow(b)))
        BY <2>1, Permits
      <4> QED
        BY <3>1, <4>1, ProbesDropped DEF b
  <2>5. CASE NothingDue(r)
    <3> DEFINE next == AfterCancel(AfterAllow(b), Ticket(b))
    <3>1. breaker' = [breaker EXCEPT ![r] = next] /\ UNCHANGED <<held, flights>>
      BY <2>5 DEF NothingDue, SetBreaker, b
    <3>2. next \in Circuits
      <4>1. AfterAllow(b) \in Circuits /\ Ticket(b) \in {"normal", "probe", "none"}
        BY <2>1, Permits
      <4> QED
        BY <4>1, Reports
    <3>3. NoProbe(r)'
      BY <2>2, <2>3, <2>5, <3>1 DEF NothingDue, Admits, b, NoProbe, HoldsProbe
    <3> QED
      BY <3>1, <3>2, <3>3, ProbesDropped
  <2>6. CASE QueueFull(r) \/ ProduceRaises(r)
    <3> DEFINE next == AfterCancel(b, held[r].ticket)
    <3>1. held[r] # NoLease /\ held[r].ticket \in Tickets
      BY <2>6 DEF QueueFull, ProduceRaises, HeldInv, Held
    <3>2. breaker' = [breaker EXCEPT ![r] = next]
          /\ held' = [held EXCEPT ![r] = NoLease] /\ flights' = flights
      BY <2>6 DEF QueueFull, ProduceRaises, GiveUp, DropRecord, SetBreaker, b
    <3>3. next \in Circuits /\ (held[r].ticket # "probe" /\ Probing(b) => next = b)
      <4>1. held[r].ticket \in {"normal", "probe", "none"}
        BY <3>1 DEF Tickets
      <4> HIDE DEF b
      <4> QED
        BY <2>1, <4>1, Reports
    <3>4. held[r].ticket = "probe" => NoProbe(r)'
      BY <3>1, <3>2 DEF NoProbe, HoldsProbe, ProbeInv
    <3> QED
      BY <3>2, <3>3, <3>4, ProbesDropped DEF b
  <2>7. ASSUME NEW f \in QueueOf(r), Serve(f) PROVE ProbeInv'
    <3>1. f \in flights /\ f.relay = r /\ f.ticket \in Tickets
      BY DEF QueueOf, Flights
    <3>2. /\ held' = held /\ flights' = flights \ {f}
          /\ \E next \in {b, AfterSuccess(b, f.ticket), AfterFailure(b, f.ticket),
                          AfterCancel(b, f.ticket)} : breaker' = [breaker EXCEPT ![r] = next]
      BY <2>7, <3>1 DEF Serve, Acked, Failed, SetBreaker, b
    <3>3. PICK next : /\ breaker' = [breaker EXCEPT ![r] = next] /\ next \in Circuits
                      /\ f.ticket # "probe" /\ Probing(b) => next = b
      <4>1. f.ticket \in {"normal", "probe", "none"}
        BY <3>1 DEF Tickets
      <4> QED
        BY <2>1, <3>2, <4>1, Reports
    <3>4. f.ticket = "probe" => NoProbe(r)'
      BY <3>1, <3>2 DEF NoProbe, HoldsProbe, ProbeInv
    <3> QED
      BY <3>2, <3>3, <3>4, ProbesDropped DEF b
  <2>8. CASE Crash(r) \/ Replace(r)
    <3>1. /\ breaker' = [breaker EXCEPT ![r] = ClosedBreaker]
          /\ held' = [held EXCEPT ![r] = NoLease] /\ flights' = flights \ QueueOf(r)
      BY <2>8 DEF Crash, Replace, FreshProcess, DropRecord, SetBreaker
    <3>2. NoProbe(r)' /\ ClosedBreaker \in Circuits
      BY <3>1 DEF NoProbe, HoldsProbe, QueueOf, ClosedBreaker, Circuits
    <3> QED
      BY <3>1, <3>2, ProbesDropped
  <2>9. CASE CoolDown(r)
    <3> DEFINE next == [b EXCEPT !.cooled = TRUE]
    <3>1. breaker' = [breaker EXCEPT ![r] = next] /\ UNCHANGED <<held, flights>>
      BY <2>9 DEF CoolDown, SetBreaker, b
    <3>2. next \in Circuits /\ ~Probing(b)
      BY <2>1, <2>9 DEF CoolDown, Circuits, Probing, b
    <3>3. NoProbe(r)'
      BY <2>2, <3>1, <3>2 DEF NoProbe, HoldsProbe
    <3> QED
      BY <3>1, <3>2, <3>3, ProbesDropped
  <2>10. CASE Claim(r)
    <3> DEFINE next == AfterAllow(b)
    <3>1. PICK e \in Events :
            held' = [held EXCEPT ![r] = [lease |-> ClaimedLease(e), ticket |-> Ticket(b)]]
      BY <2>10 DEF Claim, b
    <3>2. breaker' = [breaker EXCEPT ![r] = next] /\ flights' = flights
      BY <2>10 DEF Claim, SetBreaker, b
    <3>3. NoProbe(r)
      BY <2>2, <2>3, <2>10 DEF Claim, Admits, b
    <3>4. next \in Circuits /\ (Ticket(b) = "probe" => Probing(next))
      BY <2>1, Permits
    <3>5. HoldsProbe(r)' => Ticket(b) = "probe"
      BY <3>1 DEF HoldsProbe
    <3>6. \A s \in Relays \ {r} : HoldsProbe(s)' = HoldsProbe(s) /\ breaker'[s] = breaker[s]
      BY <3>1, <3>2 DEF HoldsProbe, ProbeInv
    <3>7. breaker' \in [Relays -> Circuits] /\ breaker'[r] = next
      BY <3>2, <3>4 DEF ProbeInv
    <3> HIDE DEF next
    <3>8. \A s \in Relays : HoldsProbe(s)' => Probing(breaker'[s])
      BY <3>4, <3>5, <3>6, <3>7 DEF ProbeInv
    <3>9. \A f \in flights : f.ticket = "probe" =>
            f.relay # r /\ Probing(breaker'[f.relay]) /\ ~HoldsProbe(f.relay)'
      <4> SUFFICES ASSUME NEW f \in flights, f.ticket = "probe"
                   PROVE  f.relay # r /\ Probing(breaker'[f.relay]) /\ ~HoldsProbe(f.relay)'
        OBVIOUS
      <4>1. f.relay \in Relays \ {r}
        BY <3>3 DEF NoProbe, Flights
      <4> QED
        BY <3>6, <4>1 DEF ProbeInv
    <3> QED
      BY <3>2, <3>7, <3>8, <3>9 DEF ProbeInv, HoldsProbe
  <2>11. CASE Produce(r)
    <3> DEFINE sent == [relay |-> r, lease |-> held[r].lease, ticket |-> held[r].ticket,
                        fate |-> "sent"]
    <3>1. held[r] # NoLease
      BY <2>11 DEF Produce, HeldInv
    <3>2. /\ flights' = flights \cup {sent} /\ breaker' = breaker
          /\ held' = [held EXCEPT ![r] = NoLease]
      BY <2>11 DEF Produce, DropRecord
    <3>3. sent.relay = r /\ sent.ticket = held[r].ticket
      OBVIOUS
    <3> HIDE DEF sent
    <3>4. ~HoldsProbe(r)' /\ \A s \in Relays : HoldsProbe(s)' => HoldsProbe(s)
      BY <3>2 DEF HoldsProbe
    <3>5. sent.ticket = "probe" => HoldsProbe(r)
      BY <3>1, <3>3 DEF HoldsProbe
    <3>6. \A f \in flights : f.relay \in Relays
      BY DEF Flights
    <3>7. \A f \in flights' : f.ticket = "probe" => Probing(breaker[f.relay]) /\ ~HoldsProbe(f.relay)'
      BY <3>2, <3>3, <3>4, <3>5, <3>6 DEF ProbeInv
    <3>8. \A f, g \in flights' :
            f.relay = g.relay /\ f.ticket = "probe" /\ g.ticket = "probe" => f = g
      BY <3>2, <3>3, <3>5 DEF ProbeInv
    <3> QED
      BY <3>2, <3>4, <3>7, <3>8 DEF ProbeInv, HoldsProbe
  <2>12. ASSUME NEW f \in QueueOf(r), Decide(f) PROVE ProbeInv'
    <3>1. PICK fate \in {"acked", "failed"} : BrokerDecides(f, fate)
      BY <2>12 DEF Decide
    <3> DEFINE decided == [f EXCEPT !.fate = fate]
    <3>2. decided.relay = f.relay /\ decided.ticket = f.ticket /\ f \in flights
      BY DEF QueueOf, Flights
    <3>3. flights' = (flights \ {f}) \cup {decided} /\ UNCHANGED <<breaker, held>>
      BY <3>1 DEF BrokerDecides
    <3> HIDE DEF decided
    <3> QED
      BY <3>2, <3>3 DEF ProbeInv, HoldsProbe
  <2>13. CASE Sweep(r) \/ Close(r)
    BY <1>1, <2>13 DEF Sweep, Close
  <2> QED
    BY <1>2, <2>4, <2>5, <2>6, <2>7, <2>8, <2>9, <2>10, <2>11, <2>12, <2>13
    DEF WorkerActions, RelayStep
<1>3. ASSUME NEW e \in Events, EventActions(e) PROVE ProbeInv'
  BY <1>1, <1>3 DEF EventActions, OrderAccepted, ClockTicks, OperatorReplays, relayVars
<1>4. CASE Forwarding \/ UNCHANGED outboxVars
  BY <1>1, <1>4 DEF Forwarding, outboxVars, relayVars
<1> QED
  BY <1>2, <1>3, <1>4 DEF Relaying, RelayNext

(* A HALF_OPEN circuit has at most one test send out, whatever the crashes *)
(* and stale reports of earlier periods.                                   *)
THEOREM ProbeIsSingle == OutboxSpec => []OneProbe
<1>1. Start => ProbeInv
  BY DEF Start, RelayInit, ProbeInv, Circuits, ClosedBreaker, HoldsProbe
<1>2. OutboxInv /\ ProbeInv /\ [Relaying \/ Forwarding]_outboxVars => ProbeInv'
  BY ProbeNextInv DEF OutboxInv
<1>3. ProbeInv => OneProbe
  BY DEF ProbeInv, OneProbe, OutstandingProbes, QueueOf, HoldsProbe
<1> QED
  BY <1>1, <1>2, <1>3, OutboxSafe, PTL DEF OutboxSpec

=============================================================================
