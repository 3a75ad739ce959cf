---------------------------- MODULE SQLiteOutbox ----------------------------
(***************************************************************************)
(* The transactional outbox: one database row per event, written in the    *)
(* transaction of its order.  Every method opens one connection and runs   *)
(* one transaction, so each is one step on the rows.                       *)
(*                                                                         *)
(* Time is one Boolean per row, ripe: the deadline the row's status goes   *)
(* by has passed (next_attempt_at while pending, lease_until while         *)
(* leased).  The rows a query orders by next_attempt_at are therefore in   *)
(* any order, and claim_due takes any one that matches.                    *)
(*                                                                         *)
(* Two counters have a bound the code has not: MaxRequeues replays of an   *)
(* event by the operator, and AttemptBound for the attempts column, which  *)
(* a lease that runs out between quarantine_expired and claim_due drives   *)
(* past MaxAttempts.                                                       *)
(***************************************************************************)
EXTENDS Naturals

CONSTANTS
  Events,        (* event identifiers (uuid4 of create_order)        *)
  Tokens,        (* lease tokens (uuid4 of claim_due)                *)
  NoToken,       (* lease_token IS NULL                              *)
  MaxAttempts,   (* RetryPolicy.max_attempts                         *)
  AttemptBound,  (* bound on the attempts column                     *)
  MaxRequeues    (* bound on requeue_dead_letter per event           *)

ASSUME OutboxAssumption ==
  /\ NoToken \notin Tokens
  /\ MaxAttempts \in Nat \ {0}
  /\ AttemptBound \in Nat /\ AttemptBound > MaxAttempts
  /\ MaxRequeues \in Nat

VARIABLE row     (* the table: a row for each event, "absent" before create_order *)

Statuses == {"absent", "pending", "leased", "delivered", "dead_letter"}

\* round counts the operator's replays of the event: no column, but what a
\* reader of two rows with the same event_id would want to know.
Rows == [status: Statuses, attempts: 0 .. AttemptBound, ripe: BOOLEAN,
         token: Tokens \cup {NoToken}, dlqPublished: BOOLEAN,
         round: 0 .. MaxRequeues]

\* OutboxRecord: what a claim hands to the relay, by value.
Leases == [event: Events, token: Tokens, attempts: 1 .. AttemptBound,
           round: 0 .. MaxRequeues]

OutboxInit ==
  row = [e \in Events |->
           [status |-> "absent", attempts |-> 0, ripe |-> FALSE, token |-> NoToken,
            dlqPublished |-> FALSE, round |-> 0]]

\* Every UPDATE that ends a lease clears its token and its deadline.
Unleased(r, status) ==
  [r EXCEPT !.status = status, !.token = NoToken, !.ripe = FALSE]

-----------------------------------------------------------------------------
\* create_order: the row is due at once.
CreateOrder(e) ==
  /\ row[e].status = "absent"
  /\ row' = [row EXCEPT ![e].status = "pending", ![e].ripe = TRUE]

\* The clock passes next_attempt_at or lease_until.
DeadlinePasses(e) ==
  /\ row[e].status \in {"pending", "leased"} /\ ~row[e].ripe
  /\ row' = [row EXCEPT ![e].ripe = TRUE]

\* quarantine_expired: one UPDATE over the whole table.
Exhausted(e) ==
  row[e].status = "leased" /\ row[e].ripe /\ row[e].attempts >= MaxAttempts

QuarantineExpired ==
  row' = [e \in Events |->
            IF Exhausted(e) THEN Unleased(row[e], "dead_letter") ELSE row[e]]

\* Mutant: a lease that ran out is not reclaimed.
ClaimablePendingOnly(e) ==
  row[e].status = "pending" /\ row[e].ripe /\ row[e].attempts < AttemptBound

\* claim_due: a due row or an expired lease, whatever its attempts.
Claimable(e) ==
  /\ row[e].status \in {"pending", "leased"} /\ row[e].ripe
  /\ row[e].attempts < AttemptBound

\* Mutant: the lease is renewed and its token kept.
ClaimDueSameToken(e, t) ==
  /\ Claimable(e)
  /\ row' = [row EXCEPT ![e].status = "leased", ![e].ripe = FALSE,
                        ![e].attempts = @ + 1,
                        ![e].token = IF @ = NoToken THEN t ELSE @]

ClaimDue(e, t) ==
  /\ Claimable(e)
  /\ row' = [row EXCEPT ![e].status = "leased", ![e].ripe = FALSE,
                        ![e].attempts = @ + 1, ![e].token = t]

ClaimedLease(e) ==
  [event |-> e, token |-> row'[e].token, attempts |-> row'[e].attempts,
   round |-> row[e].round]

-----------------------------------------------------------------------------
(***************************************************************************)
(* The three UPDATEs a lease's holder runs.  WHERE status='leased' AND     *)
(* lease_token=? makes each of them a no-op for a holder that has lost the *)
(* row, whatever the row has become since.                                 *)
(***************************************************************************)
\* Mutant: any leased row of the event will do.
HoldsAnyLease(l) == row[l.event].status = "leased"

Holds(l) == row[l.event].status = "leased" /\ row[l.event].token = l.token

\* Mutant: by event_id alone, whatever became of the row.
EndLeaseUnchecked(l, r) == row' = [row EXCEPT ![l.event] = r]

EndLease(l, r) ==
  row' = IF Holds(l) THEN [row EXCEPT ![l.event] = r] ELSE row

MarkDelivered(l) == EndLease(l, Unleased(row[l.event], "delivered"))

AfterFailedSend(l, retryable) ==
  IF ~retryable \/ l.attempts >= MaxAttempts THEN "dead_letter" ELSE "pending"

MarkFailure(l, retryable) ==
  EndLease(l, Unleased(row[l.event], AfterFailedSend(l, retryable)))

\* Mutant: by event_id alone, so a stale holder takes back another's attempt.
ReleaseUnsentUnchecked(l) ==
  IF row[l.event].status = "leased"
  THEN row' = [row EXCEPT ![l.event] =
                [Unleased(row[l.event], "pending") EXCEPT !.attempts = @ - 1]]
  ELSE UNCHANGED row

\* release_unsent: the attempt that was never accepted is taken back.
ReleaseUnsent(l) ==
  EndLease(l, [Unleased(row[l.event], "pending") EXCEPT !.attempts = @ - 1])

-----------------------------------------------------------------------------
\* pending_dead_letters, mark_dlq_published and the operator's replay.
PendingDeadLetters ==
  {e \in Events : row[e].status = "dead_letter" /\ ~row[e].dlqPublished}

MarkDlqPublished(e) ==
  row' = IF row[e].status = "dead_letter"
         THEN [row EXCEPT ![e].dlqPublished = TRUE] ELSE row

RequeueDeadLetter(e) ==
  /\ row[e].status = "dead_letter" /\ row[e].round < MaxRequeues
  /\ row' = [row EXCEPT ![e].status = "pending", ![e].attempts = 0, ![e].ripe = TRUE,
                        ![e].dlqPublished = FALSE, ![e].round = @ + 1]

=============================================================================
