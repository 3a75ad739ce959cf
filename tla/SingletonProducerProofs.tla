----------------------- MODULE SingletonProducerProofs -----------------------
(***************************************************************************)
(* SingletonProducer for any number of threads, retries and backends: what *)
(* send_with_retry() says of a call is true of its messages, plain retries *)
(* never duplicate, and an unhealthy producer takes no new send.           *)
(***************************************************************************)
EXTENDS SingletonProducer, FiniteSetTheorems, TLAPS

(* Has attempt n of call c put its message into the client?                *)
Sent(c, n) == fate[<<c, n>>] # "absent"

Untouched(c) == \A n \in AttemptNumbers : ~Sent(c, n)

(***************************************************************************)
(* The inductive invariant.  A call in confirmation mode may leave copies  *)
(* behind; a plain one only if the producer was shut down under its poll,  *)
(* and then it finds nothing to produce with any more.                     *)
(***************************************************************************)
CallInv(c) ==
  /\ verdict[c] # "none" => at[c] = "done"
  /\ at[c] = "idle" => Untouched(c)
  /\ \A n \in AttemptNumbers : n > attempt[c] => ~Sent(c, n)
  /\ at[c] \in {"guard", "producing", "rejected", "backoff"} => ~Sent(c, attempt[c])
  /\ at[c] \in {"polling", "awaiting"} \/ verdict[c] = "success" => Sent(c, attempt[c])
  /\ at[c] = "polling" => c \notin Confirming
  /\ at[c] = "awaiting" => c \in Confirming

PlainInv(c) ==
  /\ \A i, j \in AttemptNumbers : Sent(c, i) /\ Sent(c, j) => i = j
  /\ ~Detached /\ at[c] # "polling" /\ verdict[c] # "success" => Untouched(c)

OneCall(c) ==
  /\ CallInv(c)
  /\ c \notin Confirming => PlainInv(c)
  /\ c \in Confirming /\ verdict[c] = "success" => fate[Message(c)] = "delivered"

CallsInv == \A c \in Calls : OneCall(c)

SingletonInv == TypeOK /\ CallsInv

-----------------------------------------------------------------------------
(* Before the first call.                                                  *)
LEMMA SingletonInitInv == Init => SingletonInv
<1> SUFFICES ASSUME Init PROVE SingletonInv
  OBVIOUS
<1>1. TypeOK
  <2>1. healthy \in BOOLEAN /\ flushing \in BOOLEAN /\ expired \in [Calls -> BOOLEAN]
    BY DEF Init
  <2>2. ClientTypeOK
    BY DEF Init, ClientInit, ClientTypeOK, Fate
  <2>3. at \in [Calls -> Place] /\ verdict \in [Calls -> RetryResult]
    BY DEF Init, Place, RetryResult
  <2>4. attempt \in [Calls -> AttemptNumbers]
    BY SingletonAssumption DEF Init, AttemptNumbers
  <2>5. /\ messagesSent \in Nat /\ errorCount \in Nat
        /\ producer \in {"attached", "flushing", "None"} /\ backend \in Backends
    BY DEF Init, DefaultProducerFactory
  <2> QED
    BY <2>1, <2>2, <2>3, <2>4, <2>5 DEF TypeOK
<1>2. ASSUME NEW c \in Calls PROVE OneCall(c)
  <2>1. /\ at[c] = "idle" /\ verdict[c] = "none" /\ attempt[c] = 1
        /\ 1 \in AttemptNumbers
    BY SingletonAssumption DEF Init, AttemptNumbers
  <2>2. \A n \in AttemptNumbers : ~Sent(c, n)
    BY DEF Init, ClientInit, Sent, Attempts
  <2> QED
    BY <2>1, <2>2 DEF OneCall, CallInv, PlainInv, Untouched
<1> QED
  BY <1>1, <1>2 DEF SingletonInv, CallsInv

-----------------------------------------------------------------------------
(* What a step does to the messages of a call                              *)

(* The messages of two calls are different ones.                           *)
LEMMA MessagesDiffer ==
  ASSUME NEW c \in Calls, NEW n \in AttemptNumbers
  PROVE  /\ <<c, n>> \in Attempts
         /\ \A d \in Calls, k \in AttemptNumbers : <<c, n>> = <<d, k>> <=> c = d /\ n = k
BY DEF Attempts

(* Reports and the broker's answers move a message that was sent, so what  *)
(* has been sent stays the same, and a delivered message stays delivered.  *)
LEMMA OldNews ==
  ASSUME TypeOK, NEW m \in Attempts, Serve(m) \/ Acknowledge(m) \/ Refuse(m)
  PROVE  /\ ClientTypeOK'
         /\ \A c \in Calls, n \in AttemptNumbers :
              /\ Sent(c, n)' <=> Sent(c, n)
              /\ fate[<<c, n>>] = "delivered" => fate'[<<c, n>>] = "delivered"
<1>1. PICK f \in Fate : f # "absent" /\ fate' = [fate EXCEPT ![m] = f]
  BY DEF Serve, Acknowledge, Refuse, Fate, Pending
<1>2. fate[m] \notin {"absent", "delivered"}
  BY DEF Serve, Acknowledge, Refuse
<1>3. fate \in [Attempts -> Fate]
  BY DEF TypeOK, ClientTypeOK
<1>4. ClientTypeOK'
  BY <1>1, <1>3 DEF ClientTypeOK
<1>5. ASSUME NEW c \in Calls, NEW n \in AttemptNumbers
      PROVE  /\ Sent(c, n)' <=> Sent(c, n)
             /\ fate[<<c, n>>] = "delivered" => fate'[<<c, n>>] = "delivered"
  <2>1. <<c, n>> \in Attempts
    BY <1>5, MessagesDiffer
  <2> HIDE <1>5
  <2> QED
    BY <1>1, <1>2, <1>3, <2>1 DEF Sent
<1> QED
  BY <1>4, <1>5

(* What a step leaves of a call that it is not about.                      *)
LeavesAlone(c) ==
  /\ at'[c] = at[c] /\ attempt'[c] = attempt[c] /\ verdict'[c] = verdict[c]
  /\ Detached => Detached'
  /\ \A n \in AttemptNumbers :
       /\ Sent(c, n)' <=> Sent(c, n)
       /\ fate[<<c, n>>] = "delivered" => fate'[<<c, n>>] = "delivered"

LEMMA LeftAlone ==
  ASSUME TypeOK, NEW c \in Calls, OneCall(c), LeavesAlone(c)
  PROVE  OneCall(c)'
<1>1. /\ attempt[c] \in AttemptNumbers /\ attempt'[c] = attempt[c]
      /\ at'[c] = at[c] /\ verdict'[c] = verdict[c]
      /\ \A n \in AttemptNumbers : Sent(c, n)' <=> Sent(c, n)
  BY DEF TypeOK, LeavesAlone
<1>2. CallInv(c)'
  <2>1. CallInv(c)
    BY DEF OneCall
  <2> QED
    BY <1>1, <2>1 DEF CallInv, Untouched
<1>3. c \notin Confirming => PlainInv(c)'
  <2>1. c \notin Confirming => PlainInv(c)
    BY DEF OneCall
  <2>2. Detached => Detached'
    BY DEF LeavesAlone
  <2> QED
    BY <1>1, <2>1, <2>2 DEF PlainInv, Untouched
<1>4. c \in Confirming /\ verdict'[c] = "success" => fate'[<<c, attempt'[c]>>] = "delivered"
  BY <1>1 DEF OneCall, Message, LeavesAlone
<1> QED
  BY <1>2, <1>3, <1>4 DEF OneCall, Message

-----------------------------------------------------------------------------
(* The steps of a call                                                     *)

(* A step of one call is none of another's.                                *)
LEMMA CallsApart ==
  ASSUME TypeOK, CallsInv, NEW c \in Calls, OneCall(c)',
         \A d \in Calls \ {c} : LeavesAlone(d)
  PROVE  CallsInv'
<1>1. ASSUME NEW d \in Calls \ {c} PROVE OneCall(d)'
  BY LeftAlone DEF CallsInv
<1> QED
  BY <1>1 DEF CallsInv

(* A step that only moves call c, and perhaps closes it.                   *)
Moves(c, place, result) ==
  /\ at' = [at EXCEPT ![c] = place]
  /\ verdict' = [verdict EXCEPT ![c] = result]
  /\ UNCHANGED <<backend, fate, attempt, expired, health, flushing, producer>>

LEMMA MoveKeepsRest ==
  ASSUME TypeOK, NEW c \in Calls, NEW place \in Place, NEW result \in RetryResult,
         Moves(c, place, result)
  PROVE  /\ TypeOK'
         /\ \A d \in Calls \ {c} : LeavesAlone(d)
         /\ at'[c] = place /\ verdict'[c] = result
<1>1. at \in [Calls -> Place] /\ verdict \in [Calls -> RetryResult]
  BY DEF TypeOK
<1>2. at' \in [Calls -> Place] /\ verdict' \in [Calls -> RetryResult]
  BY <1>1 DEF Moves
<1>3. UNCHANGED <<backend, fate, attempt, expired, healthy, messagesSent, errorCount,
                  flushing, producer>>
  BY DEF Moves, health
<1>4. TypeOK'
  BY <1>2, <1>3 DEF TypeOK, ClientTypeOK
<1>5. \A d \in Calls \ {c} : LeavesAlone(d)
  BY <1>1, <1>3 DEF Moves, LeavesAlone, Sent, Detached
<1> QED
  BY <1>1, <1>4, <1>5 DEF Moves

(* Where a move may go, given what the call has sent.                      *)
LEMMA MoveIsSound ==
  ASSUME TypeOK, CallsInv, NEW c \in Calls, NEW place \in Place, NEW result \in RetryResult,
         Moves(c, place, result),
         result # "none" => place = "done",
         place \notin {"idle", "polling", "awaiting"},
         place \in {"guard", "producing", "rejected", "backoff"} => ~Sent(c, attempt[c]),
         result = "success" =>
           /\ Sent(c, attempt[c])
           /\ c \in Confirming => fate[Message(c)] = "delivered",
         result # "success" /\ ~Detached /\ c \notin Confirming => Untouched(c)
  PROVE  TypeOK' /\ CallsInv'
<1>1. at'[c] = place /\ verdict'[c] = result /\ TypeOK'
  BY MoveKeepsRest
<1>2. fate' = fate /\ attempt' = attempt /\ producer' = producer
  BY DEF Moves
<1>3. OneCall(c)
  BY DEF CallsInv
<1>4. CallInv(c)'
  BY <1>1, <1>2, <1>3 DEF OneCall, CallInv, Untouched, Sent
<1>5. c \notin Confirming => PlainInv(c)'
  BY <1>1, <1>2, <1>3 DEF OneCall, PlainInv, Untouched, Sent, Detached
<1>6. (c \in Confirming /\ verdict[c] = "success" => fate[Message(c)] = "delivered")'
  BY <1>1, <1>2 DEF Message
<1>7. OneCall(c)'
  BY <1>4, <1>5, <1>6 DEF OneCall
<1> QED
  BY <1>1, <1>7, MoveKeepsRest, CallsApart

(* A step that leaves the verdict alone moves the call with the old one.   *)
LEMMA PlainMove ==
  ASSUME TypeOK, NEW c \in Calls, NEW place, Goto(c, place),
         UNCHANGED <<backend, fate, attempt, expired, verdict, health, flushing, producer>>
  PROVE  Moves(c, place, verdict[c]) /\ verdict[c] \in RetryResult
<1>1. verdict \in [Calls -> RetryResult]
  BY DEF TypeOK
<1>2. verdict' = [verdict EXCEPT ![c] = verdict[c]]
  BY <1>1
<1> QED
  BY <1>1, <1>2 DEF Moves, Goto

(* A call that is under way has no verdict yet.                            *)
LEMMA Undecided ==
  ASSUME CallsInv, NEW c \in Calls, at[c] # "done"
  PROVE  verdict[c] = "none"
BY DEF CallsInv, OneCall, CallInv

LEMMA HealthGuardStep ==
  ASSUME TypeOK, CallsInv, NEW c \in Calls, HealthGuard(c)
  PROVE  TypeOK' /\ CallsInv'
<1>1. PICK place \in {"producing", "rejected"} : Goto(c, place)
  BY DEF HealthGuard
<1>2. Moves(c, place, verdict[c]) /\ verdict[c] \in RetryResult
  BY <1>1, PlainMove DEF HealthGuard
<1>3. at[c] = "guard" /\ verdict[c] = "none"
  BY Undecided DEF HealthGuard
<1>4. ~Sent(c, attempt[c]) /\ (~Detached /\ c \notin Confirming => Untouched(c))
  BY <1>3 DEF CallsInv, OneCall, CallInv, PlainInv
<1> QED
  BY <1>1, <1>2, <1>3, <1>4, MoveIsSound DEF Place

LEMMA ProduceFailsStep ==
  ASSUME TypeOK, CallsInv, NEW c \in Calls, ProduceFails(c)
  PROVE  TypeOK' /\ CallsInv'
<1>1. Moves(c, "rejected", verdict[c]) /\ verdict[c] \in RetryResult
  BY PlainMove DEF ProduceFails
<1>2. at[c] = "producing" /\ verdict[c] = "none"
  BY Undecided DEF ProduceFails
<1>3. ~Sent(c, attempt[c]) /\ (~Detached /\ c \notin Confirming => Untouched(c))
  BY <1>2 DEF CallsInv, OneCall, CallInv, PlainInv
<1> QED
  BY <1>1, <1>2, <1>3, MoveIsSound DEF Place

LEMMA UnsendableStep ==
  ASSUME TypeOK, CallsInv, NEW c \in Calls, Unsendable(c)
  PROVE  TypeOK' /\ CallsInv'
<1>1. PICK place \in {"done", "raised"}, result \in {"none", "failure"} :
        Moves(c, place, result) /\ (result # "none" => place = "done")
  <2>1. CASE Goto(c, "done") /\ verdict' = [verdict EXCEPT ![c] = "failure"]
    BY <2>1 DEF Unsendable, Moves, Goto
  <2>2. CASE Goto(c, "raised") /\ UNCHANGED verdict
    <3>1. Moves(c, "raised", verdict[c])
      BY <2>2, PlainMove DEF Unsendable
    <3>2. verdict[c] = "none"
      BY Undecided DEF Unsendable
    <3> QED
      BY <3>1, <3>2
  <2> QED
    BY <2>1, <2>2 DEF Unsendable
<1>2. at[c] = "producing"
  BY DEF Unsendable
<1>3. ~Sent(c, attempt[c]) /\ (~Detached /\ c \notin Confirming => Untouched(c))
  BY <1>2, Undecided DEF CallsInv, OneCall, CallInv, PlainInv
<1> QED
  BY <1>1, <1>3, MoveIsSound DEF Place, RetryResult

(* A call that succeeds, or raises, after its message was sent.            *)
LEMMA PollReturnsStep ==
  ASSUME TypeOK, CallsInv, NEW c \in Calls, PollReturns(c)
  PROVE  TypeOK' /\ CallsInv'
<1>1. at[c] = "polling" /\ verdict[c] = "none"
  BY Undecided DEF PollReturns
<1>2. Sent(c, attempt[c]) /\ c \notin Confirming
  BY <1>1 DEF CallsInv, OneCall, CallInv
<1>3. CASE Detached
  <2>1. Moves(c, "raised", verdict[c]) /\ verdict[c] \in RetryResult
    BY <1>3, PlainMove DEF PollReturns
  <2> QED
    BY <1>1, <1>2, <1>3, <2>1, MoveIsSound DEF Place
<1>4. CASE ~Detached
  <2>1. Moves(c, "done", "success")
    BY <1>4 DEF PollReturns, Succeed, Moves, Goto
  <2> QED
    BY <1>1, <1>2, <2>1, MoveIsSound DEF Place, RetryResult
<1> QED
  BY <1>3, <1>4

LEMMA ConfirmationStep ==
  ASSUME TypeOK, CallsInv, NEW c \in Calls, ConfirmationArrives(c) \/ ConfirmationFails(c)
  PROVE  TypeOK' /\ CallsInv'
<1>1. at[c] = "awaiting" /\ verdict[c] = "none"
  BY Undecided DEF ConfirmationArrives, ConfirmationFails
<1>2. Sent(c, attempt[c]) /\ c \in Confirming
  BY <1>1 DEF CallsInv, OneCall, CallInv
<1>3. CASE Moves(c, "raised", verdict[c]) /\ verdict[c] \in RetryResult
  BY <1>1, <1>2, <1>3, MoveIsSound DEF Place
<1>4. CASE Moves(c, "done", "success") /\ fate[Message(c)] = "delivered"
  BY <1>1, <1>2, <1>4, MoveIsSound DEF Place, RetryResult
<1>5. \/ Goto(c, "raised") /\ UNCHANGED <<backend, fate, attempt, expired, verdict, health,
                                          flushing, producer>>
      \/ Moves(c, "done", "success") /\ fate[Message(c)] = "delivered"
  BY DEF ConfirmationArrives, ConfirmationFails, Succeed, Moves, Goto
<1> QED
  BY <1>3, <1>4, <1>5, PlainMove

LEMMA AfterRejectionStep ==
  ASSUME TypeOK, CallsInv, NEW c \in Calls, AfterRejection(c)
  PROVE  TypeOK' /\ CallsInv'
<1>1. at[c] = "rejected" /\ verdict[c] = "none"
  BY Undecided DEF AfterRejection
<1>2. ~Sent(c, attempt[c]) /\ (~Detached /\ c \notin Confirming => Untouched(c))
  BY <1>1 DEF CallsInv, OneCall, CallInv, PlainInv
<1>3. CASE Moves(c, "backoff", verdict[c]) /\ verdict[c] \in RetryResult
  BY <1>1, <1>2, <1>3, MoveIsSound DEF Place
<1>4. CASE Moves(c, "done", "failure")
  BY <1>2, <1>4, MoveIsSound DEF Place, RetryResult
<1>5. CASE Goto(c, "backoff") /\ UNCHANGED verdict
  BY <1>3, <1>5, PlainMove DEF AfterRejection
<1>6. CASE Goto(c, "done") /\ verdict' = [verdict EXCEPT ![c] = "failure"]
  BY <1>4, <1>6 DEF AfterRejection, Moves, Goto
<1> QED
  BY <1>5, <1>6 DEF AfterRejection

(* An attempt that raised may have been sent, if it was confirmed or the   *)
(* producer is gone; the next one has not been.                            *)
LEMMA BackoffStep ==
  ASSUME TypeOK, CallsInv, NEW c \in Calls, Backoff(c)
  PROVE  TypeOK' /\ CallsInv'
<1>1. at[c] \in {"backoff", "raised"} /\ verdict[c] = "none"
  BY Undecided DEF Backoff
<1>2. ~Detached /\ c \notin Confirming => Untouched(c)
  BY <1>1 DEF CallsInv, OneCall, PlainInv
<1>3. CASE attempt[c] > MaxRetries
  <2>1. Moves(c, "done", "failure")
    <3>1. ~(attempt[c] <= MaxRetries)
      BY <1>3, SingletonAssumption DEF TypeOK, AttemptNumbers
    <3> QED
      BY <3>1 DEF Backoff, Moves, Goto
  <2> QED
    BY <1>2, <2>1, MoveIsSound DEF Place, RetryResult
<1>4. CASE attempt[c] <= MaxRetries
  <2>1. /\ Goto(c, "guard") /\ attempt' = [attempt EXCEPT ![c] = @ + 1]
        /\ expired' = [expired EXCEPT ![c] = FALSE]
        /\ UNCHANGED <<verdict, fate, healthy, messagesSent, errorCount, flushing,
                       producer, backend>>
    BY <1>4 DEF Backoff, health
  <2>2. /\ at \in [Calls -> Place] /\ attempt \in [Calls -> AttemptNumbers]
        /\ expired \in [Calls -> BOOLEAN]
    BY DEF TypeOK
  <2>3. attempt[c] \in AttemptNumbers /\ attempt[c] + 1 \in AttemptNumbers
        /\ attempt[c] + 1 > attempt[c]
    BY <1>4, <2>2, SingletonAssumption DEF AttemptNumbers
  <2>4. TypeOK'
    <3>1. expired' \in [Calls -> BOOLEAN]
      BY <2>1, <2>2
    <3>2. at' \in [Calls -> Place] /\ attempt' \in [Calls -> AttemptNumbers]
      BY <2>1, <2>2, <2>3 DEF Goto, Place
    <3> QED
      BY <2>1, <3>1, <3>2 DEF TypeOK, ClientTypeOK
  <2>5. \A d \in Calls \ {c} : LeavesAlone(d)
    BY <2>1, <2>2 DEF LeavesAlone, Goto, Sent, Detached
  <2>6. at'[c] = "guard" /\ attempt'[c] = attempt[c] + 1 /\ verdict'[c] = "none"
    BY <1>1, <2>1, <2>2 DEF Goto
  <2>7. CallInv(c)'
    <3>1. \A n \in AttemptNumbers : n > attempt[c] => ~Sent(c, n)
      BY DEF CallsInv, OneCall, CallInv
    <3>2. \A n \in AttemptNumbers : n > attempt'[c] => n > attempt[c]
      BY <2>3, <2>6, SingletonAssumption DEF AttemptNumbers
    <3>3. ~Sent(c, attempt'[c])
      BY <2>3, <2>6, <3>1
    <3> QED
      BY <2>1, <2>6, <3>1, <3>2, <3>3 DEF CallInv, Sent
  <2>8. c \notin Confirming => PlainInv(c)'
    BY <1>1, <1>2, <2>1, <2>6 DEF CallsInv, OneCall, PlainInv, Untouched, Sent, Detached
  <2>9. OneCall(c)'
    BY <2>6, <2>7, <2>8 DEF OneCall
  <2> QED
    BY <2>4, <2>5, <2>9, CallsApart
<1> QED
  BY <1>3, <1>4, SingletonAssumption DEF TypeOK, AttemptNumbers

(* A call begins with none of its messages sent.                           *)
LEMMA BeginStep ==
  ASSUME TypeOK, CallsInv, NEW c \in Calls, Begin(c)
  PROVE  TypeOK' /\ CallsInv'
<1>1. Untouched(c)
  BY DEF Begin, CallsInv, OneCall, CallInv, Untouched, Sent
<1>2. /\ Goto(c, "guard") /\ attempt' = [attempt EXCEPT ![c] = 1]
      /\ expired' = [expired EXCEPT ![c] = FALSE]
      /\ verdict' = [verdict EXCEPT ![c] = "none"]
      /\ UNCHANGED <<fate, healthy, messagesSent, errorCount, flushing, producer, backend>>
  BY DEF Begin, health
<1>3. /\ at \in [Calls -> Place] /\ attempt \in [Calls -> AttemptNumbers]
      /\ expired \in [Calls -> BOOLEAN] /\ verdict \in [Calls -> RetryResult]
  BY DEF TypeOK
<1>4. 1 \in AttemptNumbers
  BY SingletonAssumption DEF AttemptNumbers
<1>5. TypeOK'
  <2>1. expired' \in [Calls -> BOOLEAN]
    BY <1>2, <1>3
  <2>2. /\ at' \in [Calls -> Place] /\ attempt' \in [Calls -> AttemptNumbers]
        /\ verdict' \in [Calls -> RetryResult]
    BY <1>2, <1>3, <1>4 DEF Goto, Place, RetryResult
  <2> QED
    BY <1>2, <2>1, <2>2 DEF TypeOK, ClientTypeOK
<1>6. \A d \in Calls \ {c} : LeavesAlone(d)
  BY <1>2, <1>3 DEF LeavesAlone, Goto, Sent, Detached
<1>7. at'[c] = "guard" /\ attempt'[c] = 1 /\ verdict'[c] = "none" /\ Untouched(c)'
  BY <1>1, <1>2, <1>3 DEF Goto, Untouched, Sent
<1>8. OneCall(c)'
  BY <1>4, <1>7 DEF OneCall, CallInv, PlainInv, Untouched
<1> QED
  BY <1>5, <1>6, <1>8, CallsApart

(* An attempt sends its own message, and that of a plain call is then the  *)
(* only one: nothing was sent before.                                      *)
LEMMA ProduceStep ==
  ASSUME TypeOK, CallsInv, NEW c \in Calls, Produce(c)
  PROVE  TypeOK' /\ CallsInv'
<1> DEFINE k == attempt[c]
           place == IF c \in Confirming THEN "awaiting" ELSE "polling"
<1>1. /\ at[c] = "producing" /\ verdict[c] = "none" /\ ~Detached
      /\ fate' = [fate EXCEPT ![<<c, k>>] = "queued"]
      /\ at' = [at EXCEPT ![c] = place]
      /\ UNCHANGED <<attempt, expired, verdict, healthy, messagesSent, errorCount, flushing,
                     producer, backend>>
  BY Undecided DEF Produce, Accept, Message, Goto, health
<1>2. /\ at \in [Calls -> Place] /\ k \in AttemptNumbers /\ fate \in [Attempts -> Fate]
  BY DEF TypeOK, ClientTypeOK
<1>3. place \in {"awaiting", "polling"} /\ (place = "awaiting" <=> c \in Confirming)
  OBVIOUS
<1> HIDE DEF place
<1>4. \A d \in Calls, n \in AttemptNumbers :
        fate'[<<d, n>>] = IF d = c /\ n = k THEN "queued" ELSE fate[<<d, n>>]
  <2>1. TAKE d \in Calls, n \in AttemptNumbers
  <2>2. <<d, n>> \in Attempts /\ (<<d, n>> = <<c, k>> <=> d = c /\ n = k)
    BY DEF Attempts
  <2> QED
    BY <1>1, <1>2, <2>2
<1>5. TypeOK'
  <2>1. fate' \in [Attempts -> Fate] /\ at' \in [Calls -> Place]
    BY <1>1, <1>2, <1>3 DEF Fate, Pending, Place
  <2> QED
    BY <1>1, <2>1 DEF TypeOK, ClientTypeOK
<1>6. \A d \in Calls \ {c} : LeavesAlone(d)
  BY <1>1, <1>2, <1>4 DEF LeavesAlone, Sent, Detached
<1>7. \A n \in AttemptNumbers : Sent(c, n)' <=> n = k \/ Sent(c, n)
  BY <1>4 DEF Sent
<1>8. at'[c] = place /\ attempt'[c] = k /\ verdict'[c] = "none"
  BY <1>1, <1>2
<1>9. CallInv(c)'
  <2>1. \A n \in AttemptNumbers : n > k => n # k /\ ~Sent(c, n)
    <3>1. \A n \in AttemptNumbers : n > k => n # k
      BY <1>2, SingletonAssumption DEF AttemptNumbers
    <3> QED
      BY <3>1 DEF CallsInv, OneCall, CallInv
  <2>2. \A n \in AttemptNumbers : n > k => ~(Sent(c, n)')
    BY <1>7, <2>1
  <2>3. \A n \in AttemptNumbers : n > attempt'[c] => ~(Sent(c, n)')
    BY <1>8, <2>2
  <2>4. Sent(c, attempt[c])'
    BY <1>2, <1>7, <1>8
  <2>5. at'[c] \in {"awaiting", "polling"} /\ (at'[c] = "awaiting" <=> c \in Confirming)
    BY <1>3, <1>8
  <2> QED
    BY <1>8, <2>3, <2>4, <2>5 DEF CallInv
<1>10. c \notin Confirming => PlainInv(c)'
  <2>1. c \notin Confirming => Untouched(c)
    BY <1>1 DEF CallsInv, OneCall, PlainInv
  <2> QED
    BY <1>3, <1>7, <1>8, <2>1 DEF PlainInv, Untouched
<1>11. OneCall(c)'
  BY <1>8, <1>9, <1>10 DEF OneCall
<1> QED
  BY <1>5, <1>6, <1>11, CallsApart

(* The clock of an attempt, flush(), the shutdown and the background       *)
(* thread leave every call as it is.                                       *)
LEMMA BystandersKeepCalls ==
  ASSUME TypeOK, CallsInv, TypeOK', \A c \in Calls : LeavesAlone(c)
  PROVE  CallsInv'
BY LeftAlone DEF CallsInv

LEMMA DeadlineStep ==
  ASSUME TypeOK, CallsInv, NEW c \in Calls, DeadlinePasses(c)
  PROVE  TypeOK' /\ CallsInv'
<1>1. expired' \in [Calls -> BOOLEAN]
  BY DEF DeadlinePasses, TypeOK
<1>2. TypeOK'
  BY <1>1 DEF DeadlinePasses, TypeOK, ClientTypeOK, health
<1>3. \A d \in Calls : LeavesAlone(d)
  BY DEF DeadlinePasses, LeavesAlone, Sent, Detached
<1> QED
  BY <1>2, <1>3, BystandersKeepCalls

LEMMA ClientStep ==
  ASSUME TypeOK, CallsInv, NEW m \in Attempts, Serve(m) \/ Acknowledge(m) \/ Refuse(m),
         UNCHANGED <<at, attempt, verdict, producer>>, TypeOK'
  PROVE  CallsInv'
<1>1. \A c \in Calls : LeavesAlone(c)
  BY OldNews DEF LeavesAlone, Detached
<1> QED
  BY <1>1, BystandersKeepCalls

LEMMA FlushAndShutdownStep ==
  ASSUME TypeOK, CallsInv, BeginFlush \/ EndFlush \/ BeginShutdown \/ EndShutdown
  PROVE  TypeOK' /\ CallsInv'
<1>1. UNCHANGED <<fate, at, attempt, expired, verdict, messagesSent, errorCount, backend>>
  BY DEF BeginFlush, EndFlush, BeginShutdown, EndShutdown, health
<1>2. producer' \in {"attached", "flushing", "None"} /\ (Detached => Detached')
  BY DEF BeginFlush, EndFlush, BeginShutdown, EndShutdown, Detached, TypeOK
<1>3. healthy' \in BOOLEAN
  <2>1. healthy' = healthy \/ healthy' = FALSE
    BY DEF BeginFlush, EndFlush, BeginShutdown, EndShutdown, health
  <2> QED
    BY <2>1, Zenon DEF TypeOK
<1>4. flushing' \in BOOLEAN
  BY DEF BeginFlush, EndFlush, BeginShutdown, EndShutdown, TypeOK
<1>5. TypeOK'
  BY <1>1, <1>2, <1>3, <1>4 DEF TypeOK, ClientTypeOK
<1>6. \A c \in Calls : LeavesAlone(c)
  BY <1>1, <1>2 DEF LeavesAlone, Sent
<1> QED
  BY <1>5, <1>6, BystandersKeepCalls

-----------------------------------------------------------------------------
(* The health verdict: no report of the client lifts it.                   *)
LEMMA ServeReportKeepsHealth ==
  ASSUME TypeOK, NEW m \in Attempts, ServeReport(m)
  PROVE  /\ healthy' => healthy
         /\ healthy' \in BOOLEAN /\ messagesSent' \in Nat /\ errorCount' \in Nat
<1>1. messagesSent' \in Nat /\ errorCount' \in Nat
  BY DEF ServeReport, RecordDelivery, TypeOK
<1>2. healthy' = (healthy /\ ~Unacceptable(errorCount', messagesSent'))
  BY DEF ServeReport, RecordDelivery
<1> QED
  BY <1>1, <1>2

-----------------------------------------------------------------------------
(* Every step                                                              *)

LEMMA SingletonStepInv == SingletonInv /\ [Next]_vars => SingletonInv'
<1> SUFFICES ASSUME TypeOK, CallsInv, [Next]_vars PROVE SingletonInv'
  BY DEF SingletonInv
<1>1. ASSUME NEW c \in Calls, Begin(c) \/ CallStep(c) \/ DeadlinePasses(c)
      PROVE  SingletonInv'
  <2>1. TypeOK' /\ CallsInv'
    BY <1>1, BeginStep, DeadlineStep, HealthGuardStep, UnsendableStep, ProduceStep,
       ProduceFailsStep, PollReturnsStep, ConfirmationStep, AfterRejectionStep, BackoffStep
    DEF CallStep
  <2> QED
    BY <2>1 DEF SingletonInv
<1>2. ASSUME NEW m \in Attempts, ServeReport(m) PROVE SingletonInv'
  <2>1. /\ Serve(m) /\ UNCHANGED <<backend, at, attempt, expired, verdict, flushing, producer>>
    BY <1>2 DEF ServeReport
  <2>2. healthy' \in BOOLEAN /\ messagesSent' \in Nat /\ errorCount' \in Nat
    BY <1>2, ServeReportKeepsHealth
  <2>3. ClientTypeOK'
    BY <2>1, OldNews
  <2>4. TypeOK'
    BY <2>1, <2>2, <2>3 DEF TypeOK
  <2>5. CallsInv'
    BY <2>1, <2>4, ClientStep
  <2> QED
    BY <2>4, <2>5 DEF SingletonInv
<1>3. CASE BeginFlush \/ EndFlush \/ BeginShutdown \/ EndShutdown
  BY <1>3, FlushAndShutdownStep DEF SingletonInv
<1>4. CASE Background
  <2>1. PICK m \in Attempts : Acknowledge(m) \/ Refuse(m)
    BY <1>4 DEF Background, BackgroundThread
  <2>2. UNCHANGED <<backend, at, attempt, expired, verdict, health, flushing, producer>>
    BY <1>4 DEF Background
  <2>3. TypeOK'
    BY <2>1, <2>2, OldNews DEF TypeOK, health
  <2>4. CallsInv'
    BY <2>1, <2>2, <2>3, ClientStep
  <2> QED
    BY <2>3, <2>4 DEF SingletonInv
<1>5. CASE UNCHANGED vars
  <2>1. UNCHANGED <<fate, at, attempt, expired, verdict, health, flushing, producer, backend>>
    BY <1>5 DEF vars
  <2>2. TypeOK'
    BY <2>1 DEF TypeOK, ClientTypeOK, health
  <2>3. CallsInv'
    <3>1. \A c \in Calls : LeavesAlone(c)
      BY <2>1 DEF LeavesAlone, Sent, Detached
    <3> QED
      BY <2>2, <3>1, BystandersKeepCalls
  <2> QED
    BY <2>2, <2>3 DEF SingletonInv
<1> QED
  BY <1>1, <1>2, <1>3, <1>4, <1>5 DEF Next

LEMMA SingletonInvariant == Spec => []SingletonInv
BY SingletonInitInv, SingletonStepInv, PTL DEF Spec

-----------------------------------------------------------------------------
(* What the invariant says                                                 *)

(* A set without two members has at most one.                              *)
LEMMA AtMostOne ==
  ASSUME NEW S, \A x, y \in S : x = y
  PROVE  Cardinality(S) <= 1
<1>1. CASE S = {}
  BY <1>1, FS_EmptySet
<1>2. CASE S # {}
  <2>1. PICK x : x \in S
    BY <1>2
  <2>2. S = {x}
    BY <2>1
  <2> QED
    BY <2>2, FS_Singleton
<1> QED
  BY <1>1, <1>2

(* A call that reports success has queued the message of its last attempt, *)
(* and one that asked for confirmation has it delivered: however attempts, *)
(* reports, deadlines and a shutdown interleave.                           *)
THEOREM SuccessEarned == Spec => []SuccessIsEarned
<1>1. SingletonInv => SuccessIsEarned
  <2> SUFFICES ASSUME SingletonInv, NEW c \in Calls, verdict[c] = "success"
               PROVE  /\ attempt[c] \in Copies(c)
                      /\ c \in Confirming => fate[Message(c)] = "delivered"
    BY DEF SuccessIsEarned
  <2>1. OneCall(c) /\ attempt[c] \in AttemptNumbers
    BY DEF SingletonInv, CallsInv, TypeOK
  <2> QED
    BY <2>1 DEF OneCall, CallInv, Sent, Copies
<1> QED
  BY <1>1, SingletonInvariant, PTL

(* However often a fire-and-forget call is retried, it queues at most one  *)
(* copy of its message, and when it fails it has queued none, unless the   *)
(* producer was shut down under its poll().                                *)
THEOREM RetriesDoNotDuplicate == Spec => []PlainRetryNeverDuplicates
<1>1. SingletonInv => PlainRetryNeverDuplicates
  <2> SUFFICES ASSUME SingletonInv, NEW c \in Calls \ Confirming
               PROVE  /\ Cardinality(Copies(c)) <= 1
                      /\ verdict[c] = "failure" /\ producer # "None" => Copies(c) = {}
    BY DEF PlainRetryNeverDuplicates
  <2>1. OneCall(c)
    BY DEF SingletonInv, CallsInv
  <2>2. \A x, y \in Copies(c) : x = y
    BY <2>1 DEF OneCall, PlainInv, Copies, Sent
  <2>3. verdict[c] = "failure" /\ producer # "None" => Copies(c) = {}
    BY <2>1 DEF OneCall, CallInv, PlainInv, Untouched, Copies, Sent, Detached
  <2> QED
    BY <2>2, <2>3, AtMostOne
<1> QED
  BY <1>1, SingletonInvariant, PTL

(* From the moment an instance is unhealthy no report lifts the verdict    *)
(* and no call that is not past the health guard queues another message,   *)
(* for any calls, thresholds and backends.                                 *)
THEOREM UnhealthyForGood == Spec => UnhealthySendsNoMore
<1>1. TypeOK /\ [Next]_vars => [\A m \in Attempts : Stopped(m) => Stopped(m)']_vars
  <2> SUFFICES ASSUME TypeOK, Next, NEW m \in Attempts, Stopped(m)
               PROVE  Stopped(m)'
    OBVIOUS
  <2> DEFINE d == m[1]
  <2>1. ~healthy /\ at[d] # "producing" /\ fate[m] = "absent" /\ d \in Calls
    BY DEF Stopped, Attempts
  <2>2. /\ at \in [Calls -> Place]
        /\ fate \in [Attempts -> Fate]
    BY DEF TypeOK, ClientTypeOK
  <2> SUFFICES ~healthy' /\ at'[d] # "producing" /\ fate'[m] = "absent"
    BY DEF Stopped
  <2>3. ASSUME NEW c \in Calls, Produce(c)
        PROVE  ~healthy' /\ at'[d] # "producing" /\ fate'[m] = "absent"
    <3>1. c # d /\ fate' = [fate EXCEPT ![<<c, attempt[c]>>] = "queued"]
      BY <2>1, <2>3 DEF Produce, Accept, Message
    <3>2. m # <<c, attempt[c]>>
      BY <3>1
    <3>3. ~healthy'
      BY <2>1, <2>3 DEF Produce, health
    <3> HIDE DEF d
    <3> QED
      BY <2>1, <2>2, <2>3, <3>1, <3>2, <3>3 DEF Produce, Goto
  <2>4. ASSUME NEW c \in Calls,
               Begin(c) \/ DeadlinePasses(c) \/ (CallStep(c) /\ ~Produce(c))
        PROVE  ~healthy' /\ at'[d] # "producing" /\ fate'[m] = "absent"
    <3>1. UNCHANGED <<healthy, fate>>
      BY <2>4 DEF CallStep, Begin, HealthGuard, Unsendable, ProduceFails, PollReturns,
         ConfirmationArrives, ConfirmationFails, AfterRejection, Backoff, DeadlinePasses, health
    <3>2. at' = at \/ \E place \in Place \ {"producing"} : Goto(c, place)
      BY <2>1, <2>4
      DEF CallStep, Begin, HealthGuard, Unsendable, ProduceFails, PollReturns, Succeed,
          ConfirmationArrives, ConfirmationFails, AfterRejection, Backoff, DeadlinePasses, Place
    <3> HIDE DEF d
    <3> QED
      BY <2>1, <2>2, <3>1, <3>2 DEF Goto
  <2>5. ASSUME NEW n \in Attempts, ServeReport(n)
        PROVE  ~healthy' /\ at'[d] # "producing" /\ fate'[m] = "absent"
    <3>1. ~healthy' /\ at' = at
      BY <2>1, <2>5, ServeReportKeepsHealth DEF ServeReport
    <3>2. m # n
      BY <2>1, <2>5 DEF ServeReport, Serve
    <3>3. fate'[m] = fate[m]
      BY <2>2, <2>5, <3>2 DEF ServeReport, Serve
    <3> QED
      BY <2>1, <3>1, <3>3
  <2>6. CASE BeginFlush \/ EndFlush \/ BeginShutdown \/ EndShutdown
    <3>1. at' = at /\ fate' = fate
      BY <2>6 DEF BeginFlush, EndFlush, BeginShutdown, EndShutdown
    <3>2. ~healthy'
      BY <2>1, <2>6 DEF BeginFlush, EndFlush, BeginShutdown, EndShutdown, health
    <3> QED
      BY <2>1, <3>1, <3>2
  <2>7. CASE Background
    <3>1. PICK n \in Attempts : Acknowledge(n) \/ Refuse(n)
      BY <2>7 DEF Background, BackgroundThread
    <3>2. m # n
      BY <2>1, <3>1 DEF Acknowledge, Refuse
    <3>3. fate'[m] = fate[m]
      BY <2>2, <3>1, <3>2 DEF Acknowledge, Refuse
    <3>4. UNCHANGED <<at, healthy>>
      BY <2>7 DEF Background, health
    <3> QED
      BY <2>1, <3>3, <3>4
  <2> QED
    BY <2>3, <2>4, <2>5, <2>6, <2>7 DEF Next, CallStep
<1> QED
  BY <1>1, SingletonInvariant, PTL DEF Spec, SingletonInv, UnhealthySendsNoMore

(* Every variable keeps its type.                                          *)
THEOREM SingletonTypes == Spec => []TypeOK
BY SingletonInvariant, PTL DEF SingletonInv

=============================================================================
