------------------------------ MODULE Bulkhead ------------------------------
(***************************************************************************)
(* The Bulkhead of the dead-letter-queue producer: a BoundedSemaphore that *)
(* limits the sends in flight, and beside it a counter, under a lock of    *)
(* its own, that health_status() and the logs report.                      *)
(*                                                                         *)
(* The semaphore and the counter are two pieces of state that no lock      *)
(* covers together, so acquire() and release() take two steps each:        *)
(*                                                                         *)
(*     free --SemAcquire--> acquired --CountUp--> active                   *)
(*     active --CountDown--> releasing --SemRelease--> free                *)
(*                                                                         *)
(* A call is one execution of send_with_fault_tolerance.                   *)
(***************************************************************************)
EXTENDS Integers, FiniteSets, SendCalls

CONSTANT
  MaxConcurrentSends   (* config.max_concurrent_sends         *)

ASSUME BulkheadAssumption ==
  /\ IsFiniteSet(Calls)
  /\ MaxConcurrentSends \in Nat

VARIABLES
  permits,       (* the value of the BoundedSemaphore    *)
  activeCount,   (* _active_count                        *)
  slot           (* how far each call is with its slot   *)

bulkheadVars == <<permits, activeCount, slot>>

SlotPhase == {"free", "acquired", "active", "releasing"}

BulkheadInit ==
  /\ permits = MaxConcurrentSends
  /\ activeCount = 0
  /\ slot = [c \in Calls |-> "free"]

-----------------------------------------------------------------------------
(* acquire()                                                               *)

(* The timed acquire gives up only when it finds the semaphore at zero.    *)
Exhausted == permits = 0

\* Mutant: a plain counter in place of the semaphore, nothing waits at zero.
SemAcquireUnbounded(c) ==
  /\ slot[c] = "free"
  /\ permits' = IF Exhausted THEN 0 ELSE permits - 1
  /\ slot' = [slot EXCEPT ![c] = "acquired"]
  /\ UNCHANGED activeCount

SemAcquire(c) ==
  /\ slot[c] = "free"
  /\ ~Exhausted
  /\ permits' = permits - 1
  /\ slot' = [slot EXCEPT ![c] = "acquired"]
  /\ UNCHANGED activeCount

CountUp(c) ==
  /\ slot[c] = "acquired"
  /\ activeCount' = activeCount + 1
  /\ slot' = [slot EXCEPT ![c] = "active"]
  /\ UNCHANGED permits

Acquire(c) == SemAcquire(c) \/ CountUp(c)

-----------------------------------------------------------------------------
(* release()                                                               *)

CountDown(c) ==
  /\ slot[c] = "active"
  /\ activeCount' = IF activeCount > 0 THEN activeCount - 1 ELSE 0
  /\ slot' = [slot EXCEPT ![c] = "releasing"]
  /\ UNCHANGED permits

SemRelease(c) ==
  /\ slot[c] = "releasing"
  /\ permits' = permits + 1
  /\ slot' = [slot EXCEPT ![c] = "free"]
  /\ UNCHANGED activeCount

\* Mutant: the semaphore is released before the counter goes down.
ReleaseSemaphoreFirst(c) ==
  \/ /\ slot[c] = "active"
     /\ permits' = permits + 1
     /\ slot' = [slot EXCEPT ![c] = "releasing"]
     /\ UNCHANGED activeCount
  \/ /\ slot[c] = "releasing"
     /\ activeCount' = IF activeCount > 0 THEN activeCount - 1 ELSE 0
     /\ slot' = [slot EXCEPT ![c] = "free"]
     /\ UNCHANGED permits

Release(c) == CountDown(c) \/ SemRelease(c)

BulkheadNext == \E c \in Calls : Acquire(c) \/ Release(c)

BulkheadSpec == BulkheadInit /\ [][BulkheadNext]_bulkheadVars

-----------------------------------------------------------------------------
(* Properties                                                              *)

Holders == {c \in Calls : slot[c] # "free"}
Active  == {c \in Calls : slot[c] = "active"}

(* Type invariant.  The upper bound on permits is the one beyond which     *)
(* BoundedSemaphore.release raises ValueError.                             *)
BulkheadTypeOK ==
  /\ permits \in 0..MaxConcurrentSends
  /\ activeCount \in Nat
  /\ slot \in [Calls -> SlotPhase]

(* No slot is leaked and none is made up: the permits left and the calls   *)
(* between their SemAcquire and their SemRelease always add up to          *)
(* max_concurrent_sends.                                                   *)
SlotAccounting == permits + Cardinality(Holders) = MaxConcurrentSends

(* The counter is exactly the number of calls between the two counter      *)
(* updates, so the clamp max(0, n - 1) of release() never hides an error.  *)
ActiveCountExact == activeCount = Cardinality(Active)

(* Although no lock covers semaphore and counter together, active_count    *)
(* never shows an observer more than max_concurrent_sends.                 *)
ActiveWithinCap == activeCount <= MaxConcurrentSends

(* Seen as a whole, the semaphore is a pool of slots: a call owns one from *)
(* its SemAcquire to its SemRelease.                                       *)
Pool == INSTANCE ResourcePool
          WITH Clients <- Calls, Capacity <- MaxConcurrentSends, holders <- Holders

IsResourcePool == Pool!Spec

=============================================================================
