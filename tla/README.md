# Verification of kafka-design-patterns-python

TLA+ models of the Kafka producers, the transactional outbox and the consumers of this
repository, the TLC runs that check them on small instances, and theorems about them that
TLAPS checks for every instance. Every definition is translated from the code under `src/`;
`PROJECT.json` maps each one to the lines it stands for. Line numbers below refer to those
files; for a notebook they are lines of its JSON.

1. [The system](#1-the-system) - components, state, operations, what is hard
2. [The modules](#2-the-modules) - which models what, and how
3. [The runs](#3-the-runs) - what each checks, with bounds and fairness
4. [Where code and documentation disagree](#4-where-code-and-documentation-disagree)
5. [The proofs](#5-the-proofs)
6. [What is abstracted and assumed](#6-what-is-abstracted-and-assumed)
7. [What is not modelled](#7-what-is-not-modelled)
8. [Plan](#8-plan)

## 1. The system

Four producer packages under `src/producers/` and one around them with a dead letter queue,
each a pattern over the same client (`confluent_kafka.Producer`), and two series of notebooks
under `src/notebook/`. The notebooks named `..._tutorial_production.ipynb` (and notebook 02)
build their own classes, some of which the packages do not have: the transactional outbox
with its relay, the publisher with a poller thread, the consumers. The parts do not share
state at run time, except that the dead letter queue producer is meant to be wired on top of
the singleton (`dead_letter_queue/clients.py`).

### The client, seen from the producers

`produce()` puts a message into a bounded local queue or raises `BufferError`; a background
thread learns what the broker says; the *delivery report* then waits in the queue until some
thread is inside `poll()` or `flush()`, which runs the delivery callback on that thread. A
message takes room in the queue until its report has been served.

### Dead letter queue producer (`dead_letter_queue/core.py`, `types.py`)

| part | state | operations |
|---|---|---|
| `CircuitBreaker` (145) | wrapper around `pybreaker`: state, failure and success counters, `opened_at` | `can_execute` (the gate), `call`, `reset` |
| `Bulkhead` (295) | a `BoundedSemaphore`; an active counter under its own lock | `acquire` (timed), `release`, `active_count` |
| `SlidingWindowHealthMonitor` (353) | a `deque(maxlen)` and two totals, one lock | `record_operation`, `error_rate`, `is_healthy`, `get_metrics_snapshot` |
| `DeadLetterQueueProducer` (458) | the three above, `enable_dlq` | `send_with_fault_tolerance`, `send_with_priority`, `health_status`, `reset_circuit_breaker`, `set_dlq_enabled` |

A call passes the gate, waits for a slot, makes up to `max_retries + 1` confirmed sends
through the breaker, writes the message to the dead letter topic when they failed, records
the outcome and gives the slot back.

*Hard:* three locks that are never held together; a breaker lock that is held for a whole
send; a gate that is read long before the breaker is entered; confirmations that time out
while the message still lands; injected producers that return their failures instead of
raising them; dead letter writes that fail too; a KeyboardInterrupt at any point; an operator
who resets and toggles at any time.
*Correct:* what a call returns is what became of its message; the circuit opens, waits and
closes when its thresholds say; every failure meets the dead letter queue; no slot leaks; the
health verdict is that of the results; every call returns. Two of these hold with an
exception: a success may be that of a producer that has returned a failure, and a
KeyboardInterrupt outside the `try` costs its slot (section 4).

### Transactional outbox (notebook 05)

| part | state | operations |
|---|---|---|
| `SQLiteOutbox` | one row per event: status, attempts, deadline, lease token, `dlq_published` | `create_order`, `claim_due`, `quarantine_expired`, `mark_delivered`, `mark_failure`, `release_unsent`, `pending_dead_letters`, `mark_dlq_published`, `requeue_dead_letter`; each one transaction |
| `CircuitBreaker` | state, failures, `open_until`, `probe_in_flight`, one lock | `allow` (hands out a ticket), `success`, `failure`, `cancel` (take one back) |
| `ResilientOutboxRelay` | a producer, a breaker | `dispatch_once`, `service_events`, the delivery callback, `close` |
| `DeadLetterForwarder` | a producer | `forward_once`, its callback |

Relays are processes over one database: each leases a due row, sends it with
`acks=all`, and settles the row in the callback if the lease is still its own. A row whose
lease runs out is claimed again or, at its limit, quarantined; the forwarder mirrors
quarantined rows to the dead letter topic; an operator may replay them.

*Hard:* a report that arrives after its lease has run out, when the row is another relay's,
settled, or replayed; a relay that dies between `produce()` and the report; sends that failed
for the producer and are in Kafka all the same; the breaker's ticket, which such a report must
give back; two transactions (sweep, claim) between which the clock moves.
*Correct:* leases exclude each other; nothing is dropped; *delivered* means there is a copy in
Kafka; every event is settled in the end; attempts are honest; one probe at a time.

### Order consumers (notebooks 06 and 07)

`consume_orders`, `consume_with_manual_commit` and `process_then_store`: poll one record,
decode it, run the handler, then commit (synchronously, or by storing the offset for the
client's background commit), until `max_messages` or `max_empty_polls`. The bookmark of the
group lives in the broker, the position and the stored offset in each client.

*Hard:* a crash between work and commit; a partition that is given away while its former
owner is still at work; a commit that is applied while its answer is lost; a record that
cannot be decoded; close() that commits what is stored.
*Correct:* no record is skipped; work is repeated after a fault only; every run ends; every
good record with nothing bad before it is committed in the end.

### Producers around one client

- **Content-based router** (`content_based_router/`): three counters behind a lock over an
  injected client. `publish()` validates (`events.py`), routes (`routing.py`), encodes, produces
  with a bounded backpressure loop, counts, polls once and returns a receipt; the callback
  counts delivered and failed; `snapshot()` reads. *Hard:* many publishing threads, callbacks
  on any of them, also between a `produce()` and its count.
- **Callback-confirmed producer** (`callback_confirmed/`): one thread; tallies, a notebook of
  recent failures, `finish`. *Hard:* callbacks in the middle of publish and of finish; a flush
  that times out; KeyboardInterrupt between `produce()` and its count.
- **Fire-and-forget producer** (`fire_and_forget/`): `send` waits for room within a budget,
  returns a result and never raises; `close` detaches the client. *Hard:* several sending
  threads over one bounded queue without callbacks; a `close()` under running sends.
- **Singleton producer** (`singleton/core.py`): `get_instance` (double-checked locking in
  `__new__` and again in `__init__`), `reset_instance`; `send` with or without confirmation,
  `send_with_retry`, `flush`, `_shutdown`, and a callback that takes the producer out of service
  when its error rate is too high. *Hard:* two-phase construction, lock-free readers, a factory
  that raises, retries around a send that has queued its message, custom callbacks that raise.
- **SharedKafkaPublisher** (notebook 03): `publish` under a state lock and a metrics lock, a
  poller thread, `close` that may time out and be repeated. *Hard:* a close between a publish's
  check of `_closing` and its `produce()`.
- **The lessons' publishers** (notebooks 01, 02, 04): `FireAndForgetPublisher`,
  `CallbackConfirmedOrderProducer` and a `KafkaEventRouter` of their own.

*Correct:* a caller is told *queued* exactly for what the client holds, once, and *refused* only
for what it does not; counters and reports are what became of the messages; each event goes to
its one topic under its entity's key; one instance, ready when served; every call ends.

### Around them

Configuration and client factories, demos, the other notebooks (teaching text, experiments
against a live broker), guides, docker and topic scripts, tests. See section 7.

## 2. The modules

```
ResourcePool <--refines-- Bulkhead --------------+
                          CircuitBreaker --------+-- DeadLetterQueueProducer --refines--> SendContract
                          SlidingWindowHealthMonitor

SQLiteOutbox --+-- OutboxRelay (with ProbeBreaker) --+-- ResilientOutbox --refines--> OutboxContract
               +-- DeadLetterForwarder --------------+

OrderConsumer --refines--> AtLeastOnce

KafkaClient --+-- KafkaEventRouter ----------+
              +-- CallbackConfirmedProducer -+
              +-- FireAndForgetProducer -----+--refine--> PublishContract
              +-- SharedKafkaPublisher ------+
              +-- LessonPublisher -----------+
              +-- SingletonProducer      SingletonLifecycle

PythonValues --+-- EventRouting -- LessonEvents
               +-- EventSchema
```

| module | models | state and actions |
|---|---|---|
| `CircuitBreaker` | the wrapper and the part of pybreaker it relies on | `circuit`, two counters, whether the blackout of this trip is over, who holds the lock; `CanExecute`, `Enter`, `Refuse`, `Succeed`, `Fail`, `Reset`, `BlackoutElapses` |
| `Bulkhead` | semaphore and counter | acquire and release are two steps each, since no lock covers both |
| `SlidingWindowHealthMonitor` | window and totals | one lock, so one step per recorded operation |
| `DeadLetterQueueProducer` | the send, stage by stage, any number of concurrent calls | instantiates the three parts; `pc` is the stage; topic variables (`copies`, `doubt`, `dlq...`) say what became of the message. A send or a dead letter write returns confirmed, raises, or returns a failure that nobody reads (`SendDeclines`, `DlqWriteDeclines`). `Interrupt` is a KeyboardInterrupt: before the `try` (`InterruptBeforeTry`), inside it (`InterruptLockWait`, `InterruptCall`), in the `finally` clause (`InterruptRelease`); outside the `try` the call is *escaped* and keeps the slot it had |
| `SQLiteOutbox` | the table and its transactions | `row`; one operator per method, each one step because each is one transaction; a `WHERE` clause is `Holds` |
| `ProbeBreaker` | the relay's breaker | operators from a breaker to the breaker a method leaves, since each method holds the lock throughout |
| `OutboxRelay` | any number of relays | `dispatch_once` cut at every transaction and every `produce`; `flights` are the messages whose callbacks have not run, with what their closures bind; `Crash` and `Replace` forget them |
| `DeadLetterForwarder` | the forwarder | the batch it has read, the copy in its producer, what the DLQ topic holds |
| `ResilientOutbox` | relays and forwarder over one database | the composition, and the mapping to `OutboxContract` |
| `OrderConsumer` | group, partition, the three consuming loops | `pc` of each process, positions, bookmark, owner; commit is a request, the broker's decision and an answer |
| `KafkaClient` | the client (external) | `fate` of each message: absent, queued, acked or refused (report pending), delivered or failed (report served) |
| `KafkaEventRouter` | concurrent `publish()` calls | `at` of each publish, the three counters; `ServeReport` is a callback on whichever thread polls |
| `CallbackConfirmedProducer` | the whole class | one thread, so `at` is a scalar; a KeyboardInterrupt may end any call at any step |
| `FireAndForgetProducer` | the whole class | `at`, `result` per message; `lifecycle` of close, which may come while sends are under way |
| `SharedKafkaPublisher` | publish, poller, close | the two locks are the places from which they are held (`StateLockFree`, `MetricsLockFree`) |
| `LessonPublisher` | three classes with one loop | `lesson` selects how each counts and shuts down |
| `SingletonProducer` | sending on one instance | each attempt of a call is a message of its own, so duplicates show; `backend` is the client the factory found, which decides when a callback may run |
| `SingletonLifecycle` | making the instance | the class attributes, objects numbered as they are made; `reset_instance` as one step while nobody is inside `get_instance`, as its docstring asks |
| `EventRouting`, `LessonEvents`, `EventSchema` | validation, routing, encoding; the event schema | operators over the shapes of Python values (`PythonValues`) that the code tells apart |
| `ResourcePool`, `SendContract`, `OutboxContract`, `AtLeastOnce`, `PublishContract` | abstract specifications | a pool of slots; what a send, the outbox, a consumer and a publish promise, without the machinery that keeps the promise |

`SendCalls` declares the calls that breaker and bulkhead serve. `*Proofs` modules hold the
theorems, `MC*` modules what only a run needs: `MCDlqParts` puts each of the three parts on
a bench of its own, with history variables that judge it by outcomes instead of its own
counters; `MCEventRouting` enumerates inputs and holds the documented routing table as a
reference; `MCDeadLetterQueueProducer` has the symmetry; `MCProducers` puts one producer at a
time on a bench and states once what all of them promise; `MCOutbox` chooses among three small
deployments. Operators commented `Mutant:` are plausible bugs; each property has one that TLC
finds violating it, by which we know that the property can fail.

## 3. The runs

No state constraint is used: calls, publishes and messages happen once (or are offered again
only while they are known not to be queued), and what the code leaves unbounded has a named
bound in a guard (section 6). Deadlock is checked where the system never stops (the runs of
the dead letter queue producer as a whole, outbox, consumers); elsewhere it legitimately ends
when all its calls have returned, or when the health monitor's history is full (`dlq_parts`).
That no call is stuck before is what the liveness properties say.

| run | what it shows | instance, and why it is enough |
|---|---|---|
| `dlq_parts` | the bulkhead refines `ResourcePool`, so that acquire and release leak no slot, and `active_count` never exceeds the limit; the circuit changes exactly on the threshold failure, the threshold success, a failed probe, and each trip has its full blackout; the verdict is that of the latest outcomes | 4 calls over 3 slots: waiting, and two updates in progress at once; thresholds 3 and 2: counts below, at and across a reset; all histories of up to 8 outcomes, window 4: filling, sliding, wrapped, a rate below, at and above the threshold |
| `dlq_retry` | success has a confirmed copy unless the producer returned a failure, a failure meets the dead letter queue, quiet means that no slot is lost but to an interrupt outside the `try`, `KeepsContract` | 2 calls over 2 slots, 1 retry each, threshold 2: they contend for the breaker's lock, and one call's failures trip the circuit in mid-retry of the other; both producers confirm, raise or return failures; one call can be interrupted anywhere, and its messages can land late |
| `dlq_overload` | every begun call returns | 3 calls over 2 slots, 1 retry each: one waits for a slot while two are inside and one of these waits for the lock the other holds; the second failure in a row opens, two probes close, one call can be interrupted |
| `outbox` | leases exclude each other and are respected, attempts cover sends, one probe, mirrored before marked, `KeepsOutboxContract`, every event is settled | three deployments: two relays on one event; a relay that may restart with the forwarder; a relay with two events in one dispatch. 2 attempts before quarantine, one replay, queue of 1, breaker that opens on the first failure: every contention the code has is between two parties |
| `consumer` | nothing skipped, repeats need faults, `AtLeastOnce` (a record is done for the first time only after all before it), runs end, good orders are reached | 2 members, 2 records of three kinds, 2 faults in any order, both limits at 2; the three lessons |
| `producers` | one contract of publishing, exact counters, honest reports, drained means drained, one ready instance, calls end | 3 messages (one the client refuses) over a queue of 1: contention, full queue, retry; 2 interrupts; 3 threads and 2 resets for the singleton |
| `singleton` | earned success, no duplicates outside confirmation mode, nothing more sent once unhealthy | 3 calls with a retry, queue of 1, two confirming, one raising callback, shutdown, either client, any message unfit to be sent |
| `event_routing` | routing table, keys, validation; nothing sent when something is raised; a schema refuses neither more nor less than it says; package and lesson | every combination of field shapes, stock levels -1..2 around equality; schemas with identifier and key in two fields or one |
| `dlq_unread_result`, `router_snapshot`, `singleton_full_queue`, `outbox_probe` | each refutes one documented statement | section 4 |

**Fairness.** Safety properties assume none.

- `dlq_overload`: weak fairness of the next step of a call that has begun (`Proceed`; nobody
  owes an interrupt). Each of its waits is bounded in the code: a timed semaphore, a lock whose
  holder is itself making progress (one confirmed send with a timeout).
- `producers`: a call that has begun goes on (strong, since two threads that contend for a lock
  both get it in the end) and time passes. The broker may stay silent: calls return without its
  help. Only the callers of the fire-and-forget producer, who try again while the result says
  it is worth it, need an answer, and who tries for ever also waits for room again and again: a
  budget that has always run out before the first poll serves nothing. Fairness refers to the
  variables of the producer on the bench, the others being stuck by construction.
- `outbox`: a worker loop calls `dispatch_once` and `service_events` again and again; the client
  settles every message (`delivery.timeout.ms`); clocks advance; a closed relay is replaced.
  Serving a report is strongly fair, because reports are served between dispatches, which come
  and go. Nothing is assumed of crashes, the operator, or the forwarder.
- `consumer`: runs are started again and go on, and the group assigns a free partition. Strong,
  because the bound on faults holds a last empty poll back while other runs come and go.
- `singleton_full_queue` (`BusySpec`): the broker answers everything, callers keep trying, and a
  poll serves reports if it happens again and again: the only thing missing is a poll.

**Interrupts.** The report of the callback-confirmed producer is exact without KeyboardInterrupt
and its verdict sound for at most one. Two can defeat it: one between `produce()` and
`queued_count += 1`, another at the head of the callback of a different event; the two errors
cancel. The bound of 2 exercises the other properties beyond it.

## 4. Where code and documentation disagree

Four disagreements are runs of kind *violation*, in which TLC produces the behaviour:

1. `dlq_unread_result` - `types.py:133` and `core.py:780` (dead letter queue) say that success
   means a delivery the broker has confirmed. `core.py:797` and `872` drop what the injected
   producer returns. The Protocols (`types.py:192`, `208`) let it return nothing, so a failure
   should be raised; but `SingletonProducer.send`, the one send of the repository with these
   keyword arguments, returns `SendResult(success=False)` when it is unhealthy
   (`singleton/core.py:453-462`) and when `produce()` raises (`521-523`), in confirmation mode
   as well. Over such a producer a message that was never queued is reported as a success,
   feeds the breaker and the health monitor as one, and a dead letter write refused so is
   logged as "DLQ preserved". `SuccessIsConfirmedOrUnread` says that this is the only way, and
   `ConfirmedSuccess` proves the promise for producers that raise.
2. `router_snapshot` - `publish()` counts after `produce()`, callbacks run on other
   threads: `awaiting` may be 0 while an event with a receipt is in flight, and -1 at times.
3. `singleton_full_queue` - `BufferError` is handled without a poll, so `send_with_retry`
   cannot clear the very condition it names as its purpose.
4. `outbox_probe` - a report whose lease was reclaimed, quarantined or replayed meanwhile
   returns before it gives its ticket back (notebook 05, 932 and 944). If the ticket is the probe,
   `probe_in_flight` stays set, `allow()` returns None for ever, and the relay refuses every send
   until its process is replaced. `EventsAreSettled` says that this is the only way for an event
   to be left where it is.

Others were met while modelling; the models contain the behaviour, and no run is spent on them:

- `types.py:162` (dead letter queue) says of a failure that it was "exhausted through all
  retries and routed to the Dead Letter Queue"; gate and bulkhead (`core.py:592`, `612`) fail a
  send that neither was attempted nor goes there (`RejectionLeavesNoTrace` says so).
- `core.py:642` (dead letter queue) calls the release of the slot unconditional, "preventing a
  permanent slot leak". A KeyboardInterrupt after the semaphore was taken (331) and before the
  `try` (622), or in the `finally` clause before `_semaphore.release()` is over (341), leaks the
  slot for good; between 340 and 341 `active_count` goes down all the same.
  `QuietMeansReleased` allows for exactly these slots (`Leaked`).
- `core.py:416` and `427` call the producer healthy when its error rate is *below* the threshold;
  the code compares with `<=`, as `types.py:142` has it ("above which the producer is marked
  UNHEALTHY"). `VerdictFollowsLatest` follows the latter, and its run meets equality.
- `types.py:47` says that the failure count of a CLOSED circuit "resets gradually on success";
  pybreaker sets it to zero on one success, as "Consecutive failures" (`types.py:93`) implies.
  `OpensOnThresholdFailures` follows the latter: failures in a row.
- Notebook 07 inspects `position.err` of a `TopicPartition` (827), whose attribute is `error`
  (notebook 06 has it right at 650): every run of `consume_with_manual_commit` ends with
  `AttributeError` right after its first confirmed commit, uncounted, although the function
  "Returns: Nothing after Kafka confirms the synchronous commit" (810). No record is lost by it,
  since the bookmark has moved. `CountIsExact` of `OrderConsumer` fails if it is added to the
  invariants of `OrderConsumer.cfg`.
- `events.py:94` (router) promises `EventValidationError` for a malformed event; an unhashable
  payment status raises `TypeError` at line 121, and text with a lone surrogate raises
  `UnicodeEncodeError` at line 177, outside the `try` (in the lesson it is inside).
- `fire_and_forget/core.py:211` offers `queue_capacity_wait_seconds = 0.0` ("never wait"). The
  deadline has then passed before the poll at line 412, so no send serves reports and a queue
  that is once full stays full unless the application polls: with `MayWait = FALSE` in
  `MCProducers.cfg`, `CallsEnd` fails.
- `singleton/core.py:553` says of `send_with_retry` that it "does NOT retry broker-level
  delivery failures"; in confirmation mode the `except` at line 608 does, after a time-out as
  well as after a refusal, so the message may be delivered twice. `PlainRetryNeverDuplicates`
  is stated for the other mode only.
- `reset_instance` is safe only while no thread is between `__new__` and `__init__`: a thread
  overtaken there raises the class-wide flag for an object the class has forgotten, and the
  next instance is never initialized. Its docstring reserves it for test setup, and the model
  takes it at its word.
- In notebook 05 a lease that runs out between `quarantine_expired` and `claim_due` is claimed
  beyond `max_attempts`, so an event may be sent more often than the policy says; and the
  forwarder's callback marks a row by its `event_id` alone, so after a replay the confirmation of
  the first copy marks the second quarantine as published. `AttemptsCoverSends` and
  `PublishedMeansMirrored` say what holds all the same.

## 5. The proofs

TLAPS proves every safety invariant, action property and refinement that a passing run checks,
35 of the runs' 40 properties, for every value of the constants that the named assumptions
allow: finitely many calls, messages or relays; thresholds, capacities and window at least 1;
percentages up to 100; placeholders that are none of the real values (`NoEvent`, `NoToken`, ...);
and of texts that the number 0 is not printed as a blank. Nothing else is assumed. The theorems
marked with a property in `PROJECT.json` state the very definition that the run checks on its
instance. An argument is modular where the code is: a part is proved by itself, and what is
proved of it is carried to where it is used by showing that the steps there are its steps.

- `DlqPartsProofs` - the three parts by themselves. `BulkheadInv` (types,
  `permits + holders = cap`, counter = active calls) is inductive; hence no `ValueError` of the
  bounded semaphore, the clamp of `release()` never acts, the counter stays within the cap; and
  the bulkhead refines `ResourcePool`. `BreakerInv`: types, counters below their thresholds,
  circuit not open while an operation runs. `HealthInv`: the argument is about how the number
  of errors in a window changes when it slides (`ErrorsAppend`, `ErrorsTail`, `SlideFacts`).
- `MCDlqPartsProofs` - the parts judged by their histories. `RecentInv` ties the breaker's
  counters to the run of equal outcomes at the end of what it has seen, which is forgotten
  beyond the larger threshold (`NewestFacts`), so the circuit opens and closes with exactly the
  outcome that the thresholds name. `HistoryInv`: the window is the end of the history, and the
  two ways to count its errors agree (`SameFailures`), whatever the length of either.
- `DeadLetterQueueProducerProofs` - the composition. `PartsInv` holds because every step of
  the producer is a step, or a stutter, of each part (`BreakerSteps`, `SlotSteps`,
  `HealthSteps`), so that the parts' own theorems carry over and nothing about them is
  proved twice. None of the producer's properties is inductive alone: that success means a
  copy, say, depends on which stages a copy, a slot and an error can be in. `ProducerInv`
  says so stage by stage for one call (`SlotFits`, `AttemptFits`, `ResultFits`, `DlqFits`)
  and ties the calls together by the one thing they share, the breaker's lock (`LockFits`).
  A step of one call leaves the others alone (`OthersFit`), so the induction is about one
  call at a time (`StepTypes`, `StepFits`, `StepLock`). `HealthCountsResults` needs
  cardinalities on top (`RecordedSteps`). From these follow the safety properties, the action
  property `OutcomeIsFinal`, and `KeepsContract`. Failures that are returned and interrupts at
  any point are part of all of it; `ConfirmedSuccess` alone assumes that failures are raised
  (`~FailuresReturned`), and no theorem assumes that there is no interrupt: `NothingLeaks` says
  which slots they cost.
- `OutboxProofs` - the outbox with any number of relays and events, crashes, expiries and
  replays. That a lease is exclusive is not inductive: a token may be in a row, in the hands of
  a relay, or in the closure of a callback that has not run, and the last two outlive the
  lease. `UniqueInv` says that a token is in one pair of hands *whether or not its lease still
  runs*; a fresh token is one that nobody remembers. That the attempts cover the sends needs
  the sends about to be made as well (`SendsInv`, by cardinalities of `Holding`), and that a
  holder's round is its row's (`RoundInv`), as a replay starts the count anew. With what has
  landed (`LandedInv`) these give `OutboxInv`, and from it `OneLease`, `AttemptsCoverSends`,
  `PublishedMeansMirrored`, the action property `LeaseIsRespected`, and the refinement
  `KeepsOutboxContract`. `ProbeInv` (a probe ticket is in one place, and only while its circuit
  is probing) is inductive on top and gives `OneProbe`: no report of an earlier HALF_OPEN
  period can exist, because a circuit does not leave HALF_OPEN while its probe is out.
- `ConsumerProofs` - the consumers, for any group, log, limits and number of faults. What a
  commit writes was computed when its record was fetched, perhaps by a process that has lost
  the partition since; so `WorkInv` and `OwnerInv` say of *every* position that anybody may still
  commit or resume from that the work before it is done. From them `NothingSkipped` and the
  refinement of `AtLeastOnce`; with `QuietInv` (without a fault only the owner has a record in
  hand, and it is beyond all that is done) `RepeatsNeedFaults`. `AtLeastOnce` keeps the set of the
  records that were done, not their number, so that its order is the log's.
- `ProducersProofs` - the producers around one client, for any number of messages, threads and
  interrupts and any queue. What is common is stated once. A *ledger* says that a message is
  with the client exactly when its publish is at the count or beyond it, and that each counter
  is the number of messages at certain places; a few lemmas say what moving one message does
  to such numbers, and serve three of the producers (`LedgerProduce`, `LedgerCount`, ...).
  - `RouterInv`, `SharedInv`, `LessonInv` are ledgers with the results that have been served.
    `LedgerBalance` compares two partitions of the messages the client has taken, by their
    publish and by their fate: *awaiting* is what is in flight less what is not counted yet.
    Closing comes on top: a publish of the shared publisher that has passed its check of closing
    holds the lock that close() needs (`SharedLocks`), and nobody publishes once a lesson's
    single-threaded producer closes (`LessonClosing`).
  - `ForgetInv` says that a result is *queued* exactly when the client has the message, and that
    nobody is under way once the producer closes, unless close() came early.
  - `ConfirmedInv` keeps two books, what was taken and what was heard. Without interrupts they
    balance with the counters; each KeyboardInterrupt may leave one message out of one of them.
    So the report is exact after none, and after one an imbalance still shows, since the other
    book cannot cancel it. That is why `ConfirmedMeansDelivered` holds up to one interrupt and
    fails at two (section 3).
  - `LifecycleInv`: a thread about to be served must already hold the class's object, and one
    about to read the class must find an object there. From it `OneInstance` and
    `ServedMeansReady` for any threads, resets and failed constructions.
  - `KeepsPublishContract` for all five publishers: each step answers one message truly or
    moves one that nobody has been told about (`MessageStep`), which is a step of
    `PublishContract` or none (`ContractFollows`).
- `SingletonProducerProofs` - sending on the singleton. What a retry may have left behind depends
  on the mode: `CallInv` says where the message of the current attempt is, `PlainInv` that a call
  without confirmation has at most one copy, and none while it may still retry. The exception
  is a shutdown under its `poll()`, after which no attempt finds a client (`Detached`), so the
  copy stays the only one. `UnhealthyForGood`: the verdict never recovers, and only an attempt
  that has read it before still hands its message over.
- `MCEventRoutingProofs` - validation, routing and encoding for any names and stock levels. The
  routing table, an independent reference, is compared with the functions' nested conditions
  event by event (`RoutedEvents`); that values which pass validation behave as the routes
  presume is `ValuesSpeak`; `SchemaResult` says what a publish under a schema makes of an event.

Some theorems (`BreakerTypeCorrect`, `RejectionLeavesNoTrace`, `OneSendAtATime` and others of the
dead letter queue producer, the type invariant of the singleton) state properties that no run
checks any more, since what they say is proved and the runs' remaining properties are sharper.

Only model-checked are the five liveness properties (`BegunCallsReturn`, `CallsEnd`,
`EventsAreSettled`, `RunsEnd`, `OrdersAreReached`): they need fairness and ENABLED, which are out
of the prover's reach. So are the disagreements of section 4, each a counterexample.

## 6. What is abstracted and assumed

*Libraries*, from the versions that `uv.lock` and the imports name:

- pybreaker: `call()` holds its lock from the check of the state to the record of the
  outcome, also when the operation raises a BaseException; refused calls and the tripping failure raise
  `CircuitBreakerError`; HALF_OPEN closes after `success_threshold` consecutive successes.
- tenacity: an attempt's context manager swallows what the attempt raised, BaseException
  included, so a KeyboardInterrupt inside an attempt, in its wait for the breaker's lock too, is
  an attempt that failed, and leaves the call only from the last one; one during the backoff
  sleep leaves the call at once.
- confluent-kafka: reports occupy the local queue until they are served, also without a
  callback; callbacks run only inside `poll` and `flush`. With `acks=all` an acknowledged message
  is stored, and one reported as failed may be.
- the group protocol: a partition has one owner, who learns late that it has lost it; the broker
  refuses the commit of a member it has expelled and accepts that of one that has rejoined;
  a client told in time, and `close()`, commit what is stored.
- SQLite: a transaction is one step and commits. Errors of the database are left out.
- `uuid4` never repeats a token that anybody still remembers (`FreshToken`); which one it is
  makes no difference.
- `BoundedSemaphore.acquire(timeout)` gives up only when it finds no permit.

*Time* is a Boolean where the code compares with a deadline (`expired`, `ripe`, `cooled`): it may
pass at any moment from then on. Backoff lengths, jitter and the order of rows by their deadline
are left out, so a due row may be claimed in any order.

*Atomicity.* A critical section is one step where every reader takes the same lock, or where
lock-free readers see a single write of it; `reset_instance` is one because it runs when
there are no readers.
The circuit breaker gate of the dead letter queue producer reads state and `opened_at` in one
step (the two reads cannot disagree in a way that admits a send, as `Enter` checks again under
the lock). In `FireAndForgetProducer` one poll serves all ready reports at once, as no code of
the class runs in between. In `OutboxRelay` `allow()` and `claim_due` are one step, because only
the relay's own thread uses its breaker.
A KeyboardInterrupt in a call of the dead letter queue producer may come between any two steps
of the model, and inside a send or a dead letter write. Two places are not told apart:
inside pybreaker's own bookkeeping, where it would leave the breaker's counters half updated, and
between the record of the outcome and the `finally` clause, where it replaces a recorded result
but gives the slot back.

*Left out:* payloads, topic names (outside `EventRouting`), headers, timestamps, latencies, logging, and
the `circuit_state` field of a result (an unsynchronised read for display). In
`CircuitBreaker` a counter has a neutral value in states where nothing reads it. The forwarder's
producer holds one copy at a time.

*Bounds* that limit behaviours, named in their modules: `LateCalls` (calls whose messages may land
after the send raised), `DlqSettings` (what the operator sets `enable_dlq` to), `Interruptible`
(calls on the main thread), `FailuresReturned` (whether the injected producers may return their
failures; `dlq_overload` has neither these nor late copies, since its question is who waits for
whom), `MaxOperations` (outcomes the monitor is told), `MaxInterrupts`, `MaxResets`, `MayShutDown`, `Persistent` (who tries again), `Faulty` (whose
messages may be unfit; none in `singleton_full_queue`, so that only the queue is in the way),
`Backends`, `MaxCount` (stock levels), `MaxRestarts` (crashes and closes of relays), `MaxRequeues`
(replays per event), `AttemptBound` (the attempts column), `MaxFaults` and `MaxRecords` (consumers).
The theorems hold for every value of them, but for `ConfirmedSuccess`, which is about producers
that raise.

## 7. What is not modelled

- `clients.py`, `config.py`, `constants.py`, `producer_config.py`: dictionaries built once.
- The wiring of the dead letter queue producer: `dead_letter_queue/clients.py` imports modules
  that the repository does not contain, so what it would put together cannot be read off the
  source.
- Of the kafka-python adapter (`singleton/clients.py:102`): its configuration, and that headers
  and timestamps are dropped. When its callbacks run is modelled.
- In the notebooks that are modelled: the teaching text, the fakes, the experiments and the
  assertions around the classes. `RetryPolicy.delay` of notebook 05 is arithmetic on a jitter
  that decides only when a row is due.
- The other notebooks: environment set-up, the anatomy of a topic, measurements of producer
  configurations, a class of `produce`, `poll` and `flush` without a decision of its own.
- Demos, `main.py`, guides, docker and topic scripts, smoke tests: straight-line code, input and
  output, or text.
- `test_content_based_router.py` exercises an interface the package no longer has.

Counted in lines, most of the repository is of this kind: the notebooks are two thirds of
it, and most of a notebook's lines are markdown, plots, printed experiments and JSON. What is
left with state and decisions of its own is modelled.

## 8. Plan

Done: the modules of section 2 are modelled and checked, and every property of the passing runs
that is not liveness is proved.

What would add most next:

1. What a duplicate costs, as theorems: at most one copy per attempt in confirmation mode of
   `send_with_retry`, and for the outbox at most as many as the attempts of all its rounds.
   `CopiesBoundedByAttempts` says so of the dead letter queue producer already.
2. What liveness rests on, as invariants that need no ENABLED: a lock's holder is always at a
   place whose next step has no guard, so that nobody waits for somebody who waits for him.
3. The wiring of the dead letter queue producer, once the modules that `clients.py` imports exist.
