---------------------------- MODULE OrderConsumer ----------------------------
(***************************************************************************)
(* The consumer lessons: processes that read one partition of the order    *)
(* topic as members of one group.  lesson is the code they run:            *)
(*   poll_commit     consume_orders of notebook 06;                        *)
(*   manual_commit   consume_with_manual_commit of notebook 07;            *)
(*   manual_store    process_then_store of notebook 07, called for each    *)
(*                   polled record, with the client's background commit.   *)
(*                                                                         *)
(* The broker is external: it assigns the partition to one member at a     *)
(* time, but learns of a lost one late, so a former owner may still be     *)
(* processing.  A commit of a former owner is refused, or, when its client *)
(* has rejoined in the background, accepted: the broker checks the member, *)
(* not what it is assigned.                                                *)
(*                                                                         *)
(* MaxFaults bounds the crashes, rebalances, broker errors, late and lost   *)
(* answers; the lessons' own limits are the constants of the loop.         *)
(***************************************************************************)
EXTENDS Naturals, Sequences, FiniteSets

CONSTANTS
  Consumers,      (* processes of the group                       *)
  NoConsumer,     (* the partition is assigned to nobody          *)
  Lessons,        (* the lessons a run may be of                  *)
  MaxRecords,     (* bound on the log                             *)
  MaxMessages,    (* max_messages                                 *)
  MaxEmptyPolls,  (* max_empty_polls                              *)
  MaxFaults

ASSUME ConsumerAssumption ==
  /\ NoConsumer \notin Consumers
  /\ Lessons \subseteq {"poll_commit", "manual_commit", "manual_store"}
  /\ MaxRecords \in Nat /\ MaxFaults \in Nat
  /\ MaxMessages \in Nat \ {0} /\ MaxEmptyPolls \in Nat \ {0}

VARIABLES
  lesson,
  (* the broker *)
  log,         (* kinds of the records, offset o at index o + 1         *)
  bookmark,    (* the group's committed position                       *)
  owner,       (* the member the partition is assigned to               *)
  faults,
  (* the processes *)
  pc,          (* where each is in its loop                             *)
  position,    (* the offset its client fetches next                    *)
  message,     (* the offset of the record in hand                      *)
  stored,      (* the locally stored position; 0: nothing stored        *)
  count,       (* processed_count, completed_count                      *)
  emptyPolls,  (* consecutive_empty_polls                               *)
  (* kept for observation *)
  handled,     (* offsets whose business work was done at least once    *)
  repeated,    (* some business work was done more than once            *)
  confirmed    (* commits of this run the broker confirmed to it        *)

brokerVars == <<lesson, log, bookmark, owner, faults>>
runVars == <<position, message, stored, count, emptyPolls>>
historyVars == <<handled, repeated, confirmed>>
vars == <<brokerVars, pc, runVars, historyVars>>

\* order      a record publish_sample_order would write;
\* nameless   one whose event has no event_id: nothing the decoder checks;
\* poison     one the decoder refuses.
Kinds == {"order", "nameless", "poison"}
Offsets == 0 .. MaxRecords - 1
Steps == {"off", "polling", "fetched", "handled", "applied", "closing"}

ConsumerTypeOK ==
  /\ lesson \in Lessons
  /\ log \in Seq(Kinds) /\ Len(log) <= MaxRecords
  /\ bookmark \in 0 .. MaxRecords
  /\ owner \in Consumers \cup {NoConsumer}
  /\ faults \in 0 .. MaxFaults
  /\ pc \in [Consumers -> Steps]
  /\ position \in [Consumers -> 0 .. MaxRecords]
  /\ message \in [Consumers -> Offsets \cup {0}]
  /\ stored \in [Consumers -> 0 .. MaxRecords]
  /\ count \in [Consumers -> 0 .. MaxMessages]
  /\ emptyPolls \in [Consumers -> 0 .. MaxEmptyPolls]
  /\ handled \subseteq Offsets /\ repeated \in BOOLEAN
  /\ confirmed \in [Consumers -> 0 .. MaxMessages]

Zero == [c \in Consumers |-> 0]

Init ==
  /\ lesson \in Lessons
  /\ log = <<>> /\ bookmark = 0 /\ owner = NoConsumer /\ faults = 0
  /\ pc = [c \in Consumers |-> "off"]
  /\ position = Zero /\ message = Zero /\ stored = Zero
  /\ count = Zero /\ emptyPolls = Zero
  /\ handled = {} /\ repeated = FALSE /\ confirmed = Zero

Goto(c, step) == pc' = [pc EXCEPT ![c] = step]

Fault == faults < MaxFaults /\ faults' = faults + 1

StoreMode == lesson = "manual_store"

-----------------------------------------------------------------------------
(***************************************************************************)
(* The topic and the group.                                                *)
(***************************************************************************)
Publish(kind) ==
  /\ Len(log) < MaxRecords
  /\ log' = Append(log, kind)
  /\ UNCHANGED <<lesson, bookmark, owner, faults, pc, runVars, historyVars>>

Member(c) == pc[c] # "off"

\* A new owner resumes from the bookmark; what anybody had stored is gone.
GiveTo(c) ==
  /\ owner' = c
  /\ position' = [position EXCEPT ![c] = bookmark']
  /\ stored' = Zero

WithinLimits(c) == count[c] < MaxMessages /\ emptyPolls[c] < MaxEmptyPolls

\* A run about to leave is not given anything any more.
Assign(c) ==
  /\ owner = NoConsumer /\ Member(c)
  /\ pc[c] # "closing" /\ WithinLimits(c)
  /\ UNCHANGED bookmark
  /\ GiveTo(c)
  /\ UNCHANGED <<lesson, log, faults, pc, message, count, emptyPolls, historyVars>>

\* The partition moves while its owner is at work; a client that is told in
\* time commits what it has stored.
Rebalance(c) ==
  /\ owner \notin {c, NoConsumer} /\ Member(c)
  /\ Fault
  /\ \/ UNCHANGED bookmark
     \/ stored[owner] # 0 /\ bookmark' = stored[owner]
  /\ GiveTo(c)
  /\ UNCHANGED <<lesson, log, pc, message, count, emptyPolls, historyVars>>

\* Automatic commit of the position the application has stored.
BackgroundCommit(c) ==
  /\ owner = c /\ stored[c] # 0 /\ stored[c] # bookmark
  /\ bookmark' = stored[c]
  /\ UNCHANGED <<lesson, log, owner, faults, pc, runVars, historyVars>>

-----------------------------------------------------------------------------
(***************************************************************************)
(* One run: create, subscribe, and the loop.                               *)
(***************************************************************************)
Start(c) ==
  /\ pc[c] = "off"
  /\ Goto(c, "polling")
  /\ count' = [count EXCEPT ![c] = 0]
  /\ emptyPolls' = [emptyPolls EXCEPT ![c] = 0]
  /\ confirmed' = [confirmed EXCEPT ![c] = 0]
  /\ UNCHANGED <<brokerVars, position, message, stored, handled, repeated>>

LimitReached(c) ==
  /\ pc[c] = "polling" /\ ~WithinLimits(c)
  /\ Goto(c, "closing")
  /\ UNCHANGED <<brokerVars, runVars, historyVars>>

\* Nothing assigned, nothing new, or the fetch takes longer than the wait.
\* That the last wait of a run ends while there was something to wait for
\* takes a broker slower than the idle limit: a fault.
WorthWaiting(c) ==
  owner = NoConsumer \/ (owner = c /\ position[c] < Len(log))

\* Mutant: the idle streak is not counted.
EmptyPollUncounted(c) ==
  /\ pc[c] = "polling" /\ WithinLimits(c)
  /\ UNCHANGED vars

EmptyPoll(c) ==
  /\ pc[c] = "polling" /\ WithinLimits(c)
  /\ IF emptyPolls[c] + 1 = MaxEmptyPolls /\ WorthWaiting(c)
     THEN Fault ELSE UNCHANGED faults
  /\ emptyPolls' = [emptyPolls EXCEPT ![c] = @ + 1]
  /\ UNCHANGED <<lesson, log, bookmark, owner, pc, position, message, stored, count,
                 historyVars>>

\* Mutant: enable.auto.offset.store, which the client does at the fetch.
FetchAndStore(c) ==
  /\ pc[c] = "polling" /\ WithinLimits(c)
  /\ owner = c /\ position[c] < Len(log)
  /\ message' = [message EXCEPT ![c] = position[c]]
  /\ position' = [position EXCEPT ![c] = @ + 1]
  /\ stored' = [stored EXCEPT ![c] = position[c] + 1]
  /\ emptyPolls' = [emptyPolls EXCEPT ![c] = 0]
  /\ Goto(c, "fetched")
  /\ UNCHANGED <<brokerVars, count, historyVars>>

\* The lesson leaves automatic offset storing off: fetching stores nothing.
Fetch(c) ==
  /\ pc[c] = "polling" /\ WithinLimits(c)
  /\ owner = c /\ position[c] < Len(log)
  /\ message' = [message EXCEPT ![c] = position[c]]
  /\ position' = [position EXCEPT ![c] = @ + 1]
  /\ emptyPolls' = [emptyPolls EXCEPT ![c] = 0]
  /\ Goto(c, "fetched")
  /\ UNCHANGED <<brokerVars, stored, count, historyVars>>

\* message.error(): raised before anything is decoded.
PollError(c) ==
  /\ pc[c] = "polling" /\ WithinLimits(c)
  /\ Fault
  /\ Goto(c, "closing")
  /\ UNCHANGED <<lesson, log, bookmark, owner, runVars, historyVars>>

\* decode_order_event looks at event_type, schema_version and data.order_id;
\* notebook 07's handler reads event_id all the same.
Decodes(o) == log[o + 1] # "poison"
Handles(o) == Decodes(o) /\ (lesson = "poll_commit" \/ log[o + 1] # "nameless")

Handle(c) ==
  /\ pc[c] = "fetched" /\ Handles(message[c])
  /\ handled' = handled \cup {message[c]}
  /\ repeated' = (repeated \/ message[c] \in handled)
  /\ Goto(c, "handled")
  /\ UNCHANGED <<brokerVars, runVars, confirmed>>

\* Mutant: a bad record is counted as done.
SkipBadRecord(c) ==
  /\ pc[c] = "fetched" /\ ~Handles(message[c])
  /\ Goto(c, "handled")
  /\ UNCHANGED <<brokerVars, runVars, historyVars>>

\* Mutant: the loop goes on with the record behind the bad one.
PassOverBadRecord(c) ==
  /\ pc[c] = "fetched" /\ ~Handles(message[c])
  /\ Goto(c, "polling")
  /\ UNCHANGED <<brokerVars, runVars, historyVars>>

\* InvalidOrderEvent or KeyError leaves the loop with nothing committed.
RefuseRecord(c) ==
  /\ pc[c] = "fetched" /\ ~Handles(message[c])
  /\ Goto(c, "closing")
  /\ UNCHANGED <<brokerVars, runVars, historyVars>>

-----------------------------------------------------------------------------
(***************************************************************************)
(* commit_processed_message: a request, the broker's decision, an answer.  *)
(***************************************************************************)
\* Mutant: the processed record's own offset.
SamePosition(o) == o

\* next_reading_position, as commit(message=...) and store_offsets do it.
NextReadingPosition(o) == o + 1

CommitReaches(c) ==
  /\ pc[c] = "handled" /\ ~StoreMode
  /\ bookmark' = NextReadingPosition(message[c])
  /\ Goto(c, "applied")
  /\ UNCHANGED <<lesson, log, owner, faults, runVars, historyVars>>

\* A partition error, an empty answer or an exception: the run raises.
CommitRefused(c) ==
  /\ pc[c] = "handled" /\ ~StoreMode
  /\ IF owner = c THEN Fault ELSE UNCHANGED faults
  /\ Goto(c, "closing")
  /\ UNCHANGED <<lesson, log, bookmark, owner, runVars, historyVars>>

AnswerLost(c) ==
  /\ pc[c] = "applied"
  /\ Fault
  /\ Goto(c, "closing")
  /\ UNCHANGED <<lesson, log, bookmark, owner, runVars, historyVars>>

\* Each position of the answer is inspected: notebook 06 reads its error,
\* notebook 07 an attribute err that a TopicPartition has not.
Inspectable == lesson # "manual_commit"

CommitConfirmed(c) ==
  /\ pc[c] = "applied"
  /\ confirmed' = [confirmed EXCEPT ![c] = @ + 1]
  /\ IF Inspectable
     THEN Goto(c, "polling") /\ count' = [count EXCEPT ![c] = @ + 1]
     ELSE Goto(c, "closing") /\ UNCHANGED count
  /\ UNCHANGED <<brokerVars, position, message, stored, emptyPolls, handled, repeated>>

\* store_offsets: local; refused once the partition is no longer assigned.
StoreOffset(c) ==
  /\ pc[c] = "handled" /\ StoreMode
  /\ IF owner = c
     THEN /\ stored' = [stored EXCEPT ![c] = NextReadingPosition(message[c])]
          /\ count' = [count EXCEPT ![c] = @ + 1]
          /\ confirmed' = [confirmed EXCEPT ![c] = @ + 1]
          /\ Goto(c, "polling")
     ELSE /\ Goto(c, "closing")
          /\ UNCHANGED <<stored, count, confirmed>>
  /\ UNCHANGED <<brokerVars, position, message, emptyPolls, handled, repeated>>

-----------------------------------------------------------------------------
(***************************************************************************)
(* finally: close() commits what is stored and leaves the group.  A crash  *)
(* does neither; the broker notices and frees the partition.               *)
(***************************************************************************)
Leave(c) ==
  /\ Goto(c, "off")
  /\ owner' = IF owner = c THEN NoConsumer ELSE owner
  /\ stored' = [stored EXCEPT ![c] = 0]
  /\ UNCHANGED <<lesson, log, position, message, count, emptyPolls, historyVars>>

CloseConsumer(c) ==
  /\ pc[c] = "closing"
  /\ bookmark' = IF owner = c /\ stored[c] # 0 THEN stored[c] ELSE bookmark
  /\ Leave(c)
  /\ UNCHANGED faults

Crash(c) ==
  /\ Member(c)
  /\ Fault
  /\ Leave(c)
  /\ UNCHANGED bookmark

-----------------------------------------------------------------------------
RunStep(c) ==
  \/ LimitReached(c) \/ EmptyPoll(c) \/ Fetch(c)
  \/ Handle(c) \/ RefuseRecord(c)
  \/ CommitReaches(c) \/ CommitConfirmed(c) \/ StoreOffset(c)
  \/ CloseConsumer(c)

FaultStep(c) ==
  \/ Rebalance(c) \/ PollError(c) \/ CommitRefused(c) \/ AnswerLost(c) \/ Crash(c)

Next ==
  \/ \E kind \in Kinds : Publish(kind)
  \/ \E c \in Consumers :
       \/ Start(c) \/ Assign(c) \/ BackgroundCommit(c)
       \/ RunStep(c) \/ FaultStep(c)

Spec == Init /\ [][Next]_vars

\* Processes run, and are started again; the group assigns a free partition.
\* Strong fairness, because the bound on faults holds back a last empty poll
\* while other runs come and go.
Fairness ==
  /\ \A c \in Consumers : WF_vars(Start(c)) /\ SF_vars(RunStep(c))
  /\ WF_vars(\E c \in Consumers : Assign(c))

FairSpec == Spec /\ Fairness

-----------------------------------------------------------------------------
(***************************************************************************)
(* Properties.                                                             *)
(***************************************************************************)
\* The bookmark never passes a record whose business work was not done:
\* crashes, rebalances, lost answers, late commits of a former owner and bad
\* records may repeat work and never skip it.
NothingSkipped == \A o \in Offsets : o < bookmark => o \in handled

\* "Returns: Nothing after Kafka confirms the synchronous commit" (notebook 07,
\* 810), and the loop counts the "records whose handler and synchronous commit
\* both succeeded" (887): a run that leaves its loop has counted every commit
\* the broker confirmed to it.
CountIsExact == \A c \in Consumers : pc[c] = "closing" => count[c] = confirmed[c]

\* Work is repeated after a fault only: limits, empty polls, restarts between
\* runs and records nobody can handle do not make the group go back.
RepeatsNeedFaults == repeated => faults > 0

\* The lessons process a partition at least once, each record for the first
\* time only after all those before it, and resume from no later than that.
Contract == INSTANCE AtLeastOnce WITH processed <- handled

KeepsDeliveryContract == Contract!Spec

\* Every run ends, at one of its limits or with an exception: an empty topic,
\* a partition it does not own and a lost connection do not hold it.
RunsEnd == \A c \in Consumers : pc[c] # "off" ~> pc[c] = "off"

\* A record with nothing bad before it is committed in the end, however the
\* runs that read it were cut short.
OrdersAreReached ==
  \A o \in Offsets :
    (o < Len(log) /\ \A i \in 0 .. o : Handles(i)) ~> bookmark > o

=============================================================================
