---------------------------- MODULE ConsumerProofs ----------------------------
(***************************************************************************)
(* The consumer lessons skip nothing, for any group, any log, any limits   *)
(* and any number of crashes, rebalances and late commits.                 *)
(*                                                                         *)
(* That the bookmark never passes unprocessed work is not inductive: what  *)
(* a commit writes was computed when the record was fetched, by a process  *)
(* that may have lost the partition since.  So the invariant says of every *)
(* position anybody may still commit or resume from that the work before   *)
(* it is done.                                                             *)
(***************************************************************************)
EXTENDS OrderConsumer, TLAPS

\* The business work of every record before position n has been done.
Done(n) == \A o \in Offsets : o < n => o \in handled

InHand(c) == pc[c] \in {"fetched", "handled", "applied"}

\* A run that goes on has counted what was confirmed to it; a record in hand
\* is one of the log's, taken below the run's limit.
RunInv ==
  \A c \in Consumers :
    /\ pc[c] \in {"polling", "fetched", "handled", "applied"} => confirmed[c] = count[c]
    /\ InHand(c) => count[c] < MaxMessages /\ message[c] \in Offsets

WorkInv ==
  /\ Done(bookmark)
  /\ \A o \in handled : Done(o)
  /\ \A c \in Consumers :
       /\ Done(stored[c])
       /\ pc[c] = "fetched" => Done(message[c])
       /\ pc[c] \in {"handled", "applied"} => Done(message[c] + 1)

OwnerInv ==
  \A c \in Consumers : owner = c =>
    /\ pc[c] # "off"
    /\ pc[c] \in {"polling", "handled", "applied"} => Done(position[c])
    /\ pc[c] = "fetched" => Done(position[c]) \/ position[c] = message[c] + 1

ConsumerInv == ConsumerTypeOK /\ RunInv /\ WorkInv /\ OwnerInv

-----------------------------------------------------------------------------
\* A record published or fetched has an offset of the log.
LEMMA LogGrows ==
  ASSUME ConsumerTypeOK, NEW kind \in Kinds, Publish(kind)
  PROVE  log' \in Seq(Kinds) /\ Len(log') <= MaxRecords
BY ConsumerAssumption DEF Publish, ConsumerTypeOK

\* The faults are counted up to their bound.
LEMMA FaultsCounted ==
  ASSUME ConsumerTypeOK, Fault \/ UNCHANGED faults
  PROVE  faults' \in 0 .. MaxFaults
<1>1. faults \in 0 .. MaxFaults
  BY DEF ConsumerTypeOK
<1> QED
  BY <1>1, ConsumerAssumption DEF Fault

\* One idle poll more is still within the limit.
LEMMA IdleCounted ==
  ASSUME ConsumerTypeOK, NEW c \in Consumers, emptyPolls[c] < MaxEmptyPolls
  PROVE  emptyPolls[c] + 1 \in 0 .. MaxEmptyPolls
<1>1. emptyPolls[c] \in 0 .. MaxEmptyPolls
  BY DEF ConsumerTypeOK
<1> QED
  BY <1>1, ConsumerAssumption

LEMMA TypesKept ==
  ASSUME ConsumerTypeOK, RunInv, [Next]_vars
  PROVE  ConsumerTypeOK'
<1> USE ConsumerAssumption DEF ConsumerTypeOK
<1>1. ASSUME NEW kind \in Kinds, Publish(kind) PROVE ConsumerTypeOK'
  BY <1>1, LogGrows DEF Publish, runVars, historyVars
<1>2. ASSUME NEW c \in Consumers, Start(c) PROVE ConsumerTypeOK'
  BY <1>2 DEF Start, Goto, Steps, brokerVars
<1>3. ASSUME NEW c \in Consumers, Assign(c) \/ Rebalance(c) PROVE ConsumerTypeOK'
  <2>1. owner' = c /\ bookmark' \in 0 .. MaxRecords
    BY <1>3 DEF Assign, Rebalance, GiveTo
  <2>2. faults' \in 0 .. MaxFaults
    BY <1>3, FaultsCounted DEF Assign, Rebalance
  <2>3. position' = [position EXCEPT ![c] = bookmark'] /\ stored' = [d \in Consumers |-> 0]
    BY <1>3 DEF Assign, Rebalance, GiveTo, Zero
  <2>4. UNCHANGED <<lesson, log, pc, message, count, emptyPolls, historyVars>>
    BY <1>3 DEF Assign, Rebalance
  <2> QED
    BY <2>1, <2>2, <2>3, <2>4 DEF historyVars
<1>4. ASSUME NEW c \in Consumers, BackgroundCommit(c) PROVE ConsumerTypeOK'
  BY <1>4 DEF BackgroundCommit, runVars, historyVars
<1>5. ASSUME NEW c \in Consumers,
             LimitReached(c) \/ RefuseRecord(c) \/ PollError(c) \/ CommitRefused(c) \/ AnswerLost(c)
      PROVE  ConsumerTypeOK'
  <2>1. pc' = [pc EXCEPT ![c] = "closing"]
    BY <1>5 DEF LimitReached, RefuseRecord, PollError, CommitRefused, AnswerLost, Goto
  <2>2. faults' \in 0 .. MaxFaults
    <3>1. Fault \/ UNCHANGED faults
      BY <1>5 DEF LimitReached, RefuseRecord, PollError, CommitRefused, AnswerLost, brokerVars
    <3> QED
      BY <3>1, FaultsCounted
  <2>3. UNCHANGED <<lesson, log, bookmark, owner, runVars, historyVars>>
    BY <1>5 DEF LimitReached, RefuseRecord, PollError, CommitRefused, AnswerLost, brokerVars
  <2> QED
    BY <2>1, <2>2, <2>3 DEF Steps, runVars, historyVars
<1>6. ASSUME NEW c \in Consumers, EmptyPoll(c) PROVE ConsumerTypeOK'
  <2>1. emptyPolls[c] + 1 \in 0 .. MaxEmptyPolls
    BY <1>6, IdleCounted DEF EmptyPoll, WithinLimits
  <2>2. faults' \in 0 .. MaxFaults
    <3>1. Fault \/ UNCHANGED faults
      BY <1>6 DEF EmptyPoll
    <3> QED
      BY <3>1, FaultsCounted
  <2>3. /\ emptyPolls' = [emptyPolls EXCEPT ![c] = emptyPolls[c] + 1]
        /\ UNCHANGED <<lesson, log, bookmark, owner, pc, position, message, stored, count,
                       historyVars>>
    BY <1>6 DEF EmptyPoll
  <2> QED
    BY <2>1, <2>2, <2>3 DEF historyVars
<1>7. ASSUME NEW c \in Consumers, Fetch(c) PROVE ConsumerTypeOK'
  <2>1. position[c] \in Offsets \cup {0} /\ position[c] + 1 \in 0 .. MaxRecords
    BY <1>7 DEF Fetch, Offsets
  <2> QED
    BY <1>7, <2>1 DEF Fetch, Goto, Steps, brokerVars, historyVars
<1>8. ASSUME NEW c \in Consumers, Handle(c) PROVE ConsumerTypeOK'
  <2>1. message[c] \in Offsets
    BY <1>8 DEF Handle, RunInv, InHand
  <2> QED
    BY <1>8, <2>1 DEF Handle, Goto, Steps, brokerVars, runVars
<1>9. ASSUME NEW c \in Consumers, CommitReaches(c) PROVE ConsumerTypeOK'
  <2>1. message[c] + 1 \in 0 .. MaxRecords
    BY <1>9 DEF CommitReaches, RunInv, InHand, Offsets
  <2> QED
    BY <1>9, <2>1 DEF CommitReaches, NextReadingPosition, Goto, Steps, runVars, historyVars
<1>10. ASSUME NEW c \in Consumers, CommitConfirmed(c) \/ StoreOffset(c) PROVE ConsumerTypeOK'
  <2>1. count[c] + 1 \in 0 .. MaxMessages /\ confirmed[c] + 1 \in 0 .. MaxMessages
    BY <1>10 DEF CommitConfirmed, StoreOffset, RunInv, InHand
  <2>2. message[c] + 1 \in 0 .. MaxRecords
    BY <1>10 DEF CommitConfirmed, StoreOffset, RunInv, InHand, Offsets
  <2>3. /\ \/ pc' = [pc EXCEPT ![c] = "polling"]
           \/ pc' = [pc EXCEPT ![c] = "closing"]
        /\ stored' = stored \/ stored' = [stored EXCEPT ![c] = message[c] + 1]
        /\ count' = count \/ count' = [count EXCEPT ![c] = count[c] + 1]
        /\ confirmed' = confirmed \/ confirmed' = [confirmed EXCEPT ![c] = confirmed[c] + 1]
        /\ UNCHANGED <<brokerVars, position, message, emptyPolls, handled, repeated>>
    BY <1>10 DEF CommitConfirmed, StoreOffset, NextReadingPosition, Goto
  <2>4. pc' \in [Consumers -> Steps]
    BY <2>3 DEF Steps
  <2>5. stored' \in [Consumers -> 0 .. MaxRecords]
    BY <2>2, <2>3
  <2>6. count' \in [Consumers -> 0 .. MaxMessages]
    BY <2>1, <2>3
  <2>7. confirmed' \in [Consumers -> 0 .. MaxMessages]
    BY <2>1, <2>3
  <2> QED
    BY <2>3, <2>4, <2>5, <2>6, <2>7 DEF brokerVars
<1>11. ASSUME NEW c \in Consumers, CloseConsumer(c) \/ Crash(c) PROVE ConsumerTypeOK'
  <2>1. /\ owner' \in {NoConsumer, owner} /\ bookmark' \in {stored[c], bookmark}
        /\ pc' = [pc EXCEPT ![c] = "off"] /\ stored' = [stored EXCEPT ![c] = 0]
        /\ UNCHANGED <<lesson, log, position, message, count, emptyPolls, historyVars>>
    BY <1>11 DEF CloseConsumer, Crash, Leave, Goto
  <2>2. faults' \in 0 .. MaxFaults
    BY <1>11, FaultsCounted DEF CloseConsumer, Crash
  <2>3. owner' \in Consumers \cup {NoConsumer} /\ bookmark' \in 0 .. MaxRecords
    BY <2>1
  <2>4. pc' \in [Consumers -> Steps] /\ stored' \in [Consumers -> 0 .. MaxRecords]
    BY <2>1 DEF Steps
  <2> QED
    BY <2>1, <2>2, <2>3, <2>4 DEF historyVars
<1>12. CASE UNCHANGED vars
  BY <1>12 DEF vars, brokerVars, runVars, historyVars
<1> QED
  BY <1>1, <1>2, <1>3, <1>4, <1>5, <1>6, <1>7, <1>8, <1>9, <1>10, <1>11, <1>12
  DEF Next, RunStep, FaultStep

LEMMA RunsKept ==
  ASSUME ConsumerTypeOK, RunInv, [Next]_vars
  PROVE  RunInv'
<1> USE DEF RunInv, InHand, ConsumerTypeOK
<1>1. CASE \E kind \in Kinds : Publish(kind)
  BY <1>1 DEF Publish, runVars, historyVars
<1>2. ASSUME NEW c \in Consumers, Start(c) \/ Assign(c) \/ BackgroundCommit(c)
      PROVE  RunInv'
  BY <1>2 DEF Start, Assign, BackgroundCommit, Goto, runVars, historyVars
<1>3. ASSUME NEW c \in Consumers, RunStep(c) PROVE RunInv'
  <2>1. CASE Fetch(c)
    <3>1. position[c] \in Offsets
      BY <2>1, ConsumerAssumption DEF Fetch, Offsets
    <3>2. count[c] < MaxMessages
      BY <2>1 DEF Fetch, WithinLimits
    <3> QED
      BY <2>1, <3>1, <3>2 DEF Fetch, Goto, brokerVars, historyVars
  <2>2. CASE CommitConfirmed(c) \/ StoreOffset(c)
    BY <2>2 DEF CommitConfirmed, StoreOffset, Goto
  <2>3. CASE ~Fetch(c) /\ ~CommitConfirmed(c) /\ ~StoreOffset(c)
    BY <1>3, <2>3 DEF RunStep, LimitReached, RefuseRecord, EmptyPoll, CommitReaches, Handle,
         CloseConsumer, Leave, Goto, runVars, historyVars
  <2> QED
    BY <2>1, <2>2, <2>3
<1>4. ASSUME NEW c \in Consumers, FaultStep(c) PROVE RunInv'
  BY <1>4 DEF FaultStep, Rebalance, PollError, CommitRefused, AnswerLost, Crash, Leave, Goto,
       runVars, historyVars
<1>5. CASE UNCHANGED vars
  BY <1>5 DEF vars, runVars, historyVars
<1> QED
  BY <1>1, <1>2, <1>3, <1>4, <1>5 DEF Next

-----------------------------------------------------------------------------
\* Work that is done stays done.
LEMMA DoneStays ==
  ASSUME handled \subseteq handled', NEW n, Done(n)
  PROVE  Done(n)'
BY DEF Done

(* A step that does no business work keeps the invariant if the positions  *)
(* it writes were committed, stored, or in hand.                           *)
LEMMA WorkKept ==
  ASSUME ConsumerInv, [Next]_vars
  PROVE  WorkInv' /\ OwnerInv'
<1> USE DEF ConsumerInv
<1>0. Done(0)
  BY DEF Done, Offsets
<1>1. ASSUME UNCHANGED <<bookmark, owner, pc, position, message, stored, handled>>
      PROVE  WorkInv' /\ OwnerInv'
  BY <1>1 DEF WorkInv, OwnerInv, Done
<1>2. ASSUME handled' = handled PROVE \A n : Done(n)' = Done(n)
  BY <1>2 DEF Done
<1>3. ASSUME NEW c \in Consumers, Assign(c) \/ Rebalance(c) PROVE WorkInv' /\ OwnerInv'
  <2>1. /\ owner' = c /\ handled' = handled /\ UNCHANGED <<pc, message>>
        /\ position' = [position EXCEPT ![c] = bookmark'] /\ stored' = Zero
        /\ pc[c] # "off"
    BY <1>3 DEF Assign, Rebalance, GiveTo, Member, historyVars
  <2>2. Done(bookmark')
    BY <1>3 DEF Assign, Rebalance, WorkInv, ConsumerTypeOK
  <2>3. WorkInv'
    BY <1>0, <1>2, <2>1, <2>2 DEF WorkInv, Zero
  <2>4. OwnerInv'
    BY <1>2, <2>1, <2>2 DEF OwnerInv, ConsumerTypeOK
  <2> QED
    BY <2>3, <2>4
<1>4. ASSUME NEW c \in Consumers, BackgroundCommit(c) PROVE WorkInv' /\ OwnerInv'
  <2>1. bookmark' = stored[c] /\ UNCHANGED <<owner, pc, position, message, stored, handled>>
    BY <1>4 DEF BackgroundCommit, runVars, historyVars
  <2> QED
    BY <1>2, <2>1 DEF WorkInv, OwnerInv
<1>5. ASSUME NEW c \in Consumers, Start(c) PROVE WorkInv' /\ OwnerInv'
  <2>1. /\ pc' = [pc EXCEPT ![c] = "polling"] /\ pc[c] = "off"
        /\ UNCHANGED <<bookmark, owner, position, message, stored, handled>>
    BY <1>5 DEF Start, Goto, brokerVars
  <2> QED
    BY <1>2, <2>1 DEF WorkInv, OwnerInv, ConsumerTypeOK
<1>6. ASSUME NEW c \in Consumers, EmptyPoll(c) PROVE WorkInv' /\ OwnerInv'
  BY <1>1, <1>6 DEF EmptyPoll, historyVars
<1>7. ASSUME NEW c \in Consumers,
             \/ LimitReached(c) \/ RefuseRecord(c) \/ PollError(c)
             \/ CommitRefused(c) \/ AnswerLost(c)
      PROVE  WorkInv' /\ OwnerInv'
  <2>1. /\ pc' = [pc EXCEPT ![c] = "closing"]
        /\ UNCHANGED <<bookmark, owner, position, message, stored, handled>>
    BY <1>7 DEF LimitReached, RefuseRecord, PollError, CommitRefused, AnswerLost, Goto,
                brokerVars, runVars, historyVars
  <2> QED
    BY <1>2, <2>1 DEF WorkInv, OwnerInv, ConsumerTypeOK
<1>8. ASSUME NEW c \in Consumers, Fetch(c) PROVE WorkInv' /\ OwnerInv'
  <2>1. /\ owner = c /\ pc[c] = "polling" /\ pc' = [pc EXCEPT ![c] = "fetched"]
        /\ message' = [message EXCEPT ![c] = position[c]]
        /\ position' = [position EXCEPT ![c] = position[c] + 1]
        /\ UNCHANGED <<bookmark, owner, stored, handled>>
    BY <1>8 DEF Fetch, Goto, brokerVars, historyVars
  <2>2. Done(position[c])
    BY <2>1 DEF OwnerInv
  <2>3. /\ pc'[c] = "fetched" /\ message'[c] = position[c] /\ position'[c] = position[c] + 1
        /\ \A d \in Consumers \ {c} :
             pc'[d] = pc[d] /\ message'[d] = message[d] /\ position'[d] = position[d]
    BY <2>1 DEF ConsumerTypeOK
  <2>4. WorkInv'
    BY <1>2, <2>1, <2>2, <2>3 DEF WorkInv
  <2>5. OwnerInv'
    BY <2>1, <2>3 DEF OwnerInv
  <2> QED
    BY <2>4, <2>5
<1>9. ASSUME NEW c \in Consumers, Handle(c) PROVE WorkInv' /\ OwnerInv'
  <2>1. /\ pc[c] = "fetched" /\ pc' = [pc EXCEPT ![c] = "handled"]
        /\ handled' = handled \cup {message[c]}
        /\ UNCHANGED <<bookmark, owner, position, message, stored>>
    BY <1>9 DEF Handle, Goto, brokerVars, runVars
  <2>2. \A n : Done(n) => Done(n)'
    BY <2>1, DoneStays
  <2>3. Done(message[c]) /\ Done(message[c])'
    BY <2>1, <2>2 DEF WorkInv
  <2>4. message[c] \in Nat
    BY ConsumerAssumption DEF ConsumerTypeOK, Offsets
  <2>5. \A n : n = message[c] + 1 => Done(n)'
    BY <2>1, <2>3, <2>4, ConsumerAssumption DEF Done, Offsets
  <2>6. pc'[c] = "handled" /\ \A d \in Consumers \ {c} : pc'[d] = pc[d]
    BY <2>1 DEF ConsumerTypeOK
  <2>7. WorkInv'
    <3>1. Done(bookmark)' /\ \A o \in handled' : Done(o)'
      BY <2>1, <2>2, <2>3 DEF WorkInv
    <3>2. ASSUME NEW d \in Consumers
          PROVE  /\ Done(stored[d])'
                 /\ pc'[d] = "fetched" => Done(message[d])'
                 /\ pc'[d] \in {"handled", "applied"} => Done(message[d] + 1)'
      <4>1. CASE d = c
        BY <2>1, <2>2, <2>5, <2>6, <4>1 DEF WorkInv
      <4>2. CASE d # c
        BY <2>1, <2>2, <2>6, <4>2 DEF WorkInv
      <4> QED
        BY <4>1, <4>2
    <3> QED
      BY <3>1, <3>2 DEF WorkInv
  <2>8. OwnerInv'
    BY <2>1, <2>2, <2>5, <2>6 DEF OwnerInv
  <2> QED
    BY <2>7, <2>8
<1>10. ASSUME NEW c \in Consumers, CommitReaches(c) PROVE WorkInv' /\ OwnerInv'
  <2>1. /\ pc[c] = "handled" /\ pc' = [pc EXCEPT ![c] = "applied"]
        /\ bookmark' = message[c] + 1
        /\ UNCHANGED <<owner, position, message, stored, handled>>
    BY <1>10 DEF CommitReaches, NextReadingPosition, Goto, runVars, historyVars
  <2>2. pc'[c] = "applied" /\ \A d \in Consumers \ {c} : pc'[d] = pc[d]
    BY <2>1 DEF ConsumerTypeOK
  <2> QED
    BY <1>2, <2>1, <2>2 DEF WorkInv, OwnerInv
<1>11. ASSUME NEW c \in Consumers, CommitConfirmed(c) PROVE WorkInv' /\ OwnerInv'
  <2>1. /\ pc[c] = "applied"
        /\ pc' \in {[pc EXCEPT ![c] = "polling"], [pc EXCEPT ![c] = "closing"]}
        /\ UNCHANGED <<bookmark, owner, position, message, stored, handled>>
    BY <1>11 DEF CommitConfirmed, Goto, brokerVars
  <2>2. pc'[c] \in {"polling", "closing"} /\ \A d \in Consumers \ {c} : pc'[d] = pc[d]
    BY <2>1 DEF ConsumerTypeOK
  <2> QED
    BY <1>2, <2>1, <2>2 DEF WorkInv, OwnerInv
<1>12. ASSUME NEW c \in Consumers, StoreOffset(c) PROVE WorkInv' /\ OwnerInv'
  <2>1. /\ pc[c] = "handled"
        /\ \/ /\ stored' = [stored EXCEPT ![c] = message[c] + 1]
              /\ pc' = [pc EXCEPT ![c] = "polling"]
           \/ stored' = stored /\ pc' = [pc EXCEPT ![c] = "closing"]
        /\ UNCHANGED <<bookmark, owner, position, message, handled>>
    BY <1>12 DEF StoreOffset, NextReadingPosition, Goto, brokerVars
  <2>2. /\ pc'[c] \in {"polling", "closing"} /\ \A d \in Consumers \ {c} : pc'[d] = pc[d]
        /\ stored'[c] \in {message[c] + 1, stored[c]}
        /\ \A d \in Consumers \ {c} : stored'[d] = stored[d]
    BY <2>1 DEF ConsumerTypeOK
  <2> QED
    BY <1>2, <2>1, <2>2 DEF WorkInv, OwnerInv
<1>13. ASSUME NEW c \in Consumers, CloseConsumer(c) \/ Crash(c) PROVE WorkInv' /\ OwnerInv'
  <2>1. /\ pc' = [pc EXCEPT ![c] = "off"] /\ stored' = [stored EXCEPT ![c] = 0]
        /\ owner' = IF owner = c THEN NoConsumer ELSE owner
        /\ bookmark' \in {bookmark, stored[c]}
        /\ UNCHANGED <<position, message, handled>>
    BY <1>13 DEF CloseConsumer, Crash, Leave, Goto, historyVars
  <2>2. /\ pc'[c] = "off" /\ \A d \in Consumers \ {c} : pc'[d] = pc[d]
        /\ stored'[c] = 0 /\ \A d \in Consumers \ {c} : stored'[d] = stored[d]
        /\ owner' # c
    BY <2>1, ConsumerAssumption DEF ConsumerTypeOK
  <2>3. WorkInv'
    BY <1>0, <1>2, <2>1, <2>2 DEF WorkInv
  <2>4. OwnerInv'
    BY <1>2, <2>1, <2>2, ConsumerAssumption DEF OwnerInv
  <2> QED
    BY <2>3, <2>4
<1>14. CASE (\E kind \in Kinds : Publish(kind)) \/ UNCHANGED vars
  BY <1>1, <1>14 DEF Publish, vars, brokerVars, runVars, historyVars
<1> QED
  BY <1>3, <1>4, <1>5, <1>6, <1>7, <1>8, <1>9, <1>10, <1>11, <1>12, <1>13, <1>14
  DEF Next, RunStep, FaultStep

-----------------------------------------------------------------------------
(* Every variable keeps its type, a run counts what was confirmed to it,   *)
(* and every position that may be committed has its work done.             *)
THEOREM ConsumerSafe == Spec => []ConsumerInv
<1>1. Init => ConsumerInv
  <2> SUFFICES ASSUME Init PROVE ConsumerInv
    OBVIOUS
  <2>1. ConsumerTypeOK
    <3>1. <<>> \in Seq(Kinds) /\ Len(<<>>) = 0
      OBVIOUS
    <3>2. 0 \in 0 .. MaxRecords /\ 0 \in 0 .. MaxMessages /\ 0 \in 0 .. MaxEmptyPolls
          /\ 0 \in 0 .. MaxFaults
      BY ConsumerAssumption
    <3>3. \A S : 0 \in S => Zero \in [Consumers -> S]
      BY DEF Zero
    <3>4. [c \in Consumers |-> "off"] \in [Consumers -> Steps]
      BY DEF Steps
    <3>5. Zero \in [Consumers -> 0 .. MaxRecords] /\ Zero \in [Consumers -> 0 .. MaxMessages]
          /\ Zero \in [Consumers -> 0 .. MaxEmptyPolls] /\ Zero \in [Consumers -> Offsets \cup {0}]
      BY <3>2, <3>3
    <3>6. /\ lesson \in Lessons /\ log \in Seq(Kinds) /\ Len(log) <= MaxRecords
          /\ bookmark \in 0 .. MaxRecords /\ faults \in 0 .. MaxFaults
          /\ owner \in Consumers \cup {NoConsumer}
      BY <3>1, <3>2 DEF Init
    <3>7. handled \subseteq Offsets /\ repeated \in BOOLEAN
      BY DEF Init
    <3>8. /\ pc \in [Consumers -> Steps]
          /\ position = Zero /\ message = Zero /\ stored = Zero
          /\ count = Zero /\ emptyPolls = Zero /\ confirmed = Zero
      BY <3>4 DEF Init
    <3> QED
      BY <3>5, <3>6, <3>7, <3>8 DEF ConsumerTypeOK
  <2>2. RunInv /\ WorkInv /\ OwnerInv
    BY ConsumerAssumption DEF Init, Zero, RunInv, InHand, WorkInv, OwnerInv, Done, Offsets
  <2> QED
    BY <2>1, <2>2 DEF ConsumerInv
<1>2. ConsumerInv /\ [Next]_vars => ConsumerInv'
  BY TypesKept, RunsKept, WorkKept DEF ConsumerInv
<1> QED
  BY <1>1, <1>2, PTL DEF Spec

(* commit(message=...) and store_offsets after the handler: whatever        *)
(* crashes, moves or comes late, the group's bookmark never passes a record *)
(* whose business work was not done.                                        *)
THEOREM WorkIsNotSkipped == Spec => []NothingSkipped
<1>1. ConsumerInv => NothingSkipped
  BY DEF ConsumerInv, WorkInv, Done, NothingSkipped
<1> QED
  BY <1>1, ConsumerSafe, PTL

\* What Done says, as the contract says it.
LEMMA DoneBelow ==
  ASSUME NEW n \in 0 .. MaxRecords, Done(n)
  PROVE  0 .. n - 1 \subseteq handled
BY ConsumerAssumption DEF Done, Offsets

(* The group processes the partition at least once, each record for the    *)
(* first time only when all those before it have been, and resumes from no *)
(* later than what it has processed.                                       *)
THEOREM DeliveryContractKept == Spec => KeepsDeliveryContract
<1> USE ConsumerAssumption
<1>1. Init => Contract!Init
  BY DEF Init, Contract!Init
<1>2. ConsumerInv /\ ConsumerInv' /\ [Next]_vars => [Contract!Next]_(Contract!vars)
  <2> SUFFICES ASSUME ConsumerInv, ConsumerInv', [Next]_vars
               PROVE  Contract!Next \/ UNCHANGED <<handled, bookmark>>
    BY DEF Contract!vars
  <2>1. CASE handled' = handled
    <3>1. bookmark' \in 0 .. MaxRecords /\ Done(bookmark')
      BY <2>1 DEF ConsumerInv, WorkInv, ConsumerTypeOK, Done
    <3>2. 0 .. bookmark' - 1 \subseteq handled
      BY <3>1, DoneBelow
    <3>3. bookmark' \in Nat
      BY <3>1
    <3> QED
      BY <2>1, <3>2, <3>3 DEF Contract!Next, Contract!MoveBookmark, Contract!ProcessedBelow
  <2>2. CASE handled' # handled
    <3>1. PICK c \in Consumers : Handle(c)
      BY <2>2 DEF Next, vars, historyVars, Publish, Start, Assign, BackgroundCommit, RunStep,
           FaultStep, LimitReached, EmptyPoll, Fetch, RefuseRecord, CommitReaches,
           CommitConfirmed, StoreOffset, CloseConsumer, Leave, Rebalance, PollError,
           CommitRefused, AnswerLost, Crash
    <3>2. handled' = handled \cup {message[c]} /\ bookmark' = bookmark
      BY <3>1 DEF Handle, brokerVars
    <3>3. message[c] \in Offsets /\ Done(message[c])
      BY <3>1 DEF Handle, ConsumerInv, RunInv, InHand, WorkInv
    <3>4. 0 .. message[c] - 1 \subseteq handled
      BY <3>3, DoneBelow DEF Offsets
    <3>5. Contract!ProcessFirstTime(message[c])
      BY <2>2, <3>2, <3>4 DEF Contract!ProcessFirstTime, Contract!ProcessedBelow
    <3> QED
      BY <3>3, <3>5 DEF Contract!Next
  <2> QED
    BY <2>1, <2>2
<1> QED
  BY <1>1, <1>2, ConsumerSafe, PTL DEF Spec, KeepsDeliveryContract, Contract!Spec

-----------------------------------------------------------------------------
(* Without a fault                                                         *)

\* Where the partition is read from if c leaves now.
Resume(c) == IF stored[c] # 0 THEN stored[c] ELSE bookmark

\* Only the owner has a record in hand, and it is beyond all that is done.
OwnerIsAhead(c) ==
  /\ InHand(c) => owner = c /\ position[c] = message[c] + 1
  /\ owner = c =>
       /\ pc[c] # "handled" => \A o \in handled : o < Resume(c)
       /\ pc[c] = "polling" => Resume(c) <= position[c]
       /\ pc[c] = "fetched" => Resume(c) <= message[c]
       /\ pc[c] = "handled" => \A o \in handled : o <= message[c]
       /\ pc[c] = "applied" => bookmark = message[c] + 1 /\ stored[c] = 0

QuietInv ==
  /\ ~StoreMode => stored = Zero
  /\ faults = 0 =>
       /\ ~repeated
       /\ owner = NoConsumer => \A o \in handled : o < bookmark
       /\ \A c \in Consumers : OwnerIsAhead(c)

LEMMA Numbers ==
  ASSUME ConsumerTypeOK, NEW c \in Consumers
  PROVE  message[c] \in Nat /\ Resume(c) \in Nat /\ handled \subseteq Nat
<1>1. message[c] \in Offsets \cup {0} /\ handled \subseteq Offsets
  BY DEF ConsumerTypeOK
<1>2. Resume(c) \in Nat
  BY DEF ConsumerTypeOK, Resume
<1>3. \A o \in handled : o \in Nat
  BY <1>1 DEF Offsets
<1>4. message[c] \in Nat
  BY <1>1 DEF Offsets
<1> QED
  BY <1>2, <1>3, <1>4

LEMMA QuietKept ==
  ASSUME ConsumerInv, ConsumerInv', QuietInv, [Next]_vars
  PROVE  QuietInv'
<1> USE ConsumerAssumption
<1> DEFINE Ahead == \A c \in Consumers : OwnerIsAhead(c)
<1>1. ~StoreMode' => stored' = Zero
  <2>1. lesson' = lesson
    BY DEF Next, vars, brokerVars, Publish, Start, Assign, BackgroundCommit, RunStep, FaultStep,
         LimitReached, EmptyPoll, Fetch, Handle, RefuseRecord, CommitReaches, CommitConfirmed,
         StoreOffset, CloseConsumer, Leave, Rebalance, PollError, CommitRefused, AnswerLost, Crash
  <2>2. ~StoreMode => \/ stored' = stored
                      \/ stored' = Zero
                      \/ \E c \in Consumers : stored' = [stored EXCEPT ![c] = 0]
    BY DEF Next, vars, runVars, Publish, Start, Assign, GiveTo, BackgroundCommit, RunStep,
         FaultStep, LimitReached, EmptyPoll, Fetch, Handle, RefuseRecord, CommitReaches,
         CommitConfirmed, StoreOffset, CloseConsumer, Leave, Rebalance, PollError, CommitRefused,
         AnswerLost, Crash
  <2> QED
    BY <2>1, <2>2 DEF QuietInv, StoreMode, Zero
<1>2. SUFFICES ASSUME faults' = 0
               PROVE  /\ ~repeated'
                      /\ owner' = NoConsumer => \A o \in handled' : o < bookmark'
                      /\ Ahead'
  BY <1>1 DEF QuietInv
<1> DEFINE Goal == /\ ~repeated'
                   /\ owner' = NoConsumer => \A o \in handled' : o < bookmark'
                   /\ Ahead'
<1>3. faults \in Nat
  BY DEF ConsumerInv, ConsumerTypeOK
<1>4. ~Fault
  BY <1>2, <1>3 DEF Fault
<1>5. ASSUME faults' = faults
      PROVE  /\ ~repeated
             /\ owner = NoConsumer => \A o \in handled : o < bookmark
             /\ Ahead
  BY <1>2, <1>5 DEF QuietInv
<1>6. ASSUME UNCHANGED <<bookmark, owner, faults, pc, position, message, stored, handled, repeated>>
      PROVE  Goal
  BY <1>5, <1>6 DEF OwnerIsAhead, InHand, Resume
<1>7. ASSUME NEW c \in Consumers, Assign(c) PROVE Goal
  <2>1. /\ owner = NoConsumer /\ owner' = c /\ pc[c] \notin {"off", "closing"}
        /\ position' = [position EXCEPT ![c] = bookmark] /\ stored' = Zero
        /\ UNCHANGED <<bookmark, faults, pc, message, handled, repeated>>
    BY <1>7 DEF Assign, GiveTo, Member, historyVars
  <2>2. pc[c] = "polling" /\ \A d \in Consumers : ~InHand(d)
    BY <1>5, <2>1 DEF OwnerIsAhead, InHand, ConsumerInv, ConsumerTypeOK, Steps
  <2>3. position'[c] = bookmark /\ \A d \in Consumers : stored'[d] = 0
    BY <2>1 DEF ConsumerInv, ConsumerTypeOK, Zero
  <2>4. bookmark \in Nat
    BY DEF ConsumerInv, ConsumerTypeOK
  <2> QED
    BY <1>5, <2>1, <2>2, <2>3, <2>4 DEF OwnerIsAhead, InHand, Resume
<1>8. ASSUME NEW c \in Consumers, BackgroundCommit(c) PROVE Goal
  <2>1. /\ owner = c /\ stored[c] # 0 /\ bookmark' = stored[c]
        /\ UNCHANGED <<owner, faults, pc, position, message, stored, handled, repeated>>
    BY <1>8 DEF BackgroundCommit, runVars, historyVars
  <2> QED
    BY <1>5, <2>1 DEF OwnerIsAhead, InHand, Resume
<1>9. ASSUME NEW c \in Consumers, Start(c) PROVE Goal
  <2>1. /\ pc[c] = "off" /\ pc' = [pc EXCEPT ![c] = "polling"]
        /\ UNCHANGED <<bookmark, owner, faults, position, message, stored, handled, repeated>>
    BY <1>9 DEF Start, Goto, brokerVars
  <2>2. owner # c /\ pc'[c] = "polling" /\ \A d \in Consumers \ {c} : pc'[d] = pc[d]
    BY <2>1 DEF ConsumerInv, ConsumerTypeOK, OwnerInv
  <2> QED
    BY <1>5, <2>1, <2>2 DEF OwnerIsAhead, InHand, Resume
<1>10. ASSUME NEW c \in Consumers,
              LimitReached(c) \/ RefuseRecord(c) \/ CommitRefused(c)
       PROVE  Goal
  <2>1. /\ pc[c] \in {"polling", "fetched", "handled"} /\ (pc[c] = "handled" => owner # c)
        /\ pc' = [pc EXCEPT ![c] = "closing"]
        /\ UNCHANGED <<bookmark, owner, faults, position, message, stored, handled, repeated>>
    BY <1>4, <1>10 DEF LimitReached, RefuseRecord, CommitRefused, Goto, brokerVars, runVars,
                       historyVars
  <2>2. pc'[c] = "closing" /\ \A d \in Consumers \ {c} : pc'[d] = pc[d]
    BY <2>1 DEF ConsumerInv, ConsumerTypeOK
  <2> QED
    BY <1>5, <2>1, <2>2 DEF OwnerIsAhead, InHand, Resume
<1>11. ASSUME NEW c \in Consumers, EmptyPoll(c) PROVE Goal
  <2>1. UNCHANGED <<bookmark, owner, faults, pc, position, message, stored, handled, repeated>>
    BY <1>4, <1>11 DEF EmptyPoll, historyVars
  <2> QED
    BY <1>6, <2>1
<1>12. ASSUME NEW c \in Consumers, Fetch(c) PROVE Goal
  <2>1. /\ owner = c /\ pc[c] = "polling" /\ pc' = [pc EXCEPT ![c] = "fetched"]
        /\ message' = [message EXCEPT ![c] = position[c]]
        /\ position' = [position EXCEPT ![c] = position[c] + 1]
        /\ UNCHANGED <<bookmark, owner, faults, stored, handled, repeated>>
    BY <1>12 DEF Fetch, Goto, brokerVars, historyVars
  <2>2. /\ pc'[c] = "fetched" /\ message'[c] = position[c] /\ position'[c] = position[c] + 1
        /\ \A d \in Consumers \ {c} :
             pc'[d] = pc[d] /\ message'[d] = message[d] /\ position'[d] = position[d]
    BY <2>1 DEF ConsumerInv, ConsumerTypeOK
  <2> QED
    BY <1>5, <2>1, <2>2 DEF OwnerIsAhead, InHand, Resume
<1>13. ASSUME NEW c \in Consumers, Handle(c) PROVE Goal
  <2>1. /\ pc[c] = "fetched" /\ pc' = [pc EXCEPT ![c] = "handled"]
        /\ handled' = handled \cup {message[c]}
        /\ repeated' = (repeated \/ message[c] \in handled)
        /\ UNCHANGED <<bookmark, owner, faults, position, message, stored>>
    BY <1>13 DEF Handle, Goto, brokerVars, runVars
  <2>2. pc'[c] = "handled" /\ \A d \in Consumers \ {c} : pc'[d] = pc[d]
    BY <2>1 DEF ConsumerInv, ConsumerTypeOK
  <2>3. message[c] \in Nat /\ Resume(c) \in Nat /\ handled \subseteq Nat
    BY Numbers DEF ConsumerInv
  <2>4. /\ owner = c /\ position[c] = message[c] + 1 /\ Resume(c) <= message[c]
        /\ \A o \in handled : o < Resume(c)
    BY <1>5, <2>1 DEF OwnerIsAhead, InHand
  <2>5. /\ message[c] \notin handled
        /\ \A o \in handled' : o <= message[c]
    BY <2>1, <2>3, <2>4
  <2> QED
    BY <1>5, <2>1, <2>2, <2>4, <2>5 DEF OwnerIsAhead, InHand, Resume
<1>14. ASSUME NEW c \in Consumers, CommitReaches(c) PROVE Goal
  <2>1. /\ pc[c] = "handled" /\ pc' = [pc EXCEPT ![c] = "applied"] /\ stored[c] = 0
        /\ bookmark' = message[c] + 1
        /\ UNCHANGED <<owner, faults, position, message, stored, handled, repeated>>
    BY <1>14 DEF CommitReaches, NextReadingPosition, Goto, QuietInv, Zero, runVars, historyVars
  <2>2. pc'[c] = "applied" /\ \A d \in Consumers \ {c} : pc'[d] = pc[d]
    BY <2>1 DEF ConsumerInv, ConsumerTypeOK
  <2>3. message[c] \in Nat /\ handled \subseteq Nat
    BY Numbers DEF ConsumerInv
  <2>4. owner = c /\ position[c] = message[c] + 1 /\ \A o \in handled : o < message[c] + 1
    BY <1>5, <2>1, <2>3 DEF OwnerIsAhead, InHand
  <2> QED
    BY <1>5, <2>1, <2>2, <2>4 DEF OwnerIsAhead, InHand, Resume
<1>15. ASSUME NEW c \in Consumers, CommitConfirmed(c) PROVE Goal
  <2>1. /\ pc[c] = "applied"
        /\ \/ pc' = [pc EXCEPT ![c] = "polling"]
           \/ pc' = [pc EXCEPT ![c] = "closing"]
        /\ UNCHANGED <<bookmark, owner, faults, position, message, stored, handled, repeated>>
    BY <1>15 DEF CommitConfirmed, Goto, brokerVars
  <2>2. pc'[c] \in {"polling", "closing"} /\ \A d \in Consumers \ {c} : pc'[d] = pc[d]
    BY <2>1 DEF ConsumerInv, ConsumerTypeOK
  <2>3. bookmark \in Nat
    BY DEF ConsumerInv, ConsumerTypeOK
  <2> QED
    BY <1>5, <2>1, <2>2, <2>3 DEF OwnerIsAhead, InHand, Resume
<1>16. ASSUME NEW c \in Consumers, StoreOffset(c) PROVE Goal
  <2>1. pc[c] = "handled" /\ owner = c /\ position[c] = message[c] + 1
    BY <1>5, <1>16 DEF StoreOffset, OwnerIsAhead, InHand, brokerVars
  <2>2. /\ pc' = [pc EXCEPT ![c] = "polling"]
        /\ stored' = [stored EXCEPT ![c] = message[c] + 1]
        /\ UNCHANGED <<bookmark, owner, faults, position, message, handled, repeated>>
    BY <1>16, <2>1 DEF StoreOffset, NextReadingPosition, Goto, brokerVars
  <2>3. message[c] \in Nat /\ handled \subseteq Nat
    BY Numbers DEF ConsumerInv
  <2>4. /\ pc'[c] = "polling" /\ \A d \in Consumers \ {c} : pc'[d] = pc[d]
        /\ stored'[c] = message[c] + 1
    BY <2>2 DEF ConsumerInv, ConsumerTypeOK
  <2>5. \A o \in handled : o < message[c] + 1
    BY <1>5, <2>1, <2>2, <2>3 DEF OwnerIsAhead
  <2>6. Resume(c)' = message[c] + 1
    BY <2>3, <2>4 DEF Resume
  <2> QED
    BY <1>5, <2>1, <2>2, <2>3, <2>4, <2>5, <2>6 DEF OwnerIsAhead, InHand
<1>17. ASSUME NEW c \in Consumers, CloseConsumer(c) PROVE Goal
  <2>1. /\ pc[c] = "closing" /\ pc' = [pc EXCEPT ![c] = "off"]
        /\ stored' = [stored EXCEPT ![c] = 0]
        /\ owner' = IF owner = c THEN NoConsumer ELSE owner
        /\ bookmark' = IF owner = c THEN Resume(c) ELSE bookmark
        /\ UNCHANGED <<faults, position, message, handled, repeated>>
    BY <1>17 DEF CloseConsumer, Leave, Goto, Resume, historyVars
  <2>2. /\ pc'[c] = "off" /\ \A d \in Consumers \ {c} : pc'[d] = pc[d] /\ stored'[d] = stored[d]
    BY <2>1 DEF ConsumerInv, ConsumerTypeOK
  <2>3. CASE owner = c
    BY <1>5, <2>1, <2>2, <2>3 DEF OwnerIsAhead, InHand
  <2>4. CASE owner # c
    BY <1>5, <2>1, <2>2, <2>4 DEF OwnerIsAhead, InHand, Resume
  <2> QED
    BY <2>3, <2>4
<1>18. ASSUME NEW c \in Consumers, Rebalance(c) \/ PollError(c) \/ AnswerLost(c) \/ Crash(c)
       PROVE  Goal
  BY <1>4, <1>18 DEF Rebalance, PollError, AnswerLost, Crash
<1>19. CASE (\E kind \in Kinds : Publish(kind)) \/ UNCHANGED vars
  BY <1>6, <1>19 DEF Publish, vars, brokerVars, runVars, historyVars
<1> QED
  BY <1>7, <1>8, <1>9, <1>10, <1>11, <1>12, <1>13, <1>14, <1>15, <1>16, <1>17, <1>18, <1>19
  DEF Next, RunStep, FaultStep

(* Limits, empty polls, restarts between runs and bad records repeat       *)
(* nothing: work is done twice after a crash, a rebalance or a lost or     *)
(* refused commit only.                                                    *)
THEOREM RepeatsOnlyAfterFaults == Spec => []RepeatsNeedFaults
<1>1. Init => QuietInv
  BY DEF Init, QuietInv, OwnerIsAhead, InHand, Zero
<1>2. ConsumerInv /\ ConsumerInv' /\ QuietInv /\ [Next]_vars => QuietInv'
  BY QuietKept
<1>3. ConsumerInv /\ QuietInv => RepeatsNeedFaults
  BY ConsumerAssumption DEF ConsumerInv, ConsumerTypeOK, QuietInv, RepeatsNeedFaults
<1> QED
  BY <1>1, <1>2, <1>3, ConsumerSafe, PTL DEF Spec

=============================================================================
