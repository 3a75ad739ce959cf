------------------------ MODULE DeadLetterForwarder -------------------------
(***************************************************************************)
(* DeadLetterForwarder: one worker that mirrors quarantined rows to the    *)
(* DLQ topic.  forward_once reads the unpublished dead letters in one      *)
(* transaction and then produces a copy of each; a copy's callback marks   *)
(* the row by its event_id alone.  The producer's queue holds one copy at  *)
(* a time here: what the copies in it do to each other is nothing.         *)
(***************************************************************************)
EXTENDS SQLiteOutbox

CONSTANT NoCopy      (* the forwarder's producer has nothing queued *)

VARIABLES
  batch,       (* rows forward_once has read and not yet produced           *)
  copy,        (* the DLQ copy in the producer: event, round and fate       *)
  (* kept for observation *)
  mirrored     (* <<event, round>> of every copy in the DLQ topic           *)

forwarderVars == <<batch, copy, mirrored>>

\* A row as read: its event and the round it was in.
Snapshot(e) == [event |-> e, round |-> row[e].round]

ForwarderInit ==
  /\ batch = {}
  /\ copy = NoCopy
  /\ mirrored = {}

ForwardOnce ==
  /\ batch = {} /\ PendingDeadLetters # {}
  /\ batch' = {Snapshot(e) : e \in PendingDeadLetters}
  /\ UNCHANGED <<row, copy, mirrored>>

ProduceCopy(d) ==
  /\ d \in batch /\ copy = NoCopy
  /\ batch' = batch \ {d}
  /\ copy' = [event |-> d.event, round |-> d.round, fate |-> "sent"]
  /\ UNCHANGED <<row, mirrored>>

\* BufferError: the rest of the batch waits for a later cycle.
CopyRefused ==
  /\ batch # {} /\ copy # NoCopy
  /\ batch' = {}
  /\ UNCHANGED <<row, copy, mirrored>>

DlqDecides(fate) ==
  /\ copy # NoCopy /\ copy.fate = "sent"
  /\ copy' = [copy EXCEPT !.fate = fate]
  /\ \/ mirrored' = mirrored \cup {<<copy.event, copy.round>>}
     \/ fate = "failed" /\ mirrored' = mirrored
  /\ UNCHANGED <<row, batch>>

\* Mutant: the callback does not look at the error.
CopyReportedAnyway ==
  /\ copy # NoCopy /\ copy.fate # "sent"
  /\ MarkDlqPublished(copy.event)
  /\ copy' = NoCopy
  /\ UNCHANGED <<batch, mirrored>>

CopyReported ==
  /\ copy # NoCopy /\ copy.fate # "sent"
  /\ IF copy.fate = "acked" THEN MarkDlqPublished(copy.event) ELSE UNCHANGED row
  /\ copy' = NoCopy
  /\ UNCHANGED <<batch, mirrored>>

ForwarderNext ==
  \/ ForwardOnce
  \/ \E d \in batch : ProduceCopy(d)
  \/ CopyRefused
  \/ \E fate \in {"acked", "failed"} : DlqDecides(fate)
  \/ CopyReported

\* A row marked dlq_published has a copy of its event in the DLQ topic.
PublishedMeansMirrored ==
  \A e \in Events : row[e].dlqPublished => \E d \in mirrored : d[1] = e

=============================================================================
