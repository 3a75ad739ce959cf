----------------------------- MODULE AtLeastOnce -----------------------------
(***************************************************************************)
(* At-least-once processing of one partition: every record is processed    *)
(* for the first time in the log's order, and the group's bookmark never   *)
(* stands beyond the records that have been processed.  It may go back     *)
(* (records are then processed again); it never skips.                     *)
(***************************************************************************)
EXTENDS Integers

CONSTANT
  Offsets      (* those of the log, from 0 on *)

VARIABLES
  processed,   (* the offsets of the records processed at least once *)
  bookmark     (* the offset the group resumes from                  *)

vars == <<processed, bookmark>>

Init == processed = {} /\ bookmark = 0

ProcessedBelow(n) == 0 .. n - 1 \subseteq processed

ProcessFirstTime(o) ==
  /\ o \notin processed
  /\ ProcessedBelow(o)
  /\ processed' = processed \cup {o}
  /\ UNCHANGED bookmark

MoveBookmark ==
  /\ bookmark' \in Nat
  /\ ProcessedBelow(bookmark')
  /\ UNCHANGED processed

Next == (\E o \in Offsets : ProcessFirstTime(o)) \/ MoveBookmark

Spec == Init /\ [][Next]_vars

=============================================================================
