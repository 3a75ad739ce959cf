--------------------------- MODULE PublishContract ---------------------------
(***************************************************************************)
(* What publishing promises a caller, whatever the producer: a call takes  *)
(* its message into the client at most once; "queued" is only said of a    *)
(* message the client has taken, and "refused" (an exception, or a result  *)
(* that says so) only of one it has not, so that a refused message can be  *)
(* offered again without making a duplicate.                               *)
(***************************************************************************)
CONSTANT Messages

VARIABLES
  answer,     (* of the last call for each message: "none" while it runs   *)
  taken       (* messages the client has accepted                          *)

vars == <<answer, taken>>

Init ==
  /\ answer = [m \in Messages |-> "none"]
  /\ taken = {}

Say(m, what) == answer' = [answer EXCEPT ![m] = what]

Take(m) ==
  /\ m \notin taken /\ answer[m] = "none"
  /\ taken' = taken \cup {m}
  /\ UNCHANGED answer \/ Say(m, "queued")

Confirm(m) == m \in taken /\ answer[m] = "none" /\ Say(m, "queued") /\ UNCHANGED taken

Refuse(m) == m \notin taken /\ answer[m] = "none" /\ Say(m, "refused") /\ UNCHANGED taken

OfferAgain(m) == answer[m] = "refused" /\ Say(m, "none") /\ UNCHANGED taken

Next == \E m \in Messages : Take(m) \/ Confirm(m) \/ Refuse(m) \/ OfferAgain(m)

Spec == Init /\ [][Next]_vars

=============================================================================
