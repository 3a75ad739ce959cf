------------------------------ MODULE SendCalls ------------------------------
(* What the parts of the dead-letter-queue producer have in common: the    *)
(* calls that share them.                                                  *)

CONSTANT
  Calls    (* executions of send_with_fault_tolerance *)

=============================================================================
