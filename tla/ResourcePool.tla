---------------------------- MODULE ResourcePool ----------------------------
(***************************************************************************)
(* What a concurrency limiter promises, and nothing of how it is built:    *)
(* at any time at most Capacity clients hold a slot, a client takes a slot *)
(* only while one is left, and a slot that is given back can be taken      *)
(* again.  Bulkhead implements it.                                         *)
(***************************************************************************)
EXTENDS Integers, FiniteSets

CONSTANTS
  Clients,    (* who may ask for a slot     *)
  Capacity    (* the number of slots        *)

VARIABLE
  holders     (* the clients that own a slot *)

Init == holders = {}

Take(c) ==
  /\ c \notin holders
  /\ Cardinality(holders) < Capacity
  /\ holders' = holders \union {c}

GiveBack(c) ==
  /\ c \in holders
  /\ holders' = holders \ {c}

Next == \E c \in Clients : Take(c) \/ GiveBack(c)

Spec == Init /\ [][Next]_holders

=============================================================================
