------------------------------ MODULE MCOutbox ------------------------------
(***************************************************************************)
(* The outbox in three small deployments of the same code:                 *)
(*   pair    two relays that contend for one event, no restarts;           *)
(*   mirror  a relay that may restart and the forwarder, one event;        *)
(*   batch   a relay with several events in one dispatch, no restarts.     *)
(***************************************************************************)
EXTENDS ResilientOutbox

CONSTANTS
  FirstRelay,    (* the relay of the deployments with one *)
  FirstEvent     (* the event of the deployments with one *)

VARIABLE deployment

Deployments ==
  {[relays |-> Relays, events |-> {FirstEvent}, forwarding |-> FALSE,
    restarts |-> MaxRestarts],
   [relays |-> {FirstRelay}, events |-> {FirstEvent}, forwarding |-> TRUE, restarts |-> 0],
   [relays |-> {FirstRelay}, events |-> Events, forwarding |-> FALSE,
    restarts |-> MaxRestarts]}

vars == <<outboxVars, deployment>>

\* A deployment may begin with its bound on restarts already spent.
Init ==
  /\ Start
  /\ deployment \in Deployments

DeployedRelaying ==
  /\ \/ \E r \in deployment.relays :
          WorkerActions(r) /\ restarts' + deployment.restarts <= MaxRestarts
     \/ \E e \in deployment.events : EventActions(e)
  /\ UNCHANGED <<forwarderVars, deployment>>

DeployedForwarding ==
  /\ deployment.forwarding
  /\ Forwarding
  /\ UNCHANGED deployment

Next == DeployedRelaying \/ DeployedForwarding

Spec == Init /\ [][Next]_vars

-----------------------------------------------------------------------------
(***************************************************************************)
(* A worker loop calls dispatch_once and service_events again and again;   *)
(* the client settles every message (delivery.timeout.ms); clocks advance; *)
(* a closed relay is replaced.  Reports are served between dispatches,     *)
(* which come and go: strong fairness.                                     *)
(***************************************************************************)
Deployed(r) == r \in deployment.relays

Fairness ==
  /\ \A r \in Relays :
       /\ WF_vars(Deployed(r) /\ RelayStep(r) /\ UNCHANGED <<forwarderVars, deployment>>)
       /\ WF_vars(Deployed(r) /\ CoolDown(r) /\ UNCHANGED <<forwarderVars, deployment>>)
       /\ WF_vars(Deployed(r) /\ Replace(r) /\ UNCHANGED <<forwarderVars, deployment>>)
       /\ WF_vars(Deployed(r) /\ (\E f \in QueueOf(r) : Decide(f))
                    /\ UNCHANGED <<forwarderVars, deployment>>)
       /\ SF_vars(Deployed(r) /\ (\E f \in QueueOf(r) : Serve(f))
                    /\ UNCHANGED <<forwarderVars, deployment>>)
  /\ \A e \in Events : WF_vars(ClockTicks(e) /\ UNCHANGED <<forwarderVars, deployment>>)

FairSpec == Spec /\ Fairness

\* An accepted event is delivered or quarantined in the end, whatever the
\* crashes, lost reports, expired leases and full queues: only if every relay
\* has lost its probe can a row be left where it is.
EventsAreSettled ==
  \A e \in Events :
    row[e].status = "pending"
      ~> \/ row[e].status \in {"delivered", "dead_letter"}
         \/ \A r \in deployment.relays : LostProbe(r)

=============================================================================
