------------------------------- MODULE Gateway -------------------------------
(***************************************************************************)
(* The requests of a Gateway client at one channel's orchestrators: an     *)
(* Evaluate, routed by EvaluateRouting, or an Endorse with its Submit,     *)
(* collected by EndorsementCollect.  Both use the same remote contacts and *)
(* neither leaves anything behind for the other.                           *)
(***************************************************************************)
EXTENDS EndorsementCollect, EvaluateRouting

\* A client may name organizations without an orchestrator that endorses.
ASSUME GatewayAssumption == Orgs \subseteq Msps

gatewayVars == <<vars, routing>>

GatewayInit == Init /\ RoutingInit

\* A request is of one kind from its arrival on.
GatewayNext ==
  \/ request = Nothing /\ Next /\ UNCHANGED routing
  \/ pc = "idle" /\ RoutingNext /\ UNCHANGED vars

GatewaySpec == GatewayInit /\ [][GatewayNext]_gatewayVars
=============================================================================
