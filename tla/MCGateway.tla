------------------------------ MODULE MCGateway ------------------------------
(***************************************************************************)
(* The gateway with model values for sockets and requests.  The run also   *)
(* checks liveness, so no symmetry is used.                                *)
(***************************************************************************)
EXTENDS GatewayProperties
=============================================================================
