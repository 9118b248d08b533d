-------------------------- MODULE MCTunnelMonitor ---------------------------
(***************************************************************************)
(* Instances of TunnelMonitor for TLC: a cooldown longer than the run of   *)
(* failures that triggers, so that the two meet in every order.            *)
(***************************************************************************)
EXTENDS TunnelMonitor
=============================================================================
