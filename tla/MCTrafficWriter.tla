-------------------------- MODULE MCTrafficWriter --------------------------
(***************************************************************************)
(* Instances of TrafficWriter for TLC: three callers, so that one write is *)
(* being applied, one queued and one blocked on the full channel.          *)
(***************************************************************************)
EXTENDS TrafficWriter

MCSubmitters == {"s1", "s2", "s3"}
=============================================================================
