--------------------------- MODULE MCWebSocketHub ---------------------------
(***************************************************************************)
(* Instances of WebSocketHub for TLC: two connections and an ops channel   *)
(* of one, so that an unregister is dropped; buffers of one, so that they  *)
(* fill.                                                                   *)
(***************************************************************************)
EXTENDS WebSocketHub

MCClients == {"a", "b"}
=============================================================================
