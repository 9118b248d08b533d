----------------------------- MODULE MCEventBus -----------------------------
(***************************************************************************)
(* Instances of EventBus for TLC: two ids and three subscriber objects, so *)
(* that one id is subscribed twice; queues of one, so that they fill.      *)
(***************************************************************************)
EXTENDS EventBus

MCIds == {"tg-notifier", "email-notifier"}
=============================================================================
