-------------------------- MODULE MCXrayLifecycle --------------------------
(***************************************************************************)
(* Instances of XrayLifecycle for TLC: two bases that work and one that    *)
(* fails at a stage of RestartXray, one client.                            *)
(***************************************************************************)
EXTENDS XrayLifecycle

MCBases == {"b1", "b2", "bad"}
MCInitDb == [users |-> {}, base |-> "b1"]
MCUsers == {"u1", "u2"}
MCInitUsers == [users |-> MCUsers, base |-> "b1"]
MCNone == {}
MCBad == {"bad"}

\* Callers of each run.
FlagOnly == {"pending", "watchdog", "flagged"}
WithDirect == FlagOnly \cup {"operator", "stopper", "direct"}
Recovering == {"operator", "stopper", "pending", "watchdog", "traffic", "nodesync", "template",
               "tunnel", "panelcrash"}
=============================================================================
