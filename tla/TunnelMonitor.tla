--------------------------- MODULE TunnelMonitor ----------------------------
(***************************************************************************)
(* The tunnel health monitor: one goroutine probes the tunnel at every     *)
(* tick and restarts the core after a run of failed probes, unless it did  *)
(* so a short time ago.  Time is counted in ticks; a restart may take      *)
(* several of them, during which no probe runs.                            *)
(***************************************************************************)
EXTENDS Integers

CONSTANTS
  FailureThreshold,  \* cfg.FailureThreshold after Normalize
  Cooldown,          \* cfg.Cooldown in ticks
  Slowest            \* bound: ticks a recovery may take

ASSUME MonitorConstants ==
  /\ FailureThreshold \in Nat \ {0} /\ Cooldown \in Nat \ {0}
  /\ Slowest \in Nat

VARIABLES
  tunnel,        \* whether a probe succeeds now
  mpc,           \* "waiting" for the ticker, or "recovering"
  failures,      \* m.failures
  lastRecovery,  \* ticks since m.lastRecovery, up to Cooldown; Cooldown: long ago or never
  began,         \* ticks since the recovery in progress began: now in Step
  spacing,       \* history: ticks since the last restart was begun, up to Cooldown
  completed      \* history: the last restart begun succeeded

monitorVars == <<tunnel, mpc, failures, lastRecovery, began, spacing, completed>>

Older(age) == IF age < Cooldown THEN age + 1 ELSE age

NewMonitor ==
  /\ tunnel \in BOOLEAN /\ mpc = "waiting" /\ failures = 0
  /\ lastRecovery = Cooldown /\ began = 0
  /\ spacing = Cooldown /\ completed = FALSE

\* The world: the tunnel breaks, or comes back.
TunnelChanges ==
  /\ tunnel' = ~tunnel
  /\ UNCHANGED <<mpc, failures, lastRecovery, began, spacing, completed>>

-----------------------------------------------------------------------------
(* Step, at a tick; every age grows by one. *)

ProbeSucceeds ==
  /\ mpc = "waiting" /\ tunnel
  /\ failures' = 0
  /\ lastRecovery' = Older(lastRecovery) /\ spacing' = Older(spacing)
  /\ UNCHANGED <<tunnel, mpc, began, completed>>

BelowThreshold ==
  /\ mpc = "waiting" /\ ~tunnel
  /\ failures + 1 < FailureThreshold
  /\ failures' = failures + 1
  /\ lastRecovery' = Older(lastRecovery) /\ spacing' = Older(spacing)
  /\ UNCHANGED <<tunnel, mpc, began, completed>>

Capped(n) == IF n < FailureThreshold THEN n ELSE FailureThreshold

\* Mutation: a restart held back starts the cooldown anew.
HeldBackRearms ==
  /\ mpc = "waiting" /\ ~tunnel
  /\ failures + 1 >= FailureThreshold
  /\ Older(lastRecovery) < Cooldown
  /\ failures' = FailureThreshold
  /\ lastRecovery' = 0 /\ spacing' = Older(spacing)
  /\ UNCHANGED <<tunnel, mpc, began, completed>>

\* In the cooldown the count is held at the threshold: the first failed probe
\* after it restarts the core.
HeldBack ==
  /\ mpc = "waiting" /\ ~tunnel
  /\ failures + 1 >= FailureThreshold
  /\ Older(lastRecovery) < Cooldown
  /\ failures' = FailureThreshold
  /\ lastRecovery' = Older(lastRecovery) /\ spacing' = Older(spacing)
  /\ UNCHANGED <<tunnel, mpc, began, completed>>

\* Mutation: the cooldown is not looked at.
RecoverAlways ==
  /\ mpc = "waiting" /\ ~tunnel
  /\ failures + 1 >= FailureThreshold
  /\ mpc' = "recovering" /\ began' = 0
  /\ failures' = Capped(failures + 1)
  /\ lastRecovery' = Older(lastRecovery) /\ spacing' = 0 /\ completed' = FALSE
  /\ UNCHANGED tunnel

\* recover is called (main wires it to a forced core restart); `now` was read
\* before the call.  A recovery that fails leaves failures above the threshold;
\* how far above is not told apart.
Recover ==
  /\ mpc = "waiting" /\ ~tunnel
  /\ failures + 1 >= FailureThreshold
  /\ Older(lastRecovery) = Cooldown
  /\ mpc' = "recovering" /\ began' = 0
  /\ failures' = Capped(failures + 1)
  /\ lastRecovery' = Cooldown /\ spacing' = 0 /\ completed' = FALSE
  /\ UNCHANGED tunnel

Recovering ==
  /\ mpc = "recovering" /\ began < Slowest
  /\ began' = began + 1 /\ spacing' = Older(spacing)
  /\ UNCHANGED <<tunnel, mpc, failures, lastRecovery, completed>>

Recovered ==
  /\ mpc = "recovering"
  /\ mpc' = "waiting" /\ completed' = TRUE
  /\ lastRecovery' = (IF began < Cooldown THEN began ELSE Cooldown)
  /\ failures' = 0
  /\ UNCHANGED <<tunnel, began, spacing>>

\* An error of the restart: nothing is reset and the cooldown is not armed.
RecoveryFailed ==
  /\ mpc = "recovering"
  /\ mpc' = "waiting"
  /\ UNCHANGED <<tunnel, failures, lastRecovery, began, spacing, completed>>

Step ==
  \/ ProbeSucceeds
  \/ BelowThreshold
  \/ HeldBack
  \/ Recover
  \/ Recovering
  \/ Recovered
  \/ RecoveryFailed

MonitorNext == TunnelChanges \/ Step

MonitorSpec == NewMonitor /\ [][MonitorNext]_monitorVars

\* The ticker ticks, and a restart ends, in success or not.
MonitorFairness == WF_monitorVars(Step) /\ WF_monitorVars(Recovered \/ RecoveryFailed)
FairMonitorSpec == MonitorSpec /\ MonitorFairness

-----------------------------------------------------------------------------

\* After a restart that succeeded, the next one is begun at least Cooldown ticks
\* later, even when failures have been counted up to the threshold meanwhile or
\* the restart itself took most of the cooldown.
CompletedSpaced ==
  [][mpc = "waiting" /\ mpc' = "recovering" /\ completed => spacing + 1 >= Cooldown]_monitorVars

\* While the tunnel stays down the core is restarted over and over, however
\* often a restart fails or the cooldown holds one back.
DownIsRecovered == <>[]~tunnel => []<>(mpc = "recovering")
============================================================================
