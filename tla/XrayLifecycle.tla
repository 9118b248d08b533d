--------------------------- MODULE XrayLifecycle ---------------------------
(***************************************************************************)
(* Who starts, stops and reconfigures the xray core, and when.             *)
(*                                                                         *)
(* The panel keeps the desired configuration in its database and one child *)
(* process, the core, that should serve it.  Every change of the core goes *)
(* through XrayService.RestartXray or StopXray, which run under one mutex; *)
(* the callers decide to call them OUTSIDE the mutex (the watchdog reads   *)
(* DidXrayCrash, the 30 s job swaps the need-restart flag, the controllers *)
(* commit first and flag later), and client edits are also pushed straight *)
(* into the running core over its gRPC API, without the mutex.             *)
(*                                                                         *)
(* RestartXray is one action per point at which the rest of the program    *)
(* can interleave: a database edit, a push, the flag, a crash of the core. *)
(***************************************************************************)
EXTENDS Integers, FiniteSets

CONSTANTS
  Users,       \* clients: the part of a config the core API can change
  Bases,       \* everything else of a config: needs a new process
  Refused,     \* bases bindConflicts reports against another running config
  Invalid,     \* bases `xray run -test` rejects
  Unhealthy,   \* bases whose core never opens its API port
  NoCfg,       \* no configuration: a nil *Config, a missing config.json
  InitDb,      \* what the database asks for when the panel starts
  InitFile,    \* config.json when the panel starts
  Actors,      \* the callers that take part
  RestartOnDisable, \* the setting restartXrayOnClientDisable
  MaxOps,      \* bound: edits and operator commands
  MaxFaults    \* bound: transient faults (I/O, API, timeout, crash)

Config == [users : SUBSET Users, base : Bases]
MaybeCfg == Config \cup {NoCfg}

Callers == {"startup", "operator", "pending", "watchdog", "traffic", "nodesync",
            "direct", "template", "tunnel"}
AllActors == Callers \cup {"stopper", "flagged", "panelcrash"}

ASSUME LifecycleConstants ==
  /\ NoCfg \notin Config
  /\ InitDb \in Config
  /\ InitFile \in MaybeCfg
  /\ Actors \subseteq AllActors
  /\ RestartOnDisable \in BOOLEAN
  /\ MaxOps \in Nat /\ MaxFaults \in Nat

(***************************************************************************)
(* RestartXray(true), and the callers that set the flag again when the     *)
(* restart fails.                                                          *)
(***************************************************************************)
Forced   == {"startup", "operator", "nodesync", "tunnel"}
Rearming == {"pending", "traffic", "nodesync"}

VARIABLES
  db,        \* the configuration GetXrayConfig builds from the database
  file,      \* config.json
  cur,       \* xrayState.process
  cand,      \* the process object local to RestartXray
  orphans,   \* live cores no variable refers to any more (until finalized)
  need,      \* isNeedXrayRestart
  manual,    \* isManuallyStopped
  heldBack,  \* xrayState.heldBack # ""
  pc,        \* where each actor is outside the mutex
  arg,       \* the client an actor is about to push
  trafficNeeds, \* needRestart0 of a traffic poll that also restarts
  checkTime, \* CheckXrayRunningJob.checkTime
  holder,    \* the caller inside RestartXray ("none": the mutex is free)
  at,        \* where it is
  cfg, same, snap, snapFile, \* its locals: xrayConfig, configUnchanged, snapshot
  ops, faults,  \* how much of the bounds is used
  \* history, read by the properties only:
  healthy,   \* configs that passed a healthcheck (and the installed file)
  stuck,     \* some Stop returned with its process still alive
  lastCmd,   \* the last command an operator gave: "start" or "stop"
  directErr  \* a caller that does not re-arm got an error since the last success

(***************************************************************************)
(* The core processes; `eff' is what the core serves, `cfg' what the panel *)
(* believes it serves (process.config).                                    *)
(***************************************************************************)
Process == [alive : BOOLEAN, cfg : MaybeCfg, eff : MaybeCfg]
NoProc  == [alive |-> FALSE, cfg |-> NoCfg, eff |-> NoCfg]
Started(c) == [alive |-> TRUE, cfg |-> c, eff |-> c]
Dead(p) == [p EXCEPT !.alive = FALSE]

core   == <<cur, cand, orphans, stuck>>
locals == <<cfg, same, snap, snapFile>>
flags  == <<need, manual>>
jobs   == <<pc, arg, trafficNeeds, checkTime>>
bounds == <<ops, faults>>
hist   == <<healthy, lastCmd, directErr>>
vars   == <<db, file, core, flags, heldBack, jobs, holder, at, locals, bounds, hist>>

Init ==
  /\ db = InitDb /\ file = InitFile
  /\ cur = NoProc /\ cand = NoProc /\ orphans = 0 /\ stuck = FALSE
  /\ need = FALSE /\ manual = FALSE /\ heldBack = FALSE
  /\ pc = [a \in AllActors |-> IF a = "startup" THEN "wait" ELSE "idle"]
  /\ arg = [a \in AllActors |-> {}] /\ trafficNeeds = FALSE /\ checkTime = 0
  /\ holder = "none" /\ at = "idle"
  /\ cfg = NoCfg /\ same = FALSE /\ snap = NoCfg /\ snapFile = NoCfg
  /\ ops = 0 /\ faults = 0
  /\ healthy = {InitFile} \ {NoCfg}
  /\ lastCmd = "start" /\ directErr = FALSE

-----------------------------------------------------------------------------
(***************************************************************************)
(* RestartXray, under the mutex.                                           *)
(***************************************************************************)
\* A transient fault; every use of it is one the code has an error path for.
Use(n)  == faults + n <= MaxFaults /\ faults' = faults + n /\ UNCHANGED ops
Fault   == Use(1)
NoFault == UNCHANGED bounds

\* The holder goes on to the next step, its caller still inside.
Goto(next) == at' = next /\ UNCHANGED <<holder, jobs, directErr>>

\* Mutation: the callers drop a failed restart instead of re-arming the flag.
ReturnNoRearm(err) ==
  /\ holder' = "none" /\ at' = "idle"
  /\ cfg' = NoCfg /\ same' = FALSE /\ snap' = NoCfg /\ snapFile' = NoCfg
  /\ pc' = [pc EXCEPT ![holder] = "idle"] /\ trafficNeeds' = FALSE
  /\ checkTime' = IF holder = "watchdog" THEN 0 ELSE checkTime
  /\ directErr' = (err /\ (directErr \/ holder \notin Rearming))
  /\ UNCHANGED arg

\* RestartXray returns (err: with an error) and its caller goes on: a caller
\* that re-arms sets the flag, and so does a poll whose own pushes failed.
Return(err) ==
  /\ holder' = "none" /\ at' = "idle"
  /\ cfg' = NoCfg /\ same' = FALSE /\ snap' = NoCfg /\ snapFile' = NoCfg
  /\ pc' = [pc EXCEPT ![holder] =
              IF \/ err /\ holder \in Rearming
                 \/ holder = "traffic" /\ trafficNeeds
              THEN "flag" ELSE "idle"]
  /\ trafficNeeds' = (trafficNeeds /\ holder # "traffic")
  /\ checkTime' = IF holder = "watchdog" THEN 0 ELSE checkTime
  /\ directErr' = (err /\ (directErr \/ holder \notin Rearming))
  /\ UNCHANGED arg

\* The runtime API on the process the panel knows of: it needs a live core, and
\* an addition fails on a client that is already there.
CanAdd(u) == cur.alive /\ u \notin cur.eff.users
ApiAdd(u) == cur' = [cur EXCEPT !.eff.users = @ \cup {u}]
ApiRemove(us) == cur' = [cur EXCEPT !.eff.users = @ \ us]

\* Mutation: the manual-stop gate is missing under the mutex.
EnterUngated(c) ==
  /\ holder = "none" /\ pc[c] = "wait" /\ manual' = FALSE
  /\ holder' = c /\ at' = "build" /\ pc' = [pc EXCEPT ![c] = "in"]
  /\ lastCmd' = IF c \in {"startup", "operator"} THEN "start" ELSE lastCmd
  /\ UNCHANGED <<db, file, core, need, heldBack, arg, trafficNeeds, checkTime,
                 locals, bounds, healthy, directErr>>

\* lock.Lock() and the manual-stop gate, which only a forced call passes ...
EnterRestartXray(c) ==
  /\ holder = "none" /\ pc[c] = "wait"
  /\ c \in Forced \/ ~manual
  /\ manual' = FALSE
  /\ holder' = c /\ at' = "build" /\ pc' = [pc EXCEPT ![c] = "in"]
  /\ lastCmd' = IF c \in {"startup", "operator"} THEN "start" ELSE lastCmd
  /\ UNCHANGED <<db, file, core, need, heldBack, arg, trafficNeeds, checkTime,
                 locals, bounds, healthy, directErr>>

\* ... and where an unforced one returns, reporting success.
RestartXrayManuallyStopped(c) ==
  /\ holder = "none" /\ pc[c] = "wait"
  /\ c \notin Forced /\ manual
  /\ pc' = [pc EXCEPT ![c] = IF c = "traffic" /\ trafficNeeds THEN "flag" ELSE "idle"]
  /\ trafficNeeds' = (trafficNeeds /\ c # "traffic")
  /\ checkTime' = IF c = "watchdog" THEN 0 ELSE checkTime
  /\ UNCHANGED <<db, file, core, flags, heldBack, arg, holder, at, locals,
                 bounds, hist>>

\* GetXrayConfig runs the depletion check (AddTraffic(nil, nil)) before it reads
\* the inbounds: clients may leave the database here and are removed from the
\* running core over the API; whether that worked is ignored.
GetXrayConfig ==
  /\ at = "build"
  /\ \/ /\ cfg' = db /\ UNCHANGED <<db, cur, same, snap, snapFile>>
        /\ Goto("decide") /\ NoFault
     \/ /\ "traffic" \in Actors /\ ops < MaxOps /\ ops' = ops + 1
        /\ \E gone \in SUBSET db.users \ {{}} :
             /\ db' = [db EXCEPT !.users = @ \ gone]
             /\ \/ cur.alive /\ ApiRemove(gone) /\ UNCHANGED faults
                \/ ~cur.alive /\ UNCHANGED <<cur, faults>>
                \/ cur.alive /\ UNCHANGED cur /\ faults < MaxFaults /\ faults' = faults + 1
        /\ cfg' = db' /\ Goto("decide") /\ UNCHANGED <<same, snap, snapFile>>
     \/ Fault /\ Return(TRUE) /\ UNCHANGED <<db, cur>>
  /\ UNCHANGED <<file, cand, orphans, stuck, flags, heldBack, healthy, lastCmd>>

\* The running core is left alone when nothing changed, and when the new
\* config cannot bind (a collision the running core already serves is excused).
NothingToDo   == cur.alive /\ cur.cfg = cfg /\ holder \notin Forced /\ ~need
BindConflicts == cur.alive /\ cfg.base \in Refused /\ cfg.base # cur.cfg.base

Decide ==
  /\ at = "decide"
  /\ \/ NothingToDo /\ Return(FALSE) /\ UNCHANGED heldBack
     \/ ~NothingToDo /\ BindConflicts /\ heldBack' = TRUE /\ Return(TRUE)
     \/ /\ ~NothingToDo /\ ~BindConflicts
        /\ same' = (cur.alive /\ cur.cfg = cfg)
        /\ Goto("capture") /\ UNCHANGED <<heldBack, cfg, snap, snapFile>>
  /\ NoFault /\ UNCHANGED <<db, file, core, flags, healthy, lastCmd>>

\* The snapshot prefers the process config; a file that cannot be read is only
\* fatal without one, and is then not there to be restored either.
CaptureXraySnapshot ==
  /\ at = "capture"
  /\ \/ /\ snap' = IF cur.cfg # NoCfg THEN cur.cfg ELSE file
        /\ snapFile' = file /\ Goto("validate") /\ NoFault /\ UNCHANGED <<cfg, same>>
     \/ /\ Fault /\ cur.cfg # NoCfg
        /\ snap' = cur.cfg /\ snapFile' = NoCfg /\ Goto("validate")
        /\ UNCHANGED <<cfg, same>>
     \/ Fault /\ cur.cfg = NoCfg /\ Return(TRUE)
  /\ UNCHANGED <<db, file, core, flags, heldBack, healthy, lastCmd>>

ValidateXrayCandidate ==
  /\ at = "validate"
  /\ \/ cfg.base \notin Invalid /\ Goto("apply") /\ NoFault /\ UNCHANGED <<heldBack, locals>>
     \/ /\ \/ cfg.base \in Invalid /\ NoFault
           \/ cfg.base \notin Invalid /\ Fault
        /\ heldBack' = TRUE /\ Return(TRUE)
  /\ UNCHANGED <<db, file, core, flags, healthy, lastCmd>>

(***************************************************************************)
(* tryHotApply: the diff of the panel's two configs, removals first.  It   *)
(* fails part way with whatever prefix of the calls went through; the      *)
(* caller then replaces the process.                                       *)
(***************************************************************************)
HotApplicable ==
  /\ cur.alive /\ holder \notin Forced /\ ~same
  /\ cfg.base = cur.cfg.base
  /\ RestartOnDisable => cur.cfg.users \subseteq cfg.users

Patched(gone, new) == [cur EXCEPT !.eff.users = (@ \ gone) \cup new]

TryHotApply ==
  LET gone == cur.cfg.users \ cfg.users
      new  == cfg.users \ cur.cfg.users IN
  /\ at = "apply"
  /\ \/ ~HotApplicable /\ Goto("stop") /\ NoFault /\ UNCHANGED <<cur, file>>
     \/ /\ HotApplicable /\ NoFault /\ Goto("hothealth")
        /\ cur' = [Patched(gone, new) EXCEPT !.cfg = cfg] /\ file' = cfg
     \/ /\ HotApplicable /\ Fault
        /\ \/ /\ cur' = [Patched(gone, new) EXCEPT !.cfg = cfg]  \* PersistConfig failed
              /\ UNCHANGED file /\ Goto("hothealth")
           \/ /\ \/ \E g \in SUBSET gone : cur' = Patched(g, {})
                 \/ \E n \in SUBSET new \ {new} : cur' = Patched(gone, n)
              /\ UNCHANGED file /\ Goto("stop")
  /\ UNCHANGED <<db, cand, orphans, stuck, flags, heldBack, locals, healthy, lastCmd>>

\* The faults it takes for the healthcheck of p to fail: none when its core is
\* dead or never answers.
Sick(p) == IF p.alive /\ p.cfg.base \notin Unhealthy THEN 1 ELSE 0
Passes(p) == p.alive /\ p.cfg.base \notin Unhealthy

\* A failed healthcheck stops the hot-patched process and ignores an error of
\* Stop: a core that outlives its SIGKILL stays alive.
HotHealthcheck ==
  /\ at = "hothealth"
  /\ \/ /\ Passes(cur) /\ NoFault /\ UNCHANGED <<cur, stuck>>
        /\ heldBack' = FALSE /\ healthy' = healthy \cup {cfg} /\ Return(FALSE)
     \/ /\ \/ Use(Sick(cur)) /\ cur' = Dead(cur) /\ UNCHANGED stuck
           \/ cur.alive /\ Use(Sick(cur) + 1) /\ stuck' = TRUE /\ UNCHANGED cur
        /\ Goto("restore") /\ UNCHANGED <<heldBack, healthy, locals>>
  /\ UNCHANGED <<db, file, cand, orphans, flags, lastCmd>>

\* Mutation: the candidate is started without stopping the running core.
StopNothing ==
  /\ at = "stop" /\ Goto("start") /\ NoFault
  /\ UNCHANGED <<cur, stuck>>
  /\ UNCHANGED <<db, file, cand, orphans, flags, heldBack, locals, healthy, lastCmd>>

\* The running core makes room.  Stop fails when its core exited on its own
\* after the check (a fault), or does not exit at all.
StopCurrent ==
  /\ at = "stop"
  /\ \/ ~cur.alive /\ Goto("start") /\ NoFault /\ UNCHANGED <<cur, stuck>>
     \/ cur.alive /\ cur' = Dead(cur) /\ Goto("start") /\ NoFault /\ UNCHANGED stuck
     \/ cur.alive /\ cur' = Dead(cur) /\ Goto("restorestop") /\ Fault /\ UNCHANGED stuck
     \/ cur.alive /\ UNCHANGED cur /\ Goto("restorestop") /\ Fault /\ stuck' = TRUE
  /\ UNCHANGED <<db, file, cand, orphans, flags, heldBack, locals, healthy, lastCmd>>

\* Process.Start writes config.json, then executes the core; either can fail.
StartCandidate ==
  /\ at = "start"
  /\ \/ cand' = Started(cfg) /\ file' = cfg /\ Goto("health") /\ NoFault
     \/ cand' = NoProc /\ file' \in {file, cfg} /\ Goto("restore") /\ Fault
  /\ UNCHANGED <<db, cur, orphans, stuck, flags, heldBack, locals, healthy, lastCmd>>

\* Mutation: the candidate is published before it is checked.
PublishUnchecked ==
  /\ at = "health" /\ NoFault
  /\ cur' = cand /\ orphans' = orphans + (IF cur.alive THEN 1 ELSE 0)
  /\ healthy' = IF Passes(cand) THEN healthy \cup {cfg} ELSE healthy
  /\ heldBack' = FALSE /\ Return(FALSE) /\ cand' = NoProc
  /\ UNCHANGED <<db, file, stuck, flags, lastCmd>>

\* A healthy candidate is published; another one is stopped and dropped.
HealthcheckCandidate ==
  /\ at = "health"
  /\ \/ /\ Passes(cand) /\ NoFault
        /\ cur' = cand /\ orphans' = orphans + (IF cur.alive THEN 1 ELSE 0)
        /\ heldBack' = FALSE /\ healthy' = healthy \cup {cfg}
        /\ Return(FALSE) /\ UNCHANGED stuck
     \/ /\ \/ Use(Sick(cand)) /\ UNCHANGED <<orphans, stuck>>
           \/ cand.alive /\ Use(Sick(cand) + 1) /\ orphans' = orphans + 1 /\ stuck' = TRUE
        /\ Goto("restore") /\ UNCHANGED <<cur, heldBack, healthy, locals>>
  /\ cand' = NoProc
  /\ UNCHANGED <<db, file, flags, lastCmd>>

(***************************************************************************)
(* restoreKnownGoodXray: one more try at stopping, then the snapshot's     *)
(* config is started, checked and published, and config.json put back.     *)
(* RestartXray returns the candidate's failure in every case and holds the *)
(* config back AFTER the restored process was published.                   *)
(***************************************************************************)
RestoreStop ==
  /\ at = "restorestop"
  /\ \/ /\ \/ ~cur.alive /\ NoFault /\ UNCHANGED cur
           \/ cur.alive /\ cur' = Dead(cur) /\ NoFault
        /\ Goto("restore") /\ UNCHANGED <<heldBack, locals, stuck>>
     \/ /\ cur.alive /\ Fault /\ UNCHANGED cur /\ stuck' = TRUE
        /\ heldBack' = TRUE /\ Return(TRUE)
  /\ UNCHANGED <<db, file, cand, orphans, flags, healthy, lastCmd>>

\* RestoreConfigFile over the file f; it writes nothing when there was no file
\* before, and r = 1 when its write fails.
RestoredFile(f, r) == IF snapFile = NoCfg \/ r = 1 THEN f ELSE snapFile

\* xrayState.replace(p)
Publish(p) == cur' = p /\ orphans' = orphans + (IF cur.alive THEN 1 ELSE 0)

RestoreStart ==
  /\ at = "restore"
  /\ \/ /\ snap = NoCfg
        /\ \E r \in {0, 1} : Use(r) /\ file' = RestoredFile(file, r)
        /\ heldBack' = TRUE /\ Return(TRUE) /\ UNCHANGED <<cur, cand, orphans>>
     \/ /\ snap # NoCfg /\ NoFault
        /\ cand' = Started(snap) /\ file' = snap /\ Goto("restorehealth")
        /\ UNCHANGED <<cur, orphans, heldBack, locals>>
     \/ /\ snap # NoCfg
        /\ \E r \in {0, 1}, f \in {file, snap} : Use(1 + r) /\ file' = RestoredFile(f, r)
        /\ Publish(Dead(Started(snap)))
        /\ heldBack' = TRUE /\ Return(TRUE) /\ UNCHANGED cand
  /\ UNCHANGED <<db, stuck, flags, healthy, lastCmd>>

RestoreHealthcheck ==
  /\ at = "restorehealth"
  /\ \E r \in {0, 1} :
       /\ file' = RestoredFile(file, r)
       /\ \/ /\ Passes(cand) /\ Use(r) /\ Publish(cand)
             /\ healthy' = healthy \cup {snap} /\ UNCHANGED stuck
          \/ /\ Use(Sick(cand) + r) /\ Publish(Dead(cand)) /\ UNCHANGED <<healthy, stuck>>
          \/ /\ cand.alive /\ Use(Sick(cand) + 1 + r) /\ Publish(cand)
             /\ stuck' = TRUE /\ UNCHANGED healthy
  /\ cand' = NoProc /\ heldBack' = TRUE /\ Return(TRUE)
  /\ UNCHANGED <<db, flags, lastCmd>>

RestartStep ==
  \/ GetXrayConfig \/ Decide \/ CaptureXraySnapshot \/ ValidateXrayCandidate
  \/ TryHotApply \/ HotHealthcheck \/ StopCurrent \/ StartCandidate
  \/ HealthcheckCandidate \/ RestoreStop \/ RestoreStart \/ RestoreHealthcheck

-----------------------------------------------------------------------------
(***************************************************************************)
(* The callers, outside the mutex.                                         *)
(***************************************************************************)
panel == <<file, cand, orphans, stuck, heldBack, holder, at, locals>>

\* StopXray: marks the stop, then stops a running core (an error: Stop failed).
StopXray ==
  /\ "stopper" \in Actors /\ ops < MaxOps /\ ops' = ops + 1
  /\ holder = "none"
  /\ manual' = TRUE /\ lastCmd' = "stop"
  /\ \/ cur' = Dead(cur) /\ UNCHANGED <<faults, stuck>>
     \/ cur.alive /\ UNCHANGED cur /\ faults < MaxFaults /\ faults' = faults + 1 /\ stuck' = TRUE
  /\ UNCHANGED <<db, file, cand, orphans, need, heldBack, jobs, holder, at,
                 locals, healthy, directErr>>

\* An operator asks for a forced restart.
AskRestart ==
  /\ "operator" \in Actors /\ ops < MaxOps /\ ops' = ops + 1
  /\ pc["operator"] = "idle" /\ pc' = [pc EXCEPT !["operator"] = "wait"]
  /\ UNCHANGED <<db, panel, cur, flags, arg, trafficNeeds, checkTime, faults, hist>>

\* startTask restarts the core before it schedules the jobs; the HTTP server is
\* already serving.
Scheduled(job) == job \in Actors /\ pc["startup"] = "idle" /\ pc[job] = "idle"

\* The tunnel monitor reached its threshold of failed probes: a forced restart.
TunnelRecovery ==
  /\ Scheduled("tunnel") /\ ops < MaxOps /\ ops' = ops + 1
  /\ pc' = [pc EXCEPT !["tunnel"] = "wait"]
  /\ UNCHANGED <<db, panel, cur, flags, arg, trafficNeeds, checkTime, faults, hist>>

\* ApplyPendingRestart, every 30 s: the flag is consumed before the restart.
ApplyPendingRestart ==
  /\ Scheduled("pending")
  /\ need /\ need' = FALSE
  /\ pc' = [pc EXCEPT !["pending"] = "wait"]
  /\ UNCHANGED <<db, panel, cur, manual, arg, trafficNeeds, checkTime, bounds, hist>>

\* SetToNeedRestart, by whoever owes it.
SetToNeedRestart(a) ==
  /\ pc[a] = "flag" /\ pc' = [pc EXCEPT ![a] = "idle"]
  /\ need' = TRUE
  /\ UNCHANGED <<db, panel, cur, manual, arg, trafficNeeds, checkTime, bounds, hist>>

\* CheckXrayRunningJob, every second: two sightings in a row restart the core.
DidXrayCrash == ~cur.alive /\ ~manual

\* Mutation: the counter is set, not incremented.
CheckForgets ==
  /\ Scheduled("watchdog")
  /\ checkTime' = IF DidXrayCrash THEN 1 ELSE 0
  /\ pc' = [pc EXCEPT !["watchdog"] = IF checkTime' > 1 THEN "wait" ELSE "idle"]
  /\ UNCHANGED <<db, panel, cur, flags, arg, trafficNeeds, bounds, hist>>

CheckXrayRunning ==
  /\ Scheduled("watchdog")
  /\ checkTime' = IF DidXrayCrash THEN checkTime + 1 ELSE 0
  /\ pc' = [pc EXCEPT !["watchdog"] = IF checkTime' > 1 THEN "wait" ELSE "idle"]
  /\ UNCHANGED <<db, panel, cur, flags, arg, trafficNeeds, bounds, hist>>

(***************************************************************************)
(* Edits commit to the database first.  A controller that changes clients  *)
(* then pushes the change over the API and flags a restart only when that  *)
(* fails; one that changes anything else flags it at once.                 *)
(***************************************************************************)
Edit(a) == a \in Actors /\ pc[a] = "idle" /\ ops < MaxOps /\ ops' = ops + 1

FlaggedEdit ==
  /\ Edit("flagged")
  /\ \/ \E b \in Bases \ {db.base} :
          /\ db' = [db EXCEPT !.base = b]
          /\ pc' = [pc EXCEPT !["flagged"] = "flag"] /\ UNCHANGED arg
     \/ \E u \in Users :
          /\ db' = [db EXCEPT !.users = IF u \in @ THEN @ \ {u} ELSE @ \cup {u}]
          /\ pc' = [pc EXCEPT !["flagged"] = IF u \in db.users THEN "pushdel" ELSE "pushadd"]
          /\ arg' = [arg EXCEPT !["flagged"] = {u}]
  /\ UNCHANGED <<panel, cur, flags, trafficNeeds, checkTime, faults, hist>>

\* A controller that reconciles the core itself: node and panel-egress settings.
DirectEdit ==
  /\ Edit("direct")
  /\ \E b \in Bases \ {db.base} : db' = [db EXCEPT !.base = b]
  /\ pc' = [pc EXCEPT !["direct"] = "wait"]
  /\ UNCHANGED <<panel, cur, flags, arg, trafficNeeds, checkTime, faults, hist>>

\* Saving the xray template: the core is reconciled only when it is running.
TemplateEdit ==
  /\ Edit("template")
  /\ \E b \in Bases \ {db.base} : db' = [db EXCEPT !.base = b]
  /\ pc' = [pc EXCEPT !["template"] = "check"]
  /\ UNCHANGED <<panel, cur, flags, arg, trafficNeeds, checkTime, faults, hist>>

TemplateCheck ==
  /\ pc["template"] = "check"
  /\ pc' = [pc EXCEPT !["template"] = IF cur.alive THEN "wait" ELSE "idle"]
  /\ UNCHANGED <<db, panel, cur, flags, arg, trafficNeeds, checkTime, bounds, hist>>

\* The traffic polls disable depleted clients.  (The local poll looked whether
\* the core runs before it fetched the counters; by its commit that is stale.)
DisableClient(a) ==
  /\ Edit(a) /\ Scheduled(a)
  /\ \E u \in db.users : /\ db' = [db EXCEPT !.users = @ \ {u}]
                         /\ arg' = [arg EXCEPT ![a] = {u}]
  /\ pc' = [pc EXCEPT ![a] = "pushdel"]
  /\ UNCHANGED <<panel, cur, flags, trafficNeeds, checkTime, faults, hist>>

\* Mutation: a poll that disabled clients trusts its pushes.
AfterPushTrusting(a, failed) == IF a = "flagged" /\ failed THEN "flag" ELSE "idle"

\* What follows a push: a controller flags a failure, and a removal when the
\* setting asks to drop live sessions; the local poll remembers a failure and
\* restarts when the setting asks for it; the node poll only does the latter.
AfterPush(a, failed) ==
  CASE a = "flagged"  -> IF failed \/ (pc[a] = "pushdel" /\ RestartOnDisable)
                         THEN "flag" ELSE "idle"
    [] a = "traffic"  -> IF RestartOnDisable THEN "wait"
                         ELSE IF failed THEN "flag" ELSE "idle"
    [] a = "nodesync" -> IF RestartOnDisable THEN "wait" ELSE "idle"

PushDone(a, failed) ==
  /\ pc' = [pc EXCEPT ![a] = AfterPush(a, failed)]
  /\ trafficNeeds' = (trafficNeeds \/ (a = "traffic" /\ failed /\ RestartOnDisable))
  /\ arg' = [arg EXCEPT ![a] = {}]

PushUser(a) ==
  /\ \/ /\ pc[a] = "pushadd" /\ \E u \in arg[a] : CanAdd(u) /\ ApiAdd(u)
        /\ PushDone(a, FALSE) /\ NoFault
     \/ /\ pc[a] = "pushdel" /\ cur.alive /\ ApiRemove(arg[a])
        /\ PushDone(a, FALSE) /\ NoFault
     \/ /\ pc[a] \in {"pushadd", "pushdel"} /\ UNCHANGED cur /\ PushDone(a, TRUE)
        /\ IF cur.alive /\ (pc[a] = "pushadd" => \A u \in arg[a] : CanAdd(u))
           THEN Fault ELSE NoFault
  /\ UNCHANGED <<db, panel, flags, checkTime, hist>>

(***************************************************************************)
(* The core, or the whole panel, dies.  The service manager takes the      *)
(* cores down with the panel and starts it again: only the database and    *)
(* config.json survive.                                                    *)
(***************************************************************************)
Crash ==
  /\ Fault
  /\ \/ cur.alive /\ cur' = Dead(cur) /\ UNCHANGED <<cand, orphans>>
     \/ cand.alive /\ cand' = Dead(cand) /\ UNCHANGED <<cur, orphans>>
     \/ orphans > 0 /\ orphans' = orphans - 1 /\ UNCHANGED <<cur, cand>>
  /\ UNCHANGED <<db, file, stuck, flags, heldBack, jobs, holder, at, locals, hist>>

\* The finalizer of a Process object nothing refers to any more stops its core.
StopProcess ==
  /\ orphans > 0 /\ orphans' = orphans - 1
  /\ UNCHANGED <<db, file, cur, cand, stuck, flags, heldBack, jobs, holder, at, locals,
                 bounds, hist>>

PanelCrash ==
  /\ "panelcrash" \in Actors /\ Fault
  /\ cur' = NoProc /\ cand' = NoProc /\ orphans' = 0
  /\ need' = FALSE /\ manual' = FALSE /\ heldBack' = FALSE
  /\ pc' = [a \in AllActors |-> IF a = "startup" THEN "wait" ELSE "idle"]
  /\ arg' = [a \in AllActors |-> {}] /\ trafficNeeds' = FALSE /\ checkTime' = 0
  /\ holder' = "none" /\ at' = "idle"
  /\ cfg' = NoCfg /\ same' = FALSE /\ snap' = NoCfg /\ snapFile' = NoCfg
  /\ lastCmd' = "start" /\ directErr' = FALSE
  /\ UNCHANGED <<db, file, stuck, healthy>>

Next ==
  \/ \E c \in Callers : EnterRestartXray(c) \/ RestartXrayManuallyStopped(c)
  \/ RestartStep
  \/ StopXray \/ AskRestart \/ TunnelRecovery \/ ApplyPendingRestart \/ CheckXrayRunning
  \/ \E a \in AllActors : SetToNeedRestart(a)
  \/ FlaggedEdit \/ DirectEdit \/ TemplateEdit \/ TemplateCheck
  \/ \E a \in {"traffic", "nodesync"} : DisableClient(a)
  \/ \E a \in {"flagged", "traffic", "nodesync"} : PushUser(a)
  \/ Crash \/ PanelCrash \/ StopProcess

Spec == Init /\ [][Next]_vars

\* The cron jobs keep ticking, whoever is inside RestartXray goes on (each of
\* its waits has a timeout), an editor finishes what it began, and the Go mutex
\* starves no waiter.
Fairness ==
  /\ WF_vars(RestartStep)
  /\ WF_vars(ApplyPendingRestart) /\ WF_vars(CheckXrayRunning)
  /\ \A c \in (Callers \cap Actors) \cup {"startup"} :
        SF_vars(EnterRestartXray(c) \/ RestartXrayManuallyStopped(c))
  /\ \A a \in Actors : WF_vars(SetToNeedRestart(a))
  /\ \A a \in {"flagged", "traffic", "nodesync"} \cap Actors : WF_vars(PushUser(a))
  /\ WF_vars(TemplateCheck)

FairSpec == Spec /\ Fairness

-----------------------------------------------------------------------------
(***************************************************************************)
(* Properties                                                              *)
(***************************************************************************)
Steps == {"idle", "build", "decide", "capture", "validate", "apply", "hothealth",
          "stop", "start", "health", "restorestop", "restore", "restorehealth"}

\* A live core has a config.
Sound(p) == p \in Process /\ (p.alive => p.cfg \in Config /\ p.eff \in Config)

\* Every variable has its type; the mutex holder is exactly the caller that is
\* inside RestartXray, and RestartXray is between two of its steps exactly then.
TypeOK ==
  /\ db \in Config /\ file \in MaybeCfg
  /\ Sound(cur) /\ Sound(cand) /\ orphans \in Nat
  /\ need \in BOOLEAN /\ manual \in BOOLEAN /\ heldBack \in BOOLEAN
  /\ pc \in [AllActors -> {"idle", "wait", "in", "flag", "pushadd", "pushdel", "check"}]
  /\ arg \in [AllActors -> SUBSET Users]
  /\ trafficNeeds \in BOOLEAN /\ checkTime \in 0..2
  /\ holder \in Callers \cup {"none"} /\ at \in Steps
  /\ cfg \in MaybeCfg /\ same \in BOOLEAN /\ snap \in MaybeCfg /\ snapFile \in MaybeCfg
  /\ ops \in Nat /\ faults \in Nat
  /\ healthy \subseteq Config /\ stuck \in BOOLEAN
  /\ lastCmd \in {"start", "stop"} /\ directErr \in BOOLEAN
  /\ \A c \in Callers : pc[c] = "in" <=> holder = c
  /\ at = "idle" <=> holder = "none"

\* Two cores never run at once, and no live core is forgotten, as long as every
\* Stop ended with its process gone: RestartXray starts a candidate, or the
\* known-good config, only once the process it replaces has exited, whatever
\* crashes in between.
SingleCore ==
  ~stuck => orphans = 0 /\ ~(cur.alive /\ cand.alive)

\* After StopXray no core runs until an operator asks for one: neither the
\* watchdog that saw the core gone, nor a pending restart already waiting for
\* the mutex, revives it.  (The node poll and the tunnel monitor do: see README.)
StoppedStaysStopped ==
  lastCmd = "stop" /\ ~stuck => ~cur.alive /\ ~cand.alive

\* What RestartXray would roll back to, and what it publishes as the current
\* process between calls, has passed a healthcheck: a candidate that failed
\* never becomes the known-good config, on any error path.
KnownGood ==
  /\ snap # NoCfg => snap \in healthy
  /\ holder = "none" /\ cur.cfg # NoCfg => cur.cfg \in healthy

Settled == holder = "none" /\ \A a \in AllActors : pc[a] = "idle"

\* A committed edit that needs a new process is never silently dropped: once
\* everybody is done, a core that serves another base has a restart pending,
\* or the last failure was reported to a caller that does not retry.
NoLostEdit ==
  Settled /\ cur.alive /\ ~manual /\ cur.cfg.base # db.base => need \/ directErr

\* A client that left the database is not served once everybody is done: the
\* API removal, or the restart that replaces it, has reached the core.
DeletedClientsDropped ==
  Settled /\ ~need /\ ~directErr /\ cur.alive /\ ~manual => cur.eff.users \subseteq db.users

\* When edits, faults and commands stop with a config that works and the core
\* not stopped by hand, the core ends up running that config's base, unless
\* the failure was reported to a caller that does not retry.
Converges ==
  []<>(\/ directErr
       \/ db.base \in Refused \cup Invalid \cup Unhealthy \/ manual
       \/ cur.alive /\ cur.cfg.base = db.base)
=============================================================================
