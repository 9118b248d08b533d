------------------------ MODULE XrayLifecycleProofs ------------------------
(***************************************************************************)
(* Proofs about XrayLifecycle, for every set of clients, configurations    *)
(* and callers and every bound.                                            *)
(***************************************************************************)
EXTENDS XrayLifecycle, TLAPS

(***************************************************************************)
(* TypeOK is inductive together with the shape of the control state: the   *)
(* config of RestartXray is known once built, and the watchdog waits as    *)
(* soon as its counter reaches two.                                        *)
(***************************************************************************)
Shape ==
  /\ at = "idle" <=> holder = "none"
  /\ holder # "none" => pc[holder] = "in"
  /\ at \notin {"idle", "build"} => cfg \in Config
  /\ at = "restorehealth" => snap \in Config
  /\ pc["watchdog"] \in {"idle", "wait", "in"}
  /\ pc["watchdog"] = "idle" => checkTime \in 0..1
  /\ \A c \in Callers : pc[c] = "in" => holder = c

\* The control state: what Goto and Return write ...
Control ==
  /\ pc \in [AllActors -> {"idle", "wait", "in", "flag", "pushadd", "pushdel", "check"}]
  /\ arg \in [AllActors -> SUBSET Users]
  /\ trafficNeeds \in BOOLEAN /\ checkTime \in 0..2
  /\ holder \in Callers \cup {"none"} /\ at \in Steps
  /\ cfg \in MaybeCfg /\ same \in BOOLEAN /\ snap \in MaybeCfg /\ snapFile \in MaybeCfg
  /\ directErr \in BOOLEAN
  /\ Shape

\* ... and the rest of TypeOK.
Stores == db \in Config /\ file \in MaybeCfg /\ healthy \subseteq Config
Procs  == Sound(cur) /\ Sound(cand) /\ orphans \in Nat
Flags  == /\ need \in BOOLEAN /\ manual \in BOOLEAN /\ heldBack \in BOOLEAN
          /\ stuck \in BOOLEAN /\ lastCmd \in {"start", "stop"}
Counts == ops \in Nat /\ faults \in Nat

TypeInv == Control /\ Stores /\ Procs /\ Flags /\ Counts

\* Cores: a candidate is alive only between its start and its publication, and
\* by then the process it replaces is gone unless a Stop failed.
Cores ==
  /\ cand.alive => at \in {"health", "restorehealth"}
  /\ ~stuck => /\ orphans = 0
               /\ at \in {"start", "health", "restore", "restorehealth"} => ~cur.alive

\* The stop gate: only a startup or an operator opens it again.
StopGate ==
  /\ pc["nodesync"] = "idle" /\ pc["tunnel"] = "idle"
  /\ lastCmd = "stop" => manual /\ holder = "none" /\ (stuck \/ ~cur.alive)

\* Where the known-good config is at every step of RestartXray.
Before == {"idle", "build", "decide", "capture"}
Known ==
  /\ snap # NoCfg => snap \in healthy
  /\ at \notin Before => snap # NoCfg
  /\ at \in Before \cup {"validate"} /\ cur.cfg = NoCfg => file # NoCfg /\ file \in healthy
  /\ at \notin {"hothealth", "restore", "restorehealth"} /\ cur.cfg # NoCfg => cur.cfg \in healthy
  /\ at = "hothealth" => cur.cfg = cfg
  /\ at = "health" => cand.cfg = cfg
  /\ at = "restorehealth" => cand.cfg = snap

\* What happens to a process object keeps it sound.
LEMMA ProcessFacts ==
  /\ Sound(NoProc)
  /\ \A c \in Config : Sound(Started(c)) /\ Started(c).cfg = c /\ Started(c).alive
  /\ \A p : Sound(p) => Sound(Dead(p)) /\ Dead(p).cfg = p.cfg /\ ~Dead(p).alive
  BY DEF Sound, Process, MaybeCfg, NoProc, Started, Dead

\* The client set of a core under the API.
LEMMA PatchFacts ==
  ASSUME NEW p, Sound(p), p.alive, NEW us \in SUBSET Users
  PROVE  LET q == [p EXCEPT !.eff.users = us] IN
         Sound(q) /\ q.alive /\ q.cfg = p.cfg
<1>1. p.eff \in [users : SUBSET Users, base : Bases]
  BY DEF Sound, Config
<1>2. [p.eff EXCEPT !.users = us] \in Config
  BY <1>1 DEF Config
<1>3. QED
  BY <1>2 DEF Sound, Process, MaybeCfg


-----------------------------------------------------------------------------
\* The parts of TypeInv are TypeOK and the control shape.
LEMMA TypeInvMeans == TypeInv <=> TypeOK /\ Shape
<1>1. Shape => \A c \in Callers : pc[c] = "in" <=> holder = c
  BY DEF Shape, Callers
<1>2. Shape => (at = "idle" <=> holder = "none")
  BY DEF Shape
<1>3. QED
  BY <1>1, <1>2 DEF TypeInv, Control, Stores, Procs, Flags, Counts, TypeOK

\* A push to a live core changes the clients it serves, and neither the config the
\* panel believes in nor whether it lives.
LEMMA ApiFacts ==
  ASSUME Sound(cur), cur.alive
  PROVE  /\ \A us : ApiRemove(us) => Sound(cur') /\ cur'.alive /\ cur'.cfg = cur.cfg
         /\ \A u \in Users : ApiAdd(u) => Sound(cur') /\ cur'.alive /\ cur'.cfg = cur.cfg
         /\ \A us, new \in SUBSET Users :
              LET p == Patched(us, new) IN Sound(p) /\ p.alive /\ p.cfg = cur.cfg
<1>1. cur.eff.users \in SUBSET Users
  BY DEF Sound, Config
<1>2. ASSUME NEW us, ApiRemove(us) PROVE Sound(cur') /\ cur'.alive /\ cur'.cfg = cur.cfg
  <2>1. cur' = [cur EXCEPT !.eff.users = cur.eff.users \ us]
    BY <1>2 DEF ApiRemove
  <2>2. cur.eff.users \ us \in SUBSET Users
    BY <1>1
  <2>3. QED
    BY <2>1, <2>2, PatchFacts
<1>3. ASSUME NEW u \in Users, ApiAdd(u) PROVE Sound(cur') /\ cur'.alive /\ cur'.cfg = cur.cfg
  <2>1. cur' = [cur EXCEPT !.eff.users = cur.eff.users \cup {u}]
    BY <1>3 DEF ApiAdd
  <2>2. cur.eff.users \cup {u} \in SUBSET Users
    BY <1>1
  <2>3. QED
    BY <2>1, <2>2, PatchFacts
<1>4. ASSUME NEW us \in SUBSET Users, NEW new \in SUBSET Users
      PROVE  Sound(Patched(us, new)) /\ Patched(us, new).alive /\ Patched(us, new).cfg = cur.cfg
  <2>1. Patched(us, new) = [cur EXCEPT !.eff.users = (cur.eff.users \ us) \cup new]
    BY DEF Patched
  <2>2. (cur.eff.users \ us) \cup new \in SUBSET Users
    BY <1>1
  <2>3. QED
    BY <2>1, <2>2, PatchFacts
<1>5. QED
  BY <1>2, <1>3, <1>4

\* The bounds stay naturals, whatever faults a step uses.
LEMMA CountFacts ==
  ASSUME Counts
  PROVE  /\ \A n \in Nat : Use(n) => Counts'
         /\ Fault => Counts'
         /\ NoFault => Counts'
         /\ \A p : Sick(p) \in {0, 1}
  BY DEF Counts, Use, Fault, NoFault, bounds, Sick

\* Leaving RestartXray frees the mutex and keeps the control state in shape.
LEMMA ReturnControl ==
  ASSUME Control, at # "idle", NEW err \in BOOLEAN, Return(err)
  PROVE  Control'
<1>1. holder \in Callers /\ holder \in AllActors
  BY DEF Control, Shape, AllActors
<1>2. /\ pc' \in [AllActors -> {"idle", "wait", "in", "flag", "pushadd", "pushdel", "check"}]
      /\ pc'[holder] \in {"idle", "flag"}
      /\ \A a \in AllActors \ {holder} : pc'[a] = pc[a]
      /\ holder = "watchdog" => pc'[holder] = "idle"
  BY <1>1 DEF Return, Control, Rearming
<1>3. Shape'
  BY <1>1, <1>2 DEF Return, Control, Shape, Callers, AllActors
<1>4. trafficNeeds' \in BOOLEAN /\ directErr' \in BOOLEAN
  BY Zenon DEF Return
<1>5. checkTime' \in 0..2 /\ arg' \in [AllActors -> SUBSET Users]
  BY DEF Return, Control
<1>6. holder' = "none" /\ at' \in Steps /\ cfg' = NoCfg /\ same' = FALSE /\ snap' = NoCfg /\ snapFile' = NoCfg
  BY DEF Return, Steps
<1>7. QED
  BY <1>2, <1>3, <1>4, <1>5, <1>6 DEF Control, MaybeCfg

\* So does going on to its next step, with a config built.
LEMMA GotoControl ==
  ASSUME Control, at # "idle", NEW next \in Steps \ {"idle", "build"}, Goto(next),
         cfg' \in Config, same' \in BOOLEAN, snap' \in MaybeCfg, snapFile' \in MaybeCfg,
         next = "restorehealth" => snap' \in Config
  PROVE  Control'
<1>1. Shape'
  BY DEF Goto, jobs, Control, Shape, Steps
<1>2. QED
  BY <1>1 DEF Goto, jobs, Control, MaybeCfg

\* TypeInv is inductive: one step per action, one per part of the invariant.
LEMMA TypeInvStep ==
  ASSUME TypeInv, [Next]_vars
  PROVE  TypeInv'
<1>1. ASSUME NEW c \in Callers, EnterRestartXray(c) PROVE TypeInv'
  <2>1. Stores'
    BY <1>1
    DEF EnterRestartXray, TypeInv, Stores, Control, Shape, MaybeCfg, core, locals
  <2>2. Procs'
    BY <1>1
    DEF EnterRestartXray, TypeInv, Procs, core, locals
  <2>3. Flags'
    BY <1>1
    DEF EnterRestartXray, TypeInv, Flags, core, locals
  <2>4. Counts'
    BY <1>1
    DEF EnterRestartXray, TypeInv, Counts, bounds
  <2>5. Control'
    BY <1>1
    DEF EnterRestartXray, TypeInv, Control, Shape, Callers, AllActors, MaybeCfg, Steps,
        locals
  <2>6. QED
    BY <2>1, <2>2, <2>3, <2>4, <2>5 DEF TypeInv
<1>2. ASSUME NEW c \in Callers, RestartXrayManuallyStopped(c) PROVE TypeInv'
  <2>1. Stores'
    BY <1>2
    DEF RestartXrayManuallyStopped, TypeInv, Stores, Control, Shape, MaybeCfg, core,
        locals, hist
  <2>2. Procs'
    BY <1>2
    DEF RestartXrayManuallyStopped, TypeInv, Procs, core, locals
  <2>3. Flags'
    BY <1>2
    DEF RestartXrayManuallyStopped, TypeInv, Flags, core, flags, locals, hist
  <2>4. Counts'
    BY <1>2
    DEF RestartXrayManuallyStopped, TypeInv, Counts, bounds
  <2>5. Control'
    BY <1>2
    DEF RestartXrayManuallyStopped, TypeInv, Control, Shape, Callers, AllActors, MaybeCfg,
        Steps, locals, hist
  <2>6. QED
    BY <2>1, <2>2, <2>3, <2>4, <2>5 DEF TypeInv
<1>3. CASE GetXrayConfig
  <2>1. /\ at = "build" /\ UNCHANGED <<file, cand, orphans, stuck, flags, heldBack, healthy, lastCmd>>
        /\ \/ Goto("decide") /\ cfg' = db' /\ UNCHANGED <<same, snap, snapFile>>
           \/ Return(TRUE)
        /\ UNCHANGED db \/ \E gone : db' = [db EXCEPT !.users = @ \ gone]
    BY <1>3 DEF GetXrayConfig
  <2>2. db' \in Config
    BY <2>1 DEF TypeInv, Stores, Config
  <2>3. Stores'
    BY <2>1, <2>2 DEF TypeInv, Stores
  <2>4. Procs'
    <3>1. CASE cur' = cur
      BY <2>1, <3>1 DEF TypeInv, Procs
    <3>2. CASE cur' # cur
      <4>1. PICK gone \in SUBSET db.users \ {{}} :
               \/ cur.alive /\ ApiRemove(gone) /\ UNCHANGED faults
               \/ ~cur.alive /\ UNCHANGED <<cur, faults>>
               \/ cur.alive /\ UNCHANGED cur /\ faults < MaxFaults /\ faults' = faults + 1
        BY <1>3, <3>2, Zenon DEF GetXrayConfig
      <4>2. cur.alive /\ ApiRemove(gone)
        BY <3>2, <4>1
      <4>3. QED
        BY <2>1, <4>2, ApiFacts DEF TypeInv, Procs
    <3>3. QED
      BY <3>1, <3>2
  <2>5. Flags'
    BY <2>1 DEF TypeInv, Flags, flags
  <2>6. Counts'
    <3>0. \/ NoFault \/ Fault
          \/ ops' = ops + 1 /\ (faults' = faults \/ faults' = faults + 1)
      BY <1>3 DEF GetXrayConfig
    <3>1. CASE NoFault \/ Fault
      BY <3>1, CountFacts DEF TypeInv
    <3>2. CASE ops' = ops + 1 /\ (faults' = faults \/ faults' = faults + 1)
      BY <3>2 DEF TypeInv, Counts
    <3>3. QED
      BY <3>0, <3>1, <3>2
  <2>7. Control'
    <3>1. CASE Return(TRUE)
      BY <2>1, <3>1, ReturnControl DEF TypeInv
    <3>2. CASE Goto("decide") /\ cfg' = db' /\ UNCHANGED <<same, snap, snapFile>>
      <4>1. cfg' \in Config /\ same' \in BOOLEAN /\ snap' \in MaybeCfg /\ snapFile' \in MaybeCfg
        BY <2>2, <3>2 DEF TypeInv, Control
      <4>2. "decide" \in Steps \ {"idle", "build"}
        BY DEF Steps
      <4>3. QED
        BY <2>1, <3>2, <4>1, <4>2, GotoControl DEF TypeInv
    <3>3. QED
      BY <2>1, <3>1, <3>2
  <2>8. QED
    BY <2>3, <2>4, <2>5, <2>6, <2>7 DEF TypeInv
<1>4. CASE Decide
  <2>1. Stores'
    BY <1>4
    DEF Decide, TypeInv, Stores, Control, Shape, MaybeCfg, core
  <2>2. Procs'
    BY <1>4
    DEF Decide, TypeInv, Procs, core
  <2>3. Flags'
    BY <1>4
    DEF Decide, TypeInv, Flags, core, flags
  <2>4. Counts'
    BY <1>4
    DEF Decide, NoFault, TypeInv, Counts, bounds
  <2>5. Control'
    BY <1>4, ReturnControl, GotoControl
    DEF Decide, TypeInv, Control, Shape, MaybeCfg, Steps
  <2>6. QED
    BY <2>1, <2>2, <2>3, <2>4, <2>5 DEF TypeInv
<1>5. CASE CaptureXraySnapshot
  <2>1. Stores'
    BY <1>5
    DEF CaptureXraySnapshot, TypeInv, Stores, Control, Shape, MaybeCfg, core
  <2>2. Procs'
    BY <1>5
    DEF CaptureXraySnapshot, TypeInv, Procs, core
  <2>3. Flags'
    BY <1>5
    DEF CaptureXraySnapshot, TypeInv, Flags, core, flags
  <2>4. Counts'
    BY <1>5, CountFacts DEF CaptureXraySnapshot, TypeInv
  <2>5. Control'
    <3>1. /\ at = "capture"
          /\ \/ Return(TRUE)
             \/ /\ Goto("validate") /\ UNCHANGED <<cfg, same>>
                /\ snap' \in {cur.cfg, file} /\ snapFile' \in {file, NoCfg}
      BY <1>5 DEF CaptureXraySnapshot
    <3>2. cur.cfg \in MaybeCfg /\ file \in MaybeCfg /\ NoCfg \in MaybeCfg
      BY DEF TypeInv, Procs, Sound, Process, Stores, MaybeCfg
    <3>3. QED
      BY <3>1, <3>2, ReturnControl, GotoControl DEF TypeInv, Control, Shape, Steps
  <2>6. QED
    BY <2>1, <2>2, <2>3, <2>4, <2>5 DEF TypeInv
<1>6. CASE ValidateXrayCandidate
  <2>1. Stores'
    BY <1>6
    DEF ValidateXrayCandidate, TypeInv, Stores, Control, Shape, MaybeCfg, core, locals
  <2>2. Procs'
    BY <1>6
    DEF ValidateXrayCandidate, TypeInv, Procs, core, locals
  <2>3. Flags'
    BY <1>6
    DEF ValidateXrayCandidate, TypeInv, Flags, core, flags, locals
  <2>4. Counts'
    BY <1>6, CountFacts DEF ValidateXrayCandidate, TypeInv
  <2>5. Control'
    BY <1>6, ReturnControl, GotoControl
    DEF ValidateXrayCandidate, TypeInv, Control, Shape, MaybeCfg, Steps, locals
  <2>6. QED
    BY <2>1, <2>2, <2>3, <2>4, <2>5 DEF TypeInv
<1>7. CASE TryHotApply
  <2>1. Stores'
    BY <1>7
    DEF TryHotApply, TypeInv, Stores, Control, Shape, MaybeCfg, locals
  <2>2. Procs'
    <3>1. cfg \in Config /\ Sound(cur) /\ Sound(cand) /\ orphans \in Nat
      BY <1>7 DEF TryHotApply, TypeInv, Control, Shape, Procs
    <3>2. CASE UNCHANGED cur
      BY <1>7, <3>1, <3>2 DEF TryHotApply, Procs
    <3>3. CASE HotApplicable /\ ~UNCHANGED cur
      <4>1. cur.alive /\ cur.cfg.users \in SUBSET Users /\ cfg.users \in SUBSET Users
        BY <3>1, <3>3 DEF HotApplicable, Sound, Config
      <4>2. \/ cur' = [Patched(cur.cfg.users \ cfg.users, cfg.users \ cur.cfg.users) EXCEPT !.cfg = cfg]
            \/ \E g \in SUBSET Users, n \in SUBSET Users : cur' = Patched(g, n)
        BY <1>7, <3>3, <4>1 DEF TryHotApply
      <4>3. \A g, n \in SUBSET Users : Sound(Patched(g, n))
        BY <3>1, <4>1, ApiFacts
      <4>4. \A p : Sound(p) => Sound([p EXCEPT !.cfg = cfg])
        BY <3>1 DEF Sound, Process, MaybeCfg
      <4>5. Sound(cur')
        BY <4>1, <4>2, <4>3, <4>4
      <4>6. QED
        BY <1>7, <3>1, <4>5 DEF TryHotApply, Procs
    <3>4. QED
      BY <1>7, <3>2, <3>3 DEF TryHotApply
  <2>3. Flags'
    BY <1>7
    DEF TryHotApply, TypeInv, Flags, flags, locals
  <2>4. Counts'
    BY <1>7
    DEF TryHotApply, Use, Fault, NoFault, TypeInv, Counts, bounds
  <2>5. Control'
    BY <1>7, GotoControl
    DEF TryHotApply, TypeInv, Control, Shape, MaybeCfg, Steps, locals
  <2>6. QED
    BY <2>1, <2>2, <2>3, <2>4, <2>5 DEF TypeInv
<1>8. CASE HotHealthcheck
  <2>1. Stores'
    BY <1>8
    DEF HotHealthcheck, TypeInv, Stores, Control, Shape, MaybeCfg, locals
  <2>2. Procs'
    BY <1>8, ProcessFacts
    DEF HotHealthcheck, TypeInv, Procs, locals
  <2>3. Flags'
    BY <1>8
    DEF HotHealthcheck, TypeInv, Flags, flags, locals
  <2>4. Counts'
    <3>1. NoFault \/ Use(Sick(cur)) \/ Use(Sick(cur) + 1)
      BY <1>8 DEF HotHealthcheck
    <3>2. Sick(cur) \in Nat /\ Sick(cur) + 1 \in Nat
      BY DEF Sick
    <3>3. QED
      BY <3>1, <3>2, CountFacts DEF TypeInv
  <2>5. Control'
    BY <1>8, ReturnControl, GotoControl
    DEF HotHealthcheck, TypeInv, Control, Shape, MaybeCfg, Steps, locals
  <2>6. QED
    BY <2>1, <2>2, <2>3, <2>4, <2>5 DEF TypeInv
<1>9. CASE StopCurrent
  <2>1. Stores'
    BY <1>9
    DEF StopCurrent, TypeInv, Stores, Control, Shape, MaybeCfg, locals
  <2>2. Procs'
    BY <1>9, ProcessFacts
    DEF StopCurrent, TypeInv, Procs, locals
  <2>3. Flags'
    BY <1>9
    DEF StopCurrent, TypeInv, Flags, flags, locals
  <2>4. Counts'
    BY <1>9
    DEF StopCurrent, Use, Fault, NoFault, TypeInv, Counts, bounds
  <2>5. Control'
    BY <1>9, GotoControl
    DEF StopCurrent, TypeInv, Control, Shape, MaybeCfg, Steps, locals
  <2>6. QED
    BY <2>1, <2>2, <2>3, <2>4, <2>5 DEF TypeInv
<1>10. CASE StartCandidate
  <2>1. Stores'
    BY <1>10
    DEF StartCandidate, TypeInv, Stores, Control, Shape, MaybeCfg, locals
  <2>2. Procs'
    BY <1>10, ProcessFacts
    DEF StartCandidate, TypeInv, Procs, Control, Shape, locals
  <2>3. Flags'
    BY <1>10
    DEF StartCandidate, TypeInv, Flags, flags, locals
  <2>4. Counts'
    BY <1>10
    DEF StartCandidate, Use, Fault, NoFault, TypeInv, Counts, bounds
  <2>5. Control'
    BY <1>10, GotoControl
    DEF StartCandidate, TypeInv, Control, Shape, MaybeCfg, Steps, locals
  <2>6. QED
    BY <2>1, <2>2, <2>3, <2>4, <2>5 DEF TypeInv
<1>11. CASE HealthcheckCandidate
  <2>1. Stores'
    BY <1>11
    DEF HealthcheckCandidate, TypeInv, Stores, Control, Shape, MaybeCfg, locals
  <2>2. Procs'
    <3>1. /\ cur' \in {cur, cand} /\ cand' = NoProc
          /\ orphans' \in {orphans, orphans + 1, orphans + 0}
      BY <1>11 DEF HealthcheckCandidate
    <3>2. QED
      BY <3>1, ProcessFacts DEF TypeInv, Procs
  <2>3. Flags'
    BY <1>11
    DEF HealthcheckCandidate, TypeInv, Flags, flags, locals
  <2>4. Counts'
    <3>1. NoFault \/ Use(Sick(cand)) \/ Use(Sick(cand) + 1)
      BY <1>11 DEF HealthcheckCandidate
    <3>2. Sick(cand) \in Nat /\ Sick(cand) + 1 \in Nat
      BY DEF Sick
    <3>3. QED
      BY <3>1, <3>2, CountFacts DEF TypeInv
  <2>5. Control'
    BY <1>11, ReturnControl, GotoControl
    DEF HealthcheckCandidate, TypeInv, Control, Shape, MaybeCfg, Steps, locals
  <2>6. QED
    BY <2>1, <2>2, <2>3, <2>4, <2>5 DEF TypeInv
<1>12. CASE RestoreStop
  <2>1. Stores'
    BY <1>12
    DEF RestoreStop, TypeInv, Stores, Control, Shape, MaybeCfg, locals
  <2>2. Procs'
    BY <1>12, ProcessFacts
    DEF RestoreStop, TypeInv, Procs, locals
  <2>3. Flags'
    BY <1>12
    DEF RestoreStop, TypeInv, Flags, flags, locals
  <2>4. Counts'
    BY <1>12, CountFacts DEF RestoreStop, TypeInv
  <2>5. Control'
    BY <1>12, ReturnControl, GotoControl
    DEF RestoreStop, TypeInv, Control, Shape, MaybeCfg, Steps, locals
  <2>6. QED
    BY <2>1, <2>2, <2>3, <2>4, <2>5 DEF TypeInv
<1>13. CASE RestoreStart
  <2>1. Stores'
    BY <1>13
    DEF RestoreStart, RestoredFile, TypeInv, Stores, Control, Shape, MaybeCfg, locals
  <2>2. Procs'
    <3>1. \/ cur' = cur /\ cand' = cand
          \/ cur' = cur /\ snap # NoCfg /\ cand' = Started(snap)
          \/ Publish(Dead(Started(snap))) /\ snap # NoCfg /\ cand' = cand
      BY <1>13 DEF RestoreStart
    <3>2. orphans' \in Nat
      <4>1. UNCHANGED orphans \/ Publish(Dead(Started(snap)))
        BY <1>13 DEF RestoreStart
      <4>2. QED
        BY <4>1 DEF Publish, TypeInv, Procs
    <3>3. snap # NoCfg => snap \in Config
      BY DEF TypeInv, Control, MaybeCfg
    <3>4. QED
      BY <3>1, <3>2, <3>3, ProcessFacts DEF Publish, TypeInv, Procs
  <2>3. Flags'
    BY <1>13
    DEF RestoreStart, TypeInv, Flags, flags, locals
  <2>4. Counts'
    <3>1. NoFault \/ \E r \in {0, 1} : Use(r) \/ Use(1 + r)
      BY <1>13 DEF RestoreStart
    <3>2. QED
      BY <3>1, CountFacts DEF TypeInv
  <2>5. Control'
    BY <1>13, ReturnControl, GotoControl
    DEF RestoreStart, TypeInv, Control, Shape, MaybeCfg, Steps, locals
  <2>6. QED
    BY <2>1, <2>2, <2>3, <2>4, <2>5 DEF TypeInv
<1>14. CASE RestoreHealthcheck
  <2>1. Stores'
    BY <1>14
    DEF RestoreHealthcheck, RestoredFile, TypeInv, Stores, Control, Shape, MaybeCfg
  <2>2. Procs'
    BY <1>14, ProcessFacts
    DEF RestoreHealthcheck, Publish, TypeInv, Procs
  <2>3. Flags'
    BY <1>14
    DEF RestoreHealthcheck, TypeInv, Flags, flags
  <2>4. Counts'
    BY <1>14
    DEF RestoreHealthcheck, Use, Sick, TypeInv, Counts
  <2>5. Control'
    BY <1>14, ReturnControl
    DEF RestoreHealthcheck, TypeInv, Control, Shape, MaybeCfg, Steps
  <2>6. QED
    BY <2>1, <2>2, <2>3, <2>4, <2>5 DEF TypeInv
<1>15. CASE StopXray
  <2>1. Stores'
    BY <1>15
    DEF StopXray, TypeInv, Stores, Control, Shape, MaybeCfg, locals
  <2>2. Procs'
    BY <1>15, ProcessFacts
    DEF StopXray, TypeInv, Procs, locals
  <2>3. Flags'
    BY <1>15
    DEF StopXray, TypeInv, Flags, locals
  <2>4. Counts'
    BY <1>15
    DEF StopXray, TypeInv, Counts
  <2>5. Control'
    BY <1>15
    DEF StopXray, TypeInv, Control, Shape, Callers, AllActors, MaybeCfg, Steps, locals, jobs
  <2>6. QED
    BY <2>1, <2>2, <2>3, <2>4, <2>5 DEF TypeInv
<1>16. CASE AskRestart
  <2>1. Stores'
    BY <1>16
    DEF AskRestart, TypeInv, Stores, Control, Shape, MaybeCfg, core, locals, hist, panel
  <2>2. Procs'
    BY <1>16
    DEF AskRestart, TypeInv, Procs, core, locals, panel
  <2>3. Flags'
    BY <1>16
    DEF AskRestart, TypeInv, Flags, core, flags, locals, hist, panel
  <2>4. Counts'
    BY <1>16
    DEF AskRestart, TypeInv, Counts
  <2>5. Control'
    BY <1>16
    DEF AskRestart, TypeInv, Control, Shape, Callers, AllActors, MaybeCfg, Steps, locals,
        hist, panel
  <2>6. QED
    BY <2>1, <2>2, <2>3, <2>4, <2>5 DEF TypeInv
<1>16a. CASE TunnelRecovery
  <2>1. Stores'
    BY <1>16a
    DEF TunnelRecovery, Scheduled, TypeInv, Stores, Control, Shape, MaybeCfg, core, locals, hist, panel
  <2>2. Procs'
    BY <1>16a
    DEF TunnelRecovery, Scheduled, TypeInv, Procs, core, locals, panel
  <2>3. Flags'
    BY <1>16a
    DEF TunnelRecovery, Scheduled, TypeInv, Flags, core, flags, locals, hist, panel
  <2>4. Counts'
    BY <1>16a
    DEF TunnelRecovery, Scheduled, TypeInv, Counts
  <2>5. Control'
    BY <1>16a
    DEF TunnelRecovery, Scheduled, TypeInv, Control, Shape, Callers, AllActors, MaybeCfg, Steps, locals,
        hist, panel
  <2>6. QED
    BY <2>1, <2>2, <2>3, <2>4, <2>5 DEF TypeInv
<1>17. CASE ApplyPendingRestart
  <2>1. Stores'
    BY <1>17
    DEF ApplyPendingRestart, Scheduled, TypeInv, Stores, Control, Shape, MaybeCfg, core,
        locals, hist, panel
  <2>2. Procs'
    BY <1>17
    DEF ApplyPendingRestart, TypeInv, Procs, core, locals, panel
  <2>3. Flags'
    BY <1>17
    DEF ApplyPendingRestart, Scheduled, TypeInv, Flags, core, locals, hist, panel
  <2>4. Counts'
    BY <1>17
    DEF ApplyPendingRestart, Scheduled, TypeInv, Counts, bounds
  <2>5. Control'
    BY <1>17
    DEF ApplyPendingRestart, Scheduled, TypeInv, Control, Shape, Callers, AllActors,
        MaybeCfg, Steps, locals, hist, panel
  <2>6. QED
    BY <2>1, <2>2, <2>3, <2>4, <2>5 DEF TypeInv
<1>18. CASE CheckXrayRunning
  <2>1. Stores'
    BY <1>18
    DEF CheckXrayRunning, Scheduled, TypeInv, Stores, Control, Shape, MaybeCfg, core,
        locals, hist, panel
  <2>2. Procs'
    BY <1>18
    DEF CheckXrayRunning, TypeInv, Procs, core, locals, panel
  <2>3. Flags'
    BY <1>18
    DEF CheckXrayRunning, Scheduled, TypeInv, Flags, core, flags, locals, hist, panel
  <2>4. Counts'
    BY <1>18
    DEF CheckXrayRunning, Scheduled, TypeInv, Counts, bounds
  <2>5. Control'
    BY <1>18
    DEF CheckXrayRunning, Scheduled, DidXrayCrash, TypeInv, Control, Shape, Callers,
        AllActors, MaybeCfg, Steps, locals, hist, panel
  <2>6. QED
    BY <2>1, <2>2, <2>3, <2>4, <2>5 DEF TypeInv
<1>19. ASSUME NEW a \in AllActors, SetToNeedRestart(a) PROVE TypeInv'
  <2>1. Stores'
    BY <1>19
    DEF SetToNeedRestart, TypeInv, Stores, Control, Shape, MaybeCfg, core, locals, hist,
        panel
  <2>2. Procs'
    BY <1>19
    DEF SetToNeedRestart, TypeInv, Procs, core, locals, panel
  <2>3. Flags'
    BY <1>19
    DEF SetToNeedRestart, TypeInv, Flags, core, locals, hist, panel
  <2>4. Counts'
    BY <1>19
    DEF SetToNeedRestart, TypeInv, Counts, bounds
  <2>5. Control'
    BY <1>19
    DEF SetToNeedRestart, TypeInv, Control, Shape, Callers, AllActors, MaybeCfg, Steps,
        locals, hist, panel
  <2>6. QED
    BY <2>1, <2>2, <2>3, <2>4, <2>5 DEF TypeInv
<1>20. CASE FlaggedEdit
  <2>1. Stores'
    BY <1>20
    DEF FlaggedEdit, Edit, TypeInv, Stores, Control, Shape, MaybeCfg, Config, core, locals,
        hist, panel
  <2>2. Procs'
    BY <1>20
    DEF FlaggedEdit, TypeInv, Procs, core, locals, panel
  <2>3. Flags'
    BY <1>20
    DEF FlaggedEdit, TypeInv, Flags, core, flags, locals, hist, panel
  <2>4. Counts'
    BY <1>20, LifecycleConstants
    DEF FlaggedEdit, Edit, TypeInv, Counts
  <2>5. Control'
    BY <1>20
    DEF FlaggedEdit, Edit, TypeInv, Control, Shape, Callers, AllActors, MaybeCfg, Steps,
        locals, hist, panel
  <2>6. QED
    BY <2>1, <2>2, <2>3, <2>4, <2>5 DEF TypeInv
<1>21. CASE DirectEdit
  <2>1. Stores'
    BY <1>21
    DEF DirectEdit, Edit, TypeInv, Stores, Control, Shape, MaybeCfg, Config, core, locals,
        hist, panel
  <2>2. Procs'
    BY <1>21
    DEF DirectEdit, TypeInv, Procs, core, locals, panel
  <2>3. Flags'
    BY <1>21
    DEF DirectEdit, TypeInv, Flags, core, flags, locals, hist, panel
  <2>4. Counts'
    BY <1>21, LifecycleConstants
    DEF DirectEdit, Edit, TypeInv, Counts
  <2>5. Control'
    BY <1>21
    DEF DirectEdit, Edit, TypeInv, Control, Shape, Callers, AllActors, MaybeCfg, Steps,
        locals, hist, panel
  <2>6. QED
    BY <2>1, <2>2, <2>3, <2>4, <2>5 DEF TypeInv
<1>22. CASE TemplateEdit
  <2>1. Stores'
    BY <1>22
    DEF TemplateEdit, Edit, TypeInv, Stores, Control, Shape, MaybeCfg, Config, core,
        locals, hist, panel
  <2>2. Procs'
    BY <1>22
    DEF TemplateEdit, TypeInv, Procs, core, locals, panel
  <2>3. Flags'
    BY <1>22
    DEF TemplateEdit, TypeInv, Flags, core, flags, locals, hist, panel
  <2>4. Counts'
    BY <1>22, LifecycleConstants
    DEF TemplateEdit, Edit, TypeInv, Counts
  <2>5. Control'
    BY <1>22
    DEF TemplateEdit, Edit, TypeInv, Control, Shape, Callers, AllActors, MaybeCfg, Steps,
        locals, hist, panel
  <2>6. QED
    BY <2>1, <2>2, <2>3, <2>4, <2>5 DEF TypeInv
<1>23. CASE TemplateCheck
  <2>1. Stores'
    BY <1>23
    DEF TemplateCheck, TypeInv, Stores, Control, Shape, MaybeCfg, core, locals, hist, panel
  <2>2. Procs'
    BY <1>23
    DEF TemplateCheck, TypeInv, Procs, core, locals, panel
  <2>3. Flags'
    BY <1>23
    DEF TemplateCheck, TypeInv, Flags, core, flags, locals, hist, panel
  <2>4. Counts'
    BY <1>23
    DEF TemplateCheck, TypeInv, Counts, bounds
  <2>5. Control'
    BY <1>23
    DEF TemplateCheck, TypeInv, Control, Shape, Callers, AllActors, MaybeCfg, Steps,
        locals, hist, panel
  <2>6. QED
    BY <2>1, <2>2, <2>3, <2>4, <2>5 DEF TypeInv
<1>24. ASSUME NEW a \in {"traffic", "nodesync"}, DisableClient(a) PROVE TypeInv'
  <2>1. Stores'
    BY <1>24
    DEF DisableClient, Edit, Scheduled, TypeInv, Stores, Control, Shape, MaybeCfg, Config,
        core, locals, hist, panel
  <2>2. Procs'
    BY <1>24
    DEF DisableClient, TypeInv, Procs, core, locals, panel
  <2>3. Flags'
    BY <1>24
    DEF DisableClient, Scheduled, TypeInv, Flags, core, flags, locals, hist, panel
  <2>4. Counts'
    BY <1>24, LifecycleConstants
    DEF DisableClient, Scheduled, Edit, TypeInv, Counts
  <2>5. Control'
    <3>1. /\ pc' = [pc EXCEPT ![a] = "pushdel"] /\ pc[a] = "idle" /\ a \in AllActors
          /\ \E u \in db.users : arg' = [arg EXCEPT ![a] = {u}]
          /\ UNCHANGED <<panel, trafficNeeds, checkTime, hist>>
      BY <1>24 DEF DisableClient, Edit, AllActors, Callers
    <3>2. db.users \subseteq Users
      BY DEF TypeInv, Stores, Config
    <3>3. arg' \in [AllActors -> SUBSET Users]
      BY <3>1, <3>2 DEF TypeInv, Control
    <3>4. Shape'
      BY <1>24, <3>1 DEF TypeInv, Control, Shape, Callers, AllActors, panel, locals
    <3>5. QED
      BY <3>1, <3>3, <3>4 DEF TypeInv, Control, panel, locals, hist
  <2>6. QED
    BY <2>1, <2>2, <2>3, <2>4, <2>5 DEF TypeInv
<1>25. ASSUME NEW a \in {"flagged", "traffic", "nodesync"}, PushUser(a) PROVE TypeInv'
  <2>1. Stores'
    BY <1>25
    DEF PushUser, TypeInv, Stores, Control, Shape, MaybeCfg, core, locals, hist, panel
  <2>2. Procs'
    <3>1. /\ UNCHANGED <<cand, orphans>>
          /\ \/ UNCHANGED cur
             \/ cur.alive /\ ApiRemove(arg[a])
             \/ \E u \in arg[a] : cur.alive /\ ApiAdd(u)
      BY <1>25 DEF PushUser, CanAdd, panel
    <3>2. arg[a] \subseteq Users
      BY <1>25 DEF TypeInv, Control, AllActors, Callers
    <3>3. QED
      BY <3>1, <3>2, ApiFacts DEF TypeInv, Procs
  <2>3. Flags'
    BY <1>25
    DEF PushUser, TypeInv, Flags, core, flags, locals, hist, panel
  <2>4. Counts'
    BY <1>25, CountFacts DEF PushUser, TypeInv
  <2>5. Control'
    <3>1. /\ UNCHANGED <<panel, checkTime, hist>> /\ pc[a] \in {"pushadd", "pushdel"}
          /\ \E failed \in BOOLEAN : PushDone(a, failed)
      BY <1>25 DEF PushUser
    <3>2. PICK failed \in BOOLEAN : PushDone(a, failed)
      BY <3>1
    <3>3. AfterPush(a, failed) \in {"wait", "flag", "idle"}
      BY <1>25, Zenon DEF AfterPush
    <3>4. /\ pc' = [pc EXCEPT ![a] = AfterPush(a, failed)]
          /\ arg' = [arg EXCEPT ![a] = {}]
          /\ trafficNeeds' \in BOOLEAN
      BY <3>2, Zenon DEF PushDone
    <3>5. Shape'
      BY <1>25, <3>1, <3>3, <3>4 DEF TypeInv, Control, Shape, Callers, AllActors, panel,
          locals
    <3>6. QED
      BY <3>1, <3>3, <3>4, <3>5 DEF TypeInv, Control, panel, locals, hist
  <2>6. QED
    BY <2>1, <2>2, <2>3, <2>4, <2>5 DEF TypeInv
<1>26. CASE Crash
  <2>1. Stores'
    BY <1>26
    DEF Crash, TypeInv, Stores, Control, Shape, MaybeCfg, locals, hist
  <2>2. Procs'
    BY <1>26, ProcessFacts
    DEF Crash, TypeInv, Procs, locals
  <2>3. Flags'
    BY <1>26
    DEF Crash, TypeInv, Flags, flags, locals, hist
  <2>4. Counts'
    BY <1>26
    DEF Crash, Use, Fault, TypeInv, Counts
  <2>5. Control'
    BY <1>26
    DEF Crash, TypeInv, Control, Shape, Callers, AllActors, MaybeCfg, Steps, locals, hist,
        jobs
  <2>6. QED
    BY <2>1, <2>2, <2>3, <2>4, <2>5 DEF TypeInv
<1>27. CASE PanelCrash
  <2>1. Stores'
    BY <1>27
    DEF PanelCrash, TypeInv, Stores, Control, Shape, MaybeCfg, core, locals
  <2>2. Procs'
    BY <1>27, ProcessFacts
    DEF PanelCrash, TypeInv, Procs, core, locals
  <2>3. Flags'
    BY <1>27
    DEF PanelCrash, TypeInv, Flags, core, locals
  <2>4. Counts'
    BY <1>27
    DEF PanelCrash, Use, Fault, TypeInv, Counts
  <2>5. Control'
    <3>1. /\ pc' = [b \in AllActors |-> IF b = "startup" THEN "wait" ELSE "idle"]
          /\ arg' = [b \in AllActors |-> {}] /\ checkTime' = 0 /\ holder' = "none" /\ at' = "idle"
          /\ cfg' = NoCfg /\ snap' = NoCfg /\ snapFile' = NoCfg
      BY <1>27 DEF PanelCrash
    <3>2. trafficNeeds' \in BOOLEAN /\ same' \in BOOLEAN /\ directErr' \in BOOLEAN
      BY <1>27 DEF PanelCrash
    <3>3. Shape'
      BY <3>1 DEF Shape, AllActors, Callers
    <3>4. QED
      BY <3>1, <3>2, <3>3 DEF Control, MaybeCfg, Steps
  <2>6. QED
    BY <2>1, <2>2, <2>3, <2>4, <2>5 DEF TypeInv
<1>27a. CASE StopProcess
  BY <1>27a DEF StopProcess, flags, jobs, locals, bounds, hist, TypeInv, Control, Shape,
      Stores, Procs, Flags, Counts
<1>28. CASE UNCHANGED vars
  BY <1>28 DEF vars, core, flags, jobs, locals, bounds, hist, TypeInv, Control, Shape,
      Stores, Procs, Flags, Counts
<1>29. QED
  BY <1>1, <1>2, <1>3, <1>4, <1>5, <1>6, <1>7, <1>8, <1>9, <1>10, <1>11,
     <1>12, <1>13, <1>14, <1>15, <1>16, <1>16a, <1>17, <1>18, <1>19, <1>20, <1>21,
     <1>22, <1>23, <1>24, <1>25, <1>26, <1>27, <1>27a, <1>28
  DEF Next, RestartStep

\* The panel starts in a well typed state.
LEMMA TypeInvInit == Init => TypeInv
<1> SUFFICES ASSUME Init PROVE TypeInv
  OBVIOUS
<1>1. Stores /\ Procs
  BY ProcessFacts, LifecycleConstants DEF Init, Stores, Procs, MaybeCfg
<1>2. Flags /\ Counts
  BY DEF Init, Flags, Counts
<1>3. Shape
  BY DEF Init, Shape, AllActors, Callers
<1>4. Control
  <2>1. pc \in [AllActors -> {"idle", "wait", "in", "flag", "pushadd", "pushdel", "check"}]
    BY DEF Init
  <2>2. arg \in [AllActors -> SUBSET Users]
    BY DEF Init
  <2>3. trafficNeeds \in BOOLEAN /\ same \in BOOLEAN /\ directErr \in BOOLEAN
    BY DEF Init
  <2>4. /\ checkTime = 0 /\ holder = "none" /\ at = "idle"
        /\ cfg = NoCfg /\ snap = NoCfg /\ snapFile = NoCfg
    BY DEF Init
  <2>5. QED
    BY <1>3, <2>1, <2>2, <2>3, <2>4 DEF Control, MaybeCfg, Steps
<1>5. QED
  BY <1>1, <1>2, <1>4 DEF TypeInv

\* The control state keeps its shape: the mutex is held exactly while
\* RestartXray runs, by the one caller that is inside.
THEOREM TypeInvariant == Spec => []TypeInv
<1>1. Init => TypeInv
  BY TypeInvInit
<1>2. TypeInv /\ [Next]_vars => TypeInv'
  BY TypeInvStep
<1>3. QED
  BY <1>1, <1>2, PTL DEF Spec

\* Every reachable state is well typed, and the mutex of RestartXray is held by
\* exactly the caller inside it, for every set of clients, bases and callers and
\* every bound.
THEOREM TypeCorrect == Spec => []TypeOK
<1>1. TypeInv => TypeOK
  BY TypeInvMeans
<1>2. Spec => []TypeInv
  BY TypeInvariant
<1>3. QED
  BY <1>1, <1>2, PTL

-----------------------------------------------------------------------------
(***************************************************************************)
(* One core at a time.  Only the steps of RestartXray, StopXray and the    *)
(* crashes touch a process; the others keep Cores because they neither     *)
(* start one nor move the holder into a step that needs the old one gone.  *)
(***************************************************************************)
\* Where the holder goes, and nothing else of Goto and Return.
LEMMA NextAt ==
  /\ \A next : Goto(next) => at' = next
  /\ \A err : Return(err) => at' = "idle"
  BY DEF Goto, Return

\* Cores is inductive: an old process is gone before a candidate starts.
LEMMA CoresStep ==
  ASSUME TypeInv, Cores, [Next]_vars
  PROVE  Cores'
<1> USE DEF Cores
<1>0. Sound(cur) /\ Sound(cand) /\ orphans \in Nat
  BY DEF TypeInv, Procs
<1>1. ASSUME NEW c \in Callers, EnterRestartXray(c) PROVE Cores'
  <2>1. at = "idle"
    BY <1>1 DEF EnterRestartXray, TypeInv, Control, Shape
  <2>2. QED
    BY <1>1, <2>1 DEF EnterRestartXray, core
<1>2. ASSUME NEW c \in Callers, RestartXrayManuallyStopped(c) PROVE Cores'
  BY <1>2 DEF RestartXrayManuallyStopped, core
<1>3. CASE GetXrayConfig
  <2>1. at = "build" /\ at' \in {"decide", "idle"} /\ UNCHANGED <<cand, orphans, stuck>>
    BY <1>3, NextAt DEF GetXrayConfig
  <2>2. QED
    BY <2>1
<1>4. CASE Decide
  BY <1>4, NextAt DEF Decide, core
<1>5. CASE CaptureXraySnapshot
  BY <1>5, NextAt DEF CaptureXraySnapshot, core
<1>6. CASE ValidateXrayCandidate
  BY <1>6, NextAt DEF ValidateXrayCandidate, core
<1>7. CASE TryHotApply
  <2>1. at = "apply" /\ at' \in {"stop", "hothealth"} /\ UNCHANGED <<cand, orphans, stuck>>
    BY <1>7, NextAt DEF TryHotApply
  <2>2. QED
    BY <2>1
<1>8. CASE HotHealthcheck
  <2>1. /\ at = "hothealth" /\ UNCHANGED <<cand, orphans>>
        /\ \/ at' = "idle" /\ UNCHANGED stuck
           \/ at' = "restore" /\ ((cur' = Dead(cur) /\ UNCHANGED stuck) \/ stuck')
    BY <1>8, NextAt DEF HotHealthcheck
  <2>2. QED
    BY <1>0, <2>1, ProcessFacts
<1>9. CASE StopCurrent
  <2>1. /\ at = "stop" /\ UNCHANGED <<cand, orphans>>
        /\ \/ ~cur.alive /\ UNCHANGED <<cur, stuck>> /\ at' = "start"
           \/ cur' = Dead(cur) /\ UNCHANGED stuck /\ at' \in {"start", "restorestop"}
           \/ stuck' /\ at' = "restorestop"
    BY <1>9, NextAt DEF StopCurrent
  <2>2. QED
    BY <1>0, <2>1, ProcessFacts
<1>10. CASE StartCandidate
  <2>1. /\ at = "start" /\ UNCHANGED <<cur, orphans, stuck>>
        /\ \/ at' = "health"
           \/ cand' = NoProc /\ at' = "restore"
    BY <1>10, NextAt DEF StartCandidate
  <2>2. QED
    BY <2>1 DEF NoProc
<1>11. CASE HealthcheckCandidate
  <2>1. at = "health" /\ cand' = NoProc
    BY <1>11 DEF HealthcheckCandidate
  <2>2. \/ /\ at' = "idle" /\ UNCHANGED stuck
           /\ orphans' = orphans + (IF cur.alive THEN 1 ELSE 0)
        \/ UNCHANGED <<cur, orphans, stuck>> /\ at' = "restore"
        \/ stuck'
    BY <1>11, NextAt DEF HealthcheckCandidate
  <2>3. QED
    BY <1>0, <2>1, <2>2 DEF NoProc
<1>12. CASE RestoreStop
  <2>1. /\ at = "restorestop" /\ UNCHANGED <<cand, orphans>>
        /\ \/ ~cur.alive /\ UNCHANGED <<cur, stuck>> /\ at' = "restore"
           \/ cur' = Dead(cur) /\ UNCHANGED stuck /\ at' = "restore"
           \/ stuck' /\ at' = "idle"
    BY <1>12, NextAt DEF RestoreStop
  <2>2. QED
    BY <1>0, <2>1, ProcessFacts
<1>13. CASE RestoreStart
  <2>1. /\ at = "restore" /\ UNCHANGED stuck
        /\ \/ UNCHANGED <<cur, cand, orphans>> /\ at' = "idle"
           \/ UNCHANGED <<cur, orphans>> /\ at' = "restorehealth"
           \/ Publish(Dead(Started(snap))) /\ UNCHANGED cand /\ at' = "idle"
    BY <1>13, NextAt DEF RestoreStart
  <2>2. QED
    BY <1>0, <2>1 DEF Publish
<1>14. CASE RestoreHealthcheck
  <2>1. at = "restorehealth" /\ at' = "idle" /\ cand' = NoProc
    BY <1>14, NextAt DEF RestoreHealthcheck
  <2>2. stuck' \/ (UNCHANGED stuck /\ \E p : Publish(p))
    BY <1>14 DEF RestoreHealthcheck
  <2>3. QED
    BY <1>0, <2>1, <2>2 DEF Publish, NoProc
<1>15. CASE StopXray
  <2>1. /\ at = "idle" /\ UNCHANGED <<at, cand, orphans>>
        /\ stuck' \/ UNCHANGED stuck
    BY <1>15 DEF StopXray, TypeInv, Control, Shape
  <2>2. QED
    BY <2>1
<1>16. CASE AskRestart
  BY <1>16 DEF AskRestart, panel
<1>16a. CASE TunnelRecovery
  BY <1>16a DEF TunnelRecovery, panel
<1>17. CASE ApplyPendingRestart
  BY <1>17 DEF ApplyPendingRestart, panel
<1>18. CASE CheckXrayRunning
  BY <1>18 DEF CheckXrayRunning, panel
<1>19. ASSUME NEW a \in AllActors, SetToNeedRestart(a) PROVE Cores'
  BY <1>19 DEF SetToNeedRestart, panel
<1>20. CASE FlaggedEdit
  BY <1>20 DEF FlaggedEdit, panel
<1>21. CASE DirectEdit
  BY <1>21 DEF DirectEdit, panel
<1>22. CASE TemplateEdit
  BY <1>22 DEF TemplateEdit, panel
<1>23. CASE TemplateCheck
  BY <1>23 DEF TemplateCheck, panel
<1>24. ASSUME NEW a \in {"traffic", "nodesync"}, DisableClient(a) PROVE Cores'
  BY <1>24 DEF DisableClient, panel
<1>25. ASSUME NEW a \in {"flagged", "traffic", "nodesync"}, PushUser(a) PROVE Cores'
  <2>1. UNCHANGED <<cand, orphans, stuck, at>> /\ (cur.alive \/ UNCHANGED cur)
    BY <1>25 DEF PushUser, CanAdd, panel
  <2>2. QED
    BY <2>1
<1>26. CASE Crash
  <2>1. UNCHANGED <<stuck, at>>
    BY <1>26 DEF Crash
  <2>2. \/ cur' = Dead(cur) /\ UNCHANGED <<cand, orphans>>
        \/ cand' = Dead(cand) /\ UNCHANGED <<cur, orphans>>
        \/ orphans > 0 /\ orphans' = orphans - 1 /\ UNCHANGED <<cur, cand>>
    BY <1>26 DEF Crash
  <2>3. QED
    BY <1>0, <2>1, <2>2, ProcessFacts
<1>27. CASE PanelCrash
  <2>1. cur' = NoProc /\ cand' = NoProc /\ orphans' = 0
    BY <1>27 DEF PanelCrash
  <2>2. QED
    BY <2>1 DEF NoProc
<1>27a. CASE StopProcess
  <2>1. UNCHANGED <<cur, cand, stuck, at>> /\ orphans > 0
    BY <1>27a DEF StopProcess
  <2>2. QED
    BY <1>0, <2>1
<1>28. CASE UNCHANGED vars
  BY <1>28 DEF vars, core
<1>29. QED
  BY <1>1, <1>2, <1>3, <1>4, <1>5, <1>6, <1>7, <1>8, <1>9, <1>10, <1>11,
     <1>12, <1>13, <1>14, <1>15, <1>16, <1>16a, <1>17, <1>18, <1>19, <1>20, <1>21,
     <1>22, <1>23, <1>24, <1>25, <1>26, <1>27, <1>27a, <1>28
  DEF Next, RestartStep

\* Two cores never run at once and none is forgotten unless a Stop returned with
\* its process alive: RestartXray, StopXray and restoreKnownGoodXray, crashes of
\* the core and the panel included, for every constant.
THEOREM OneCore == Spec => []SingleCore
<1>1. Init => Cores
  BY DEF Init, Cores, NoProc
<1>2. TypeInv /\ Cores /\ [Next]_vars => Cores'
  BY CoresStep
<1>3. Cores => SingleCore
  BY DEF Cores, SingleCore
<1>4. Spec => []TypeInv
  BY TypeInvariant
<1>5. QED
  BY <1>1, <1>2, <1>3, <1>4, PTL DEF Spec

-----------------------------------------------------------------------------
(***************************************************************************)
(* A stop is final.  With lastCmd = "stop" nobody holds the mutex, so the  *)
(* steps of RestartXray are out; what remains is that the entry gate only  *)
(* opens for a startup or an operator, who change lastCmd.  The node poll  *)
(* and the tunnel monitor are excluded: they force their restarts, and do  *)
(* revive the core.                                                        *)
(***************************************************************************)
\* StopGate is inductive without the node poll and the tunnel monitor.
LEMMA StopGateStep ==
  ASSUME "nodesync" \notin Actors, "tunnel" \notin Actors, TypeInv, StopGate, [Next]_vars
  PROVE  StopGate'
<1> USE DEF StopGate
<1>0. /\ at = "idle" <=> holder = "none"
      /\ holder # "none" => holder \in Callers /\ pc[holder] = "in"
      /\ holder # "nodesync" /\ holder # "tunnel"
      /\ pc \in [AllActors -> {"idle", "wait", "in", "flag", "pushadd", "pushdel", "check"}]
      /\ Sound(cur) /\ "nodesync" \in AllActors /\ "tunnel" \in AllActors
  BY DEF TypeInv, Procs, Control, Shape, AllActors, Callers
<1>1. ASSUME NEW c \in Callers, EnterRestartXray(c) PROVE StopGate'
  <2>1. c # "nodesync" /\ c # "tunnel" /\ c \in AllActors /\ holder = "none" /\ pc' = [pc EXCEPT ![c] = "in"]
    BY <1>1 DEF EnterRestartXray, AllActors
  <2>2. lastCmd' # "stop"
    BY <1>1, <2>1 DEF EnterRestartXray, Forced, TypeInv, Flags
  <2>3. QED
    BY <1>0, <2>1, <2>2
<1>2. ASSUME NEW c \in Callers, RestartXrayManuallyStopped(c) PROVE StopGate'
  <2>1. c # "nodesync" /\ c # "tunnel" /\ c \in AllActors
    BY <1>2 DEF RestartXrayManuallyStopped, AllActors
  <2>2. QED
    BY <1>0, <1>2, <2>1 DEF RestartXrayManuallyStopped, core, flags, hist
<1>3. CASE RestartStep
  <2>1. at # "idle"
    BY <1>3 DEF RestartStep, GetXrayConfig, Decide, CaptureXraySnapshot,
        ValidateXrayCandidate,
                TryHotApply, HotHealthcheck, StopCurrent, StartCandidate,
                HealthcheckCandidate, RestoreStop, RestoreStart, RestoreHealthcheck
  <2>2. UNCHANGED lastCmd
    BY <1>3 DEF RestartStep, GetXrayConfig, Decide, CaptureXraySnapshot,
        ValidateXrayCandidate,
                TryHotApply, HotHealthcheck, StopCurrent, StartCandidate,
                HealthcheckCandidate, RestoreStop, RestoreStart, RestoreHealthcheck
  <2>3. UNCHANGED pc \/ \E v : pc' = [pc EXCEPT ![holder] = v]
    <3>1. ASSUME NEW err, Return(err) PROVE \E v : pc' = [pc EXCEPT ![holder] = v]
      BY <3>1 DEF Return
    <3>2. ASSUME NEW next, Goto(next) PROVE UNCHANGED pc
      BY <3>2 DEF Goto, jobs
    <3>3. (\E err : Return(err)) \/ (\E next : Goto(next))
      BY <1>3, Zenon DEF RestartStep, GetXrayConfig, Decide, CaptureXraySnapshot,
          ValidateXrayCandidate,
                TryHotApply, HotHealthcheck, StopCurrent, StartCandidate,
                HealthcheckCandidate, RestoreStop, RestoreStart, RestoreHealthcheck
    <3>4. QED
      BY <3>1, <3>2, <3>3
  <2>4. QED
    BY <1>0, <2>1, <2>2, <2>3
<1>4. CASE StopXray
  <2>1. holder = "none" /\ UNCHANGED <<pc, holder>> /\ manual'
    BY <1>4 DEF StopXray, jobs
  <2>2. cur' = Dead(cur) \/ stuck'
    BY <1>4 DEF StopXray
  <2>3. QED
    BY <1>0, <2>1, <2>2, ProcessFacts
<1>5. CASE AskRestart
  BY <1>0, <1>5 DEF AskRestart, panel, flags, hist
<1>5a. CASE TunnelRecovery
  BY <1>5a DEF TunnelRecovery, Scheduled
<1>6. CASE ApplyPendingRestart
  BY <1>0, <1>6 DEF ApplyPendingRestart, panel, hist
<1>7. CASE CheckXrayRunning
  BY <1>0, <1>7 DEF CheckXrayRunning, panel, flags, hist
<1>8. ASSUME NEW a \in AllActors, SetToNeedRestart(a) PROVE StopGate'
  BY <1>0, <1>8 DEF SetToNeedRestart, panel, hist
<1>9. CASE FlaggedEdit
  <2>1. UNCHANGED <<holder, manual, lastCmd, stuck, cur>> /\ \E v : pc' = [pc EXCEPT !["flagged"] = v]
    BY <1>9 DEF FlaggedEdit, panel, flags, hist
  <2>2. QED
    BY <1>0, <2>1
<1>10. CASE DirectEdit
  BY <1>0, <1>10 DEF DirectEdit, panel, flags, hist
<1>11. CASE TemplateEdit
  BY <1>0, <1>11 DEF TemplateEdit, panel, flags, hist
<1>12. CASE TemplateCheck
  BY <1>0, <1>12 DEF TemplateCheck, panel, flags, hist
<1>13. ASSUME NEW a \in {"traffic", "nodesync"}, DisableClient(a) PROVE StopGate'
  BY <1>0, <1>13 DEF DisableClient, Edit, panel, flags, hist
<1>14. ASSUME NEW a \in {"flagged", "traffic", "nodesync"}, PushUser(a) PROVE StopGate'
  <2>1. /\ UNCHANGED <<holder, manual, lastCmd, stuck>> /\ pc[a] \in {"pushadd", "pushdel"}
        /\ cur.alive \/ UNCHANGED cur
        /\ \E v : pc' = [pc EXCEPT ![a] = v]
    BY <1>14 DEF PushUser, PushDone, CanAdd, panel, flags, hist
  <2>2. QED
    BY <1>0, <2>1
<1>15. CASE Crash
  <2>1. UNCHANGED <<pc, holder, manual, lastCmd, stuck>> /\ (UNCHANGED cur \/ cur' = Dead(cur))
    BY <1>15 DEF Crash, jobs, flags, hist
  <2>2. QED
    BY <1>0, <2>1, ProcessFacts
<1>16. CASE PanelCrash
  BY <1>0, <1>16 DEF PanelCrash
<1>16a. CASE StopProcess
  BY <1>16a DEF StopProcess, flags, jobs, hist
<1>17. CASE UNCHANGED vars
  BY <1>17 DEF vars, core, flags, jobs, hist
<1>18. QED
  BY <1>1, <1>2, <1>3, <1>4, <1>5, <1>5a, <1>6, <1>7, <1>8, <1>9, <1>10, <1>11,
     <1>12, <1>13, <1>14, <1>15, <1>16, <1>16a, <1>17
  DEF Next

\* Without the node poll and the tunnel monitor, no interleaving of the watchdog,
\* the pending-restart job, the polls and the editors revives a core after StopXray;
\* only a startup or an operator does.
THEOREM StopIsFinal ==
  ASSUME "nodesync" \notin Actors, "tunnel" \notin Actors
  PROVE  Spec => []StoppedStaysStopped
<1>1. Init => StopGate /\ Cores
  BY DEF Init, StopGate, Cores, NoProc, AllActors, Callers
<1>2. TypeInv /\ StopGate /\ Cores /\ [Next]_vars => StopGate' /\ Cores'
  BY StopGateStep, CoresStep
<1>3. TypeInv /\ StopGate /\ Cores => StoppedStaysStopped
  BY DEF TypeInv, Control, Shape, StopGate, Cores, StoppedStaysStopped
<1>4. Spec => []TypeInv
  BY TypeInvariant
<1>5. QED
  BY <1>1, <1>2, <1>3, <1>4, PTL DEF Spec

-----------------------------------------------------------------------------
(***************************************************************************)
(* The known-good config.  Without a panel crash, and with a config.json   *)
(* to begin with, the snapshot RestartXray captures always exists and has  *)
(* passed a healthcheck.                                                   *)
(***************************************************************************)
\* The steps that leave the core's config, the file and the history alone and do
\* not reach a later step of RestartXray.
LEMMA KnownUnmoved ==
  ASSUME Known, UNCHANGED <<file, cand, snap, healthy, cfg, at>>, cur'.cfg = cur.cfg
  PROVE  Known'
  BY DEF Known

\* Where the holder goes, and that leaving drops its snapshot.
LEMMA ReturnSnap ==
  /\ \A err : Return(err) => at' = "idle" /\ snap' = NoCfg
  /\ \A next : Goto(next) => at' = next
  BY DEF Return, Goto

\* The hot patch changes what the core serves; the config the panel believes in
\* is the old one, or the one RestartXray built.
LEMMA HotApplyOutcome ==
  ASSUME TypeInv, TryHotApply
  PROVE  /\ at = "apply" /\ UNCHANGED <<cand, cfg, snap, snapFile>> /\ pc' = pc
         /\ file' \in {file, cfg}
         /\ \/ at' = "stop" /\ cur'.cfg = cur.cfg
            \/ at' = "hothealth" /\ cur'.cfg = cfg
<1>0. Sound(cur) /\ cfg \in Config
  BY DEF TypeInv, Procs, Control, Shape, TryHotApply
<1>1. at = "apply" /\ UNCHANGED <<cand, cfg, snap, snapFile>> /\ pc' = pc /\ file' \in {file, cfg}
  BY DEF TryHotApply, locals, Goto, jobs
<1>2. CASE ~HotApplicable
  BY <1>1, <1>2, ReturnSnap DEF TryHotApply
<1>3. CASE HotApplicable
  <2>1. cur.alive /\ cur.cfg.users \in SUBSET Users /\ cfg.users \in SUBSET Users
    BY <1>0, <1>3 DEF HotApplicable, Sound, Config
  <2>2. \/ /\ at' = "hothealth"
           /\ cur' = [Patched(cur.cfg.users \ cfg.users, cfg.users \ cur.cfg.users) EXCEPT !.cfg = cfg]
        \/ at' = "stop" /\ \E g \in SUBSET Users, n \in SUBSET Users : cur' = Patched(g, n)
    BY <1>3, <2>1, ReturnSnap DEF TryHotApply
  <2>3. \A g, n \in SUBSET Users : Sound(Patched(g, n)) /\ Patched(g, n).cfg = cur.cfg
    BY <1>0, <2>1, ApiFacts
  <2>4. \A p : Sound(p) => [p EXCEPT !.cfg = cfg].cfg = cfg
    BY DEF Sound, Process
  <2>5. Sound(Patched(cur.cfg.users \ cfg.users, cfg.users \ cur.cfg.users))
    BY <2>1, <2>3
  <2>6. QED
    BY <1>1, <2>2, <2>3, <2>4, <2>5
<1>4. QED
  BY <1>2, <1>3

\* Known is inductive: one step per action.
LEMMA KnownStep ==
  ASSUME "panelcrash" \notin Actors, TypeInv, Known, [Next]_vars
  PROVE  Known'
<1>0. /\ Sound(cur) /\ Sound(cand) /\ NoCfg \notin Config
      /\ cur.alive => cur.cfg # NoCfg
      /\ at \notin {"idle", "build"} => cfg \in Config
      /\ at = "idle" <=> holder = "none"
      /\ arg \in [AllActors -> SUBSET Users]
  BY LifecycleConstants DEF TypeInv, Procs, Control, Shape, Sound
<1>1. ASSUME NEW c \in Callers, EnterRestartXray(c) PROVE Known'
  BY <1>0, <1>1 DEF EnterRestartXray, core, locals, Known, Before
<1>2. ASSUME NEW c \in Callers, RestartXrayManuallyStopped(c) PROVE Known'
  BY <1>2, KnownUnmoved DEF RestartXrayManuallyStopped, core, locals, hist
<1>3. CASE GetXrayConfig
  <2>1. at = "build" /\ UNCHANGED <<file, healthy>>
    BY <1>3 DEF GetXrayConfig
  <2>2. \/ at' = "decide" /\ snap' = snap
        \/ at' = "idle" /\ snap' = NoCfg
    BY <1>3, ReturnSnap DEF GetXrayConfig
  <2>3. cur'.cfg = cur.cfg
    <3>1. CASE cur' # cur
      <4>1. PICK gone \in SUBSET db.users \ {{}} :
               \/ cur.alive /\ ApiRemove(gone) /\ UNCHANGED faults
               \/ ~cur.alive /\ UNCHANGED <<cur, faults>>
               \/ cur.alive /\ UNCHANGED cur /\ faults < MaxFaults /\ faults' = faults + 1
        BY <1>3, <3>1, Zenon DEF GetXrayConfig
      <4>2. QED
        BY <1>0, <3>1, <4>1, ApiFacts
    <3>2. QED
      BY <3>1
  <2>4. QED
    BY <2>1, <2>2, <2>3 DEF Known, Before
<1>4. CASE Decide
  <2>1. at = "decide" /\ UNCHANGED <<file, healthy, cur, cand>>
    BY <1>4 DEF Decide, core
  <2>2. \/ at' = "capture" /\ snap' = snap
        \/ at' = "idle" /\ snap' = NoCfg
    BY <1>4, ReturnSnap DEF Decide
  <2>3. QED
    BY <2>1, <2>2 DEF Known, Before
<1>5. CASE CaptureXraySnapshot
  <2>1. at = "capture" /\ UNCHANGED <<file, healthy, cur, cand>>
    BY <1>5 DEF CaptureXraySnapshot, core
  <2>2. \/ at' = "validate" /\ snap' = IF cur.cfg # NoCfg THEN cur.cfg ELSE file
        \/ at' = "idle" /\ snap' = NoCfg
    BY <1>5, ReturnSnap DEF CaptureXraySnapshot
  <2>3. QED
    BY <2>1, <2>2 DEF Known, Before
<1>6. CASE ValidateXrayCandidate
  <2>1. at = "validate" /\ UNCHANGED <<file, healthy, cur, cand>>
    BY <1>6 DEF ValidateXrayCandidate, core
  <2>2. \/ at' = "apply" /\ snap' = snap
        \/ at' = "idle" /\ snap' = NoCfg
    BY <1>6, ReturnSnap DEF ValidateXrayCandidate, locals
  <2>3. QED
    BY <2>1, <2>2 DEF Known, Before
<1>7. CASE TryHotApply
  <2>1. UNCHANGED healthy
    BY <1>7 DEF TryHotApply
  <2>2. QED
    BY <1>7, <2>1, HotApplyOutcome DEF Known, Before
<1>8. CASE HotHealthcheck
  <2>1. at = "hothealth" /\ UNCHANGED <<file, cand>>
    BY <1>8 DEF HotHealthcheck
  <2>2. \/ at' = "idle" /\ snap' = NoCfg /\ UNCHANGED cur /\ healthy' = healthy \cup {cfg}
        \/ /\ at' = "restore" /\ snap' = snap /\ UNCHANGED healthy
           /\ cur' = Dead(cur) \/ UNCHANGED cur
    BY <1>8, ReturnSnap DEF HotHealthcheck, locals
  <2>3. QED
    BY <1>0, <2>1, <2>2 DEF Known, Before
<1>9. CASE StopCurrent
  <2>1. at = "stop" /\ at' \in {"start", "restorestop"} /\ UNCHANGED <<file, cand, snap, healthy>>
    BY <1>9, ReturnSnap DEF StopCurrent, locals
  <2>2. cur' = Dead(cur) \/ UNCHANGED cur
    BY <1>9 DEF StopCurrent
  <2>3. QED
    BY <1>0, <2>1, <2>2, ProcessFacts DEF Known, Before
<1>10. CASE StartCandidate
  <2>1. at = "start" /\ UNCHANGED <<cur, snap, cfg, healthy>>
    BY <1>10 DEF StartCandidate, locals
  <2>2. \/ at' = "health" /\ cand' = Started(cfg)
        \/ at' = "restore"
    BY <1>10, ReturnSnap DEF StartCandidate
  <2>3. QED
    BY <1>0, <2>1, <2>2, ProcessFacts DEF Known, Before
<1>11. CASE HealthcheckCandidate
  <2>1. at = "health"
    BY <1>11 DEF HealthcheckCandidate
  <2>2. \/ at' = "idle" /\ snap' = NoCfg /\ cur' = cand /\ healthy' = healthy \cup {cfg}
        \/ at' = "restore" /\ snap' = snap /\ UNCHANGED healthy
    BY <1>11, ReturnSnap DEF HealthcheckCandidate, locals
  <2>3. QED
    BY <1>0, <2>1, <2>2 DEF Known, Before
<1>12. CASE RestoreStop
  <2>1. at = "restorestop" /\ UNCHANGED healthy
    BY <1>12 DEF RestoreStop
  <2>2. \/ at' = "restore" /\ snap' = snap
        \/ at' = "idle" /\ snap' = NoCfg /\ cur.alive /\ UNCHANGED cur
    BY <1>12, ReturnSnap DEF RestoreStop, locals
  <2>3. QED
    BY <1>0, <2>1, <2>2 DEF Known, Before
<1>13. CASE RestoreStart
  <2>1. at = "restore" /\ UNCHANGED healthy /\ snap # NoCfg /\ snap \in Config
    BY <1>13 DEF RestoreStart, Known, Before, TypeInv, Control, MaybeCfg
  <2>2. \/ at' = "restorehealth" /\ snap' = snap /\ cand' = Started(snap)
        \/ at' = "idle" /\ snap' = NoCfg /\ cur' = Dead(Started(snap))
    BY <1>13, <2>1, ReturnSnap DEF RestoreStart, Publish, locals
  <2>3. Started(snap).cfg = snap /\ Dead(Started(snap)).cfg = snap
    BY <2>1, ProcessFacts
  <2>4. QED
    BY <2>1, <2>2, <2>3 DEF Known, Before
<1>14. CASE RestoreHealthcheck
  <2>1. at = "restorehealth" /\ at' = "idle" /\ snap' = NoCfg
    BY <1>14, ReturnSnap DEF RestoreHealthcheck
  <2>2. cur' \in {cand, Dead(cand)} /\ healthy \subseteq healthy'
    BY <1>14 DEF RestoreHealthcheck, Publish
  <2>3. QED
    BY <1>0, <2>1, <2>2, ProcessFacts DEF Known, Before
<1>15. CASE StopXray
  BY <1>0, <1>15, KnownUnmoved, ProcessFacts DEF StopXray, locals
<1>16. CASE AskRestart
  BY <1>16, KnownUnmoved DEF AskRestart, panel, locals, hist
<1>16a. CASE TunnelRecovery
  BY <1>16a, KnownUnmoved DEF TunnelRecovery, panel, locals, hist
<1>17. CASE ApplyPendingRestart
  BY <1>17, KnownUnmoved DEF ApplyPendingRestart, panel, locals, hist
<1>18. CASE CheckXrayRunning
  BY <1>18, KnownUnmoved DEF CheckXrayRunning, panel, locals, hist
<1>19. ASSUME NEW a \in AllActors, SetToNeedRestart(a) PROVE Known'
  BY <1>19, KnownUnmoved DEF SetToNeedRestart, panel, locals, hist
<1>20. CASE FlaggedEdit
  BY <1>20, KnownUnmoved DEF FlaggedEdit, panel, locals, hist
<1>21. CASE DirectEdit
  BY <1>21, KnownUnmoved DEF DirectEdit, panel, locals, hist
<1>22. CASE TemplateEdit
  BY <1>22, KnownUnmoved DEF TemplateEdit, panel, locals, hist
<1>23. CASE TemplateCheck
  BY <1>23, KnownUnmoved DEF TemplateCheck, panel, locals, hist
<1>24. ASSUME NEW a \in {"traffic", "nodesync"}, DisableClient(a) PROVE Known'
  BY <1>24, KnownUnmoved DEF DisableClient, panel, locals, hist
<1>25. ASSUME NEW a \in {"flagged", "traffic", "nodesync"}, PushUser(a) PROVE Known'
  <2>1. UNCHANGED <<file, cand, snap, healthy, cfg, at>>
    BY <1>25 DEF PushUser, panel, locals, hist
  <2>2. \/ UNCHANGED cur
        \/ cur.alive /\ ApiRemove(arg[a])
        \/ \E u \in arg[a] : cur.alive /\ ApiAdd(u)
    BY <1>25 DEF PushUser, CanAdd
  <2>3. arg[a] \subseteq Users
    BY <1>0, <1>25 DEF AllActors, Callers
  <2>4. cur'.cfg = cur.cfg
    BY <1>0, <2>2, <2>3, ApiFacts
  <2>5. QED
    BY <2>1, <2>4, KnownUnmoved
<1>26. CASE Crash
  <2>1. UNCHANGED <<file, snap, healthy, cfg, at>>
    BY <1>26 DEF Crash, locals, hist
  <2>2. cur' \in {cur, Dead(cur)} /\ cand' \in {cand, Dead(cand)}
    BY <1>26 DEF Crash
  <2>3. cur'.cfg = cur.cfg /\ cand'.cfg = cand.cfg
    BY <1>0, <2>2, ProcessFacts
  <2>4. QED
    BY <2>1, <2>3 DEF Known, Before
<1>27. CASE PanelCrash
  BY <1>27 DEF PanelCrash
<1>27a. CASE StopProcess
  BY <1>27a, KnownUnmoved DEF StopProcess, locals, hist
<1>28. CASE UNCHANGED vars
  BY <1>28, KnownUnmoved DEF vars, core, locals, hist
<1>29. QED
  BY <1>1, <1>2, <1>3, <1>4, <1>5, <1>6, <1>7, <1>8, <1>9, <1>10, <1>11,
     <1>12, <1>13, <1>14, <1>15, <1>16, <1>16a, <1>17, <1>18, <1>19, <1>20, <1>21,
     <1>22, <1>23, <1>24, <1>25, <1>26, <1>27, <1>27a, <1>28
  DEF Next, RestartStep

\* A panel that starts with a config.json and does not crash only ever rolls back
\* to, and between restarts only ever runs, a config that passed a healthcheck.
THEOREM RollbackIsKnownGood ==
  ASSUME InitFile # NoCfg, "panelcrash" \notin Actors
  PROVE  Spec => []KnownGood
<1>1. Init => Known
  BY DEF Init, Known, Before, NoProc
<1>2. TypeInv /\ Known /\ [Next]_vars => Known'
  BY KnownStep
<1>3. TypeInv /\ Known => KnownGood
  BY DEF TypeInv, Control, Shape, Known, KnownGood
<1>4. Spec => []TypeInv
  BY TypeInvariant
<1>5. QED
  BY <1>1, <1>2, <1>3, <1>4, PTL DEF Spec

-----------------------------------------------------------------------------
(***************************************************************************)
(* Edits are kept.  An edit that needs a new process is owed to the core   *)
(* by the flag, or by an actor about to raise it or waiting to restart; a  *)
(* restart takes the configuration of the database over, and what it does  *)
(* with it is the same on each of its paths: it publishes it, or it        *)
(* reports an error to a caller that raises the flag or remembers it.      *)
(***************************************************************************)
\* A restart is on its way.
Owed == need \/ \E a \in AllActors : pc[a] \in {"flag", "wait"}

\* The config under a healthcheck is the one RestartXray built.
Published ==
  /\ at = "hothealth" => cur.cfg = cfg
  /\ at = "health" => cand.cfg = cfg

\* An edit of the base is owed when the core serves another one, and when the
\* config a restart has built is older than it.
EditKept ==
  /\ pc["template"] = "idle"
  /\ holder = "none" /\ cur.alive /\ ~manual /\ cur.cfg.base # db.base => Owed \/ directErr
  /\ at \notin {"idle", "build"} /\ cfg.base # db.base => Owed

\* Leaving RestartXray with an error raises the flag, or is remembered.
LEMMA ReturnOutcome ==
  ASSUME TypeInv, at # "idle"
  PROVE  /\ \A err : Return(err) => /\ at' = "idle"
                                    /\ \A a \in AllActors \ {holder} : pc'[a] = pc[a]
         /\ Return(TRUE) => directErr' \/ pc'[holder] = "flag"
         /\ \A next : Goto(next) => at' = next /\ pc' = pc
<1>1. holder \in AllActors /\ pc \in [AllActors -> {"idle", "wait", "in", "flag", "pushadd", "pushdel", "check"}]
  BY DEF TypeInv, Control, Shape, AllActors
<1>2. ASSUME NEW err, Return(err)
      PROVE  at' = "idle" /\ \A a \in AllActors \ {holder} : pc'[a] = pc[a]
  BY <1>1, <1>2 DEF Return
<1>3. ASSUME Return(TRUE) PROVE directErr' \/ pc'[holder] = "flag"
  <2>1. CASE holder \in Rearming
    BY <1>1, <1>3, <2>1 DEF Return
  <2>2. CASE holder \notin Rearming
    BY <1>3, <2>2 DEF Return
  <2>3. QED
    BY <2>1, <2>2
<1>4. ASSUME NEW next, Goto(next) PROVE at' = next /\ pc' = pc
  BY <1>4 DEF Goto, jobs
<1>5. QED
  BY <1>2, <1>3, <1>4

\* The depletion check of GetXrayConfig only takes clients from the database, and
\* from the core over the API.
LEMMA DepletionOutcome ==
  ASSUME TypeInv, GetXrayConfig
  PROVE  /\ at = "build" /\ UNCHANGED <<file, cand, need, manual>>
         /\ db'.base = db.base /\ db'.users \subseteq db.users
         /\ \/ UNCHANGED cur
            \/ cur.alive /\ \E gone : ApiRemove(gone)
         /\ \/ Goto("decide") /\ cfg' = db' /\ UNCHANGED <<snap, snapFile>>
            \/ Return(TRUE) /\ db' = db
<1>1. /\ at = "build" /\ UNCHANGED <<file, cand, need, manual>>
      /\ \/ UNCHANGED db
         \/ \E gone : db' = [db EXCEPT !.users = @ \ gone]
      /\ \/ Goto("decide") /\ cfg' = db' /\ UNCHANGED <<snap, snapFile>>
         \/ Return(TRUE) /\ db' = db
  BY DEF GetXrayConfig, flags
<1>2. db'.base = db.base /\ db'.users \subseteq db.users
  BY <1>1 DEF TypeInv, Stores, Config
<1>3. CASE cur' # cur
  <2>1. PICK gone \in SUBSET db.users \ {{}} :
           \/ cur.alive /\ ApiRemove(gone) /\ UNCHANGED faults
           \/ ~cur.alive /\ UNCHANGED <<cur, faults>>
           \/ cur.alive /\ UNCHANGED cur /\ faults < MaxFaults /\ faults' = faults + 1
    BY <1>3, Zenon DEF GetXrayConfig
  <2>2. cur.alive /\ ApiRemove(gone)
    BY <1>3, <2>1
  <2>3. QED
    BY <1>1, <1>2, <2>2
<1>4. QED
  BY <1>1, <1>2, <1>3

\* What a step of RestartXray comes to: it builds the database's config, goes on
\* with it, publishes it, or fails and says so.
LEMMA RestartOutcome ==
  ASSUME TypeInv, Published, RestartStep
  PROVE  /\ at # "idle" /\ UNCHANGED <<need, manual>>
         /\ \A a \in AllActors \ {holder} : pc'[a] = pc[a]
         /\ db'.base = db.base /\ db'.users \subseteq db.users
         /\ \/ at = "build" /\ at' = "decide" /\ cfg' = db' /\ pc' = pc
            \/ at # "build" /\ at' # "idle" /\ UNCHANGED <<db, cfg>> /\ pc' = pc
            \/ at' = "idle" /\ UNCHANGED db /\ (directErr' \/ pc'[holder] = "flag")
            \/ at # "build" /\ at' = "idle" /\ UNCHANGED db /\ cur'.cfg = cfg
<1> DEFINE Outcome ==
      /\ at # "idle" /\ UNCHANGED <<need, manual>>
      /\ \A a \in AllActors \ {holder} : pc'[a] = pc[a]
      /\ db'.base = db.base /\ db'.users \subseteq db.users
      /\ \/ at = "build" /\ at' = "decide" /\ cfg' = db' /\ pc' = pc
         \/ at # "build" /\ at' # "idle" /\ UNCHANGED <<db, cfg>> /\ pc' = pc
         \/ at' = "idle" /\ UNCHANGED db /\ (directErr' \/ pc'[holder] = "flag")
         \/ at # "build" /\ at' = "idle" /\ UNCHANGED db /\ cur'.cfg = cfg
<1>1. CASE GetXrayConfig
  <2>1. /\ at = "build" /\ UNCHANGED <<need, manual>>
        /\ db'.base = db.base /\ db'.users \subseteq db.users
        /\ \/ Goto("decide") /\ cfg' = db'
           \/ Return(TRUE) /\ db' = db
    BY <1>1, DepletionOutcome
  <2>2. QED
    BY <2>1, ReturnOutcome
\* The other steps leave the database alone.
<1> DEFINE Plain ==
      /\ at \notin {"idle", "build"} /\ UNCHANGED <<db, need, manual>>
      /\ \/ \E next : Goto(next) /\ next # "idle" /\ UNCHANGED cfg
         \/ Return(TRUE)
         \/ Return(FALSE) /\ cur'.cfg = cfg
<1>0. Plain => Outcome
  <2>1. ASSUME Plain PROVE Outcome
    <3>1. at \notin {"idle", "build"} /\ UNCHANGED <<db, need, manual>>
      BY <2>1
    <3>2. CASE \E next : Goto(next) /\ next # "idle" /\ UNCHANGED cfg
      BY <3>1, <3>2, ReturnOutcome
    <3>3. CASE Return(TRUE)
      BY <3>1, <3>3, ReturnOutcome
    <3>4. CASE Return(FALSE) /\ cur'.cfg = cfg
      BY <3>1, <3>4, ReturnOutcome
    <3>5. QED
      BY <2>1, <3>1, <3>2, <3>3, <3>4
  <2>2. QED
    BY <2>1
<1>2. CASE Decide
  <2>1. at = "decide" /\ UNCHANGED <<db, cur, need, manual>>
    BY <1>2 DEF Decide, core, flags
  <2>2. \/ Return(FALSE) /\ cur.cfg = cfg
        \/ Return(TRUE)
        \/ Goto("capture") /\ UNCHANGED cfg
    BY <1>2 DEF Decide, NothingToDo
  <2>3. QED
    BY <1>0, <2>1, <2>2
<1>3. CASE CaptureXraySnapshot
  <2>1. /\ at = "capture" /\ UNCHANGED <<db, need, manual>>
        /\ Return(TRUE) \/ (Goto("validate") /\ UNCHANGED cfg)
    BY <1>3 DEF CaptureXraySnapshot, flags
  <2>2. QED
    BY <1>0, <2>1
<1>4. CASE ValidateXrayCandidate
  <2>1. /\ at = "validate" /\ UNCHANGED <<db, need, manual>>
        /\ Return(TRUE) \/ (Goto("apply") /\ UNCHANGED cfg)
    BY <1>4 DEF ValidateXrayCandidate, flags, locals
  <2>2. QED
    BY <1>0, <2>1
<1>5. CASE TryHotApply
  <2>1. /\ at = "apply" /\ UNCHANGED <<db, need, manual, cfg>>
        /\ Goto("stop") \/ Goto("hothealth")
    BY <1>5 DEF TryHotApply, flags, locals
  <2>2. QED
    BY <1>0, <2>1
<1>6. CASE HotHealthcheck
  <2>1. at = "hothealth" /\ UNCHANGED <<db, need, manual>> /\ cur.cfg = cfg
    BY <1>6 DEF HotHealthcheck, flags, Published
  <2>2. \/ Return(FALSE) /\ UNCHANGED cur
        \/ Goto("restore") /\ UNCHANGED cfg
    BY <1>6 DEF HotHealthcheck, locals
  <2>3. QED
    BY <1>0, <2>1, <2>2
<1>7. CASE StopCurrent
  <2>1. /\ at = "stop" /\ UNCHANGED <<db, need, manual, cfg>>
        /\ Goto("start") \/ Goto("restorestop")
    BY <1>7 DEF StopCurrent, flags, locals
  <2>2. QED
    BY <1>0, <2>1
<1>8. CASE StartCandidate
  <2>1. /\ at = "start" /\ UNCHANGED <<db, need, manual, cfg>>
        /\ Goto("health") \/ Goto("restore")
    BY <1>8 DEF StartCandidate, flags, locals
  <2>2. QED
    BY <1>0, <2>1
<1>9. CASE HealthcheckCandidate
  <2>1. at = "health" /\ UNCHANGED <<db, need, manual>> /\ cand.cfg = cfg
    BY <1>9 DEF HealthcheckCandidate, flags, Published
  <2>2. \/ Return(FALSE) /\ cur' = cand
        \/ Goto("restore") /\ UNCHANGED cfg
    BY <1>9 DEF HealthcheckCandidate, locals
  <2>3. QED
    BY <1>0, <2>1, <2>2
<1>10. CASE RestoreStop
  <2>1. /\ at = "restorestop" /\ UNCHANGED <<db, need, manual>>
        /\ Return(TRUE) \/ (Goto("restore") /\ UNCHANGED cfg)
    BY <1>10 DEF RestoreStop, flags, locals
  <2>2. QED
    BY <1>0, <2>1
<1>11. CASE RestoreStart
  <2>1. /\ at = "restore" /\ UNCHANGED <<db, need, manual>>
        /\ Return(TRUE) \/ (Goto("restorehealth") /\ UNCHANGED cfg)
    BY <1>11 DEF RestoreStart, flags, locals
  <2>2. QED
    BY <1>0, <2>1
<1>12. CASE RestoreHealthcheck
  <2>1. at = "restorehealth" /\ UNCHANGED <<db, need, manual>> /\ Return(TRUE)
    BY <1>12 DEF RestoreHealthcheck, flags
  <2>2. QED
    BY <1>0, <2>1
<1>13. QED
  BY <1>1, <1>2, <1>3, <1>4, <1>5, <1>6, <1>7, <1>8, <1>9, <1>10, <1>11, <1>12
  DEF RestartStep

\* The callers outside RestartXray, the API pushes and the crashes among them,
\* change no config the panel believes in and start no core; without additions
\* they only take clients from the running one.
LEMMA CallersLeaveConfigs ==
  ASSUME TypeInv, [Next]_vars
  PROVE  \/ RestartStep
         \/ PanelCrash
         \/ /\ UNCHANGED <<file, cfg, snap, snapFile>>
            /\ at' = at \/ (at = "idle" /\ at' = "build")
            /\ cur'.cfg = cur.cfg /\ cand'.cfg = cand.cfg
            /\ cur'.alive => cur.alive
            /\ cand'.alive => cand.alive /\ cand'.eff = cand.eff
            /\ cur'.alive /\ (\A a \in AllActors : pc[a] # "pushadd")
                 => cur'.eff.users \subseteq cur.eff.users
<1> DEFINE Frame ==
      /\ UNCHANGED <<file, cfg, snap, snapFile>>
      /\ at' = at \/ (at = "idle" /\ at' = "build")
      /\ cur'.cfg = cur.cfg /\ cand'.cfg = cand.cfg
      /\ cur'.alive => cur.alive
      /\ cand'.alive => cand.alive /\ cand'.eff = cand.eff
      /\ cur'.alive /\ (\A a \in AllActors : pc[a] # "pushadd")
           => cur'.eff.users \subseteq cur.eff.users
<1>0. /\ Sound(cur) /\ Sound(cand)
      /\ at = "idle" <=> holder = "none"
      /\ arg \in [AllActors -> SUBSET Users]
  BY DEF TypeInv, Procs, Control, Shape
<1>1. ASSUME UNCHANGED <<file, cfg, snap, snapFile, cur, cand, at>> PROVE Frame
  BY <1>1
<1>2. ASSUME NEW c \in Callers, EnterRestartXray(c) PROVE Frame
  BY <1>0, <1>2 DEF EnterRestartXray, core, locals
<1>3. ASSUME NEW c \in Callers, RestartXrayManuallyStopped(c) PROVE Frame
  BY <1>1, <1>3 DEF RestartXrayManuallyStopped, core, locals
<1>4. CASE StopXray
  <2>1. UNCHANGED <<file, cand, cfg, snap, snapFile, at>> /\ cur' \in {cur, Dead(cur)}
    BY <1>4 DEF StopXray, locals
  <2>2. QED
    BY <1>0, <2>1, ProcessFacts
<1>5. CASE AskRestart \/ TunnelRecovery \/ ApplyPendingRestart \/ CheckXrayRunning
  BY <1>1, <1>5 DEF AskRestart, TunnelRecovery, ApplyPendingRestart, CheckXrayRunning, panel, locals
<1>6. ASSUME NEW a \in AllActors, SetToNeedRestart(a) PROVE Frame
  BY <1>1, <1>6 DEF SetToNeedRestart, panel, locals
<1>7. CASE FlaggedEdit \/ DirectEdit \/ TemplateEdit \/ TemplateCheck
  BY <1>1, <1>7 DEF FlaggedEdit, DirectEdit, TemplateEdit, TemplateCheck, panel, locals
<1>8. ASSUME NEW a \in {"traffic", "nodesync"}, DisableClient(a) PROVE Frame
  BY <1>1, <1>8 DEF DisableClient, panel, locals
<1>9. ASSUME NEW a \in {"flagged", "traffic", "nodesync"}, PushUser(a) PROVE Frame
  <2>1. UNCHANGED <<file, cand, cfg, snap, snapFile, at>> /\ a \in AllActors /\ arg[a] \subseteq Users
    BY <1>0, <1>9 DEF PushUser, panel, locals, AllActors, Callers
  <2>2. \/ UNCHANGED cur
        \/ cur.alive /\ ApiRemove(arg[a])
        \/ pc[a] = "pushadd" /\ \E u \in arg[a] : cur.alive /\ ApiAdd(u)
    BY <1>9 DEF PushUser, CanAdd
  <2>3. CASE UNCHANGED cur
    BY <1>1, <2>1, <2>3
  <2>4. CASE cur.alive /\ ApiRemove(arg[a])
    <3>1. cur'.cfg = cur.cfg
      BY <1>0, <2>4, ApiFacts
    <3>2. cur.eff \in Config /\ cur \in Process
      BY <1>0, <2>4 DEF Sound
    <3>3. cur'.eff.users = cur.eff.users \ arg[a]
      BY <2>4, <3>2 DEF ApiRemove, Process, Config
    <3>4. QED
      BY <2>1, <2>4, <3>1, <3>3
  <2>5. CASE pc[a] = "pushadd" /\ \E u \in arg[a] : cur.alive /\ ApiAdd(u)
    <3>1. cur'.cfg = cur.cfg
      BY <1>0, <2>1, <2>5, ApiFacts
    <3>2. QED
      BY <2>1, <2>5, <3>1
  <2>6. QED
    BY <2>2, <2>3, <2>4, <2>5
<1>10. CASE Crash
  <2>1. /\ UNCHANGED <<file, cfg, snap, snapFile, at>>
        /\ cur' \in {cur, Dead(cur)} /\ cand' \in {cand, Dead(cand)}
    BY <1>10 DEF Crash, locals
  <2>2. QED
    BY <1>0, <2>1, ProcessFacts
<1>11. CASE StopProcess
  BY <1>1, <1>11 DEF StopProcess, locals
<1>12. CASE UNCHANGED vars
  BY <1>1, <1>12 DEF vars, core, locals
<1>13. QED
  BY <1>2, <1>3, <1>4, <1>5, <1>6, <1>7, <1>8, <1>9, <1>10, <1>11, <1>12
  DEF Next

\* Published is inductive.
LEMMA PublishedStep ==
  ASSUME TypeInv, Published, [Next]_vars
  PROVE  Published'
<1>0. Sound(cur) /\ Sound(cand) /\ (at \notin {"idle", "build"} => cfg \in Config)
  BY DEF TypeInv, Procs, Control, Shape
<1>1. CASE RestartStep
  <2>1. CASE TryHotApply
    BY <2>1, HotApplyOutcome DEF Published
  <2>2. CASE StartCandidate
    <3>1. at = "start" /\ UNCHANGED cfg
      BY <2>2 DEF StartCandidate, locals
    <3>2. at' = "restore" \/ (at' = "health" /\ cand' = Started(cfg))
      BY <2>2, ReturnSnap DEF StartCandidate
    <3>3. QED
      BY <1>0, <3>1, <3>2, ProcessFacts DEF Published
  <2>3. CASE ~TryHotApply /\ ~StartCandidate
    <3>1. \/ \E err : Return(err)
          \/ \E next \in Steps \ {"hothealth", "health"} : Goto(next)
      BY <1>1, <2>3 DEF RestartStep, GetXrayConfig, Decide, CaptureXraySnapshot,
          ValidateXrayCandidate, HotHealthcheck, StopCurrent, HealthcheckCandidate,
          RestoreStop, RestoreStart, RestoreHealthcheck, Steps
    <3>2. QED
      BY <3>1, ReturnSnap DEF Published
  <2>4. QED
    BY <2>1, <2>2, <2>3
<1>2. CASE PanelCrash
  BY <1>2 DEF PanelCrash, Published
<1>3. CASE /\ UNCHANGED cfg /\ cur'.cfg = cur.cfg /\ cand'.cfg = cand.cfg
           /\ at' = at \/ (at = "idle" /\ at' = "build")
  BY <1>3 DEF Published
<1>4. QED
  BY <1>1, <1>2, <1>3, CallersLeaveConfigs

\* EditKept is inductive without the template editor: one step per action.
LEMMA EditKeptStep ==
  ASSUME "template" \notin Actors, TypeInv, Published, EditKept, [Next]_vars
  PROVE  EditKept'
<1> USE DEF EditKept
<1>0. /\ at = "idle" <=> holder = "none"
      /\ holder # "none" => holder \in AllActors /\ pc[holder] = "in"
      /\ pc \in [AllActors -> {"idle", "wait", "in", "flag", "pushadd", "pushdel", "check"}]
      /\ "template" \in AllActors /\ "flagged" \in AllActors /\ "direct" \in AllActors
      /\ "pending" \in AllActors /\ "watchdog" \in AllActors
      /\ Callers \subseteq AllActors
      /\ Sound(cur)
  BY DEF TypeInv, Procs, Control, Shape, AllActors, Callers
\* Who owed a restart still does, unless it is the one actor that moved.
<1>0a. ASSUME NEW b \in AllActors, \A a \in AllActors \ {b} : pc'[a] = pc[a],
              need => need', pc[b] \notin {"flag", "wait"} \/ pc'[b] \in {"flag", "wait"}
       PROVE  Owed => Owed'
  BY <1>0a DEF Owed
<1>1. ASSUME NEW c \in Callers, EnterRestartXray(c) PROVE EditKept'
  <2>1. /\ at' = "build" /\ holder' = c /\ c # "none" /\ c # "template"
        /\ c \in AllActors /\ pc' = [pc EXCEPT ![c] = "in"]
    BY <1>0, <1>1 DEF EnterRestartXray, Callers
  <2>2. QED
    BY <1>0, <2>1
<1>2. ASSUME NEW c \in Callers, RestartXrayManuallyStopped(c) PROVE EditKept'
  <2>1. /\ at = "idle" /\ at' = "idle" /\ manual' /\ c # "template"
        /\ c \in AllActors /\ \E v : pc' = [pc EXCEPT ![c] = v]
    BY <1>0, <1>2 DEF RestartXrayManuallyStopped, flags
  <2>2. QED
    BY <1>0, <2>1
<1>3. CASE RestartStep
  <2>0. /\ at # "idle" /\ UNCHANGED <<need, manual>>
        /\ \A a \in AllActors \ {holder} : pc'[a] = pc[a]
        /\ db'.base = db.base
        /\ \/ at = "build" /\ at' = "decide" /\ cfg' = db' /\ pc' = pc
           \/ at # "build" /\ at' # "idle" /\ UNCHANGED <<db, cfg>> /\ pc' = pc
           \/ at' = "idle" /\ UNCHANGED db /\ (directErr' \/ pc'[holder] = "flag")
           \/ at # "build" /\ at' = "idle" /\ UNCHANGED db /\ cur'.cfg = cfg
    BY <1>3, RestartOutcome
  <2>1. holder \in AllActors /\ pc[holder] = "in" /\ holder # "template"
    BY <1>0, <2>0
  <2>2. Owed => Owed'
    BY <1>0a, <2>0, <2>1
  <2>3. pc'["template"] = "idle"
    BY <1>0, <2>0, <2>1
  <2>3a. at' # "idle" => holder' # "none"
    BY <1>3, TypeInvStep DEF TypeInv, Control, Shape
  <2>4. CASE at = "build" /\ at' = "decide" /\ cfg' = db'
    BY <2>3, <2>3a, <2>4
  <2>5. CASE at # "build" /\ at' # "idle" /\ UNCHANGED <<db, cfg>>
    BY <2>0, <2>2, <2>3, <2>3a, <2>5
  <2>6. CASE at' = "idle" /\ (directErr' \/ pc'[holder] = "flag")
    BY <2>1, <2>3, <2>6 DEF Owed
  <2>7. CASE at # "build" /\ at' = "idle" /\ UNCHANGED db /\ cur'.cfg = cfg
    BY <2>0, <2>2, <2>3, <2>7
  <2>8. QED
    BY <2>0, <2>4, <2>5, <2>6, <2>7
<1>4. CASE StopXray
  <2>1. holder = "none" /\ UNCHANGED <<pc, holder, at>> /\ manual'
    BY <1>4 DEF StopXray, jobs
  <2>2. QED
    BY <1>0, <2>1
<1>5. CASE AskRestart \/ TunnelRecovery \/ ApplyPendingRestart \/ CheckXrayRunning
  <2>1. /\ UNCHANGED <<db, cur, manual, holder, at, cfg, directErr>>
        /\ \E b \in {"operator", "tunnel", "pending", "watchdog"} :
             \E v \in {"wait", "idle"} :
               /\ pc[b] = "idle" /\ pc' = [pc EXCEPT ![b] = v]
               /\ need' = need \/ v = "wait"
    BY <1>5 DEF AskRestart, TunnelRecovery, ApplyPendingRestart, CheckXrayRunning, Scheduled,
        panel, locals, flags, hist
  <2>2. PICK b \in {"operator", "tunnel", "pending", "watchdog"}, v \in {"wait", "idle"} :
           /\ pc[b] = "idle" /\ pc' = [pc EXCEPT ![b] = v]
           /\ need' = need \/ v = "wait"
    BY <2>1
  <2>3. b \in AllActors /\ b # "template"
    BY DEF AllActors, Callers
  <2>4. Owed => Owed'
    BY <1>0, <2>2, <2>3 DEF Owed
  <2>5. QED
    BY <1>0, <2>1, <2>2, <2>3, <2>4
<1>6. ASSUME NEW a \in AllActors, SetToNeedRestart(a) PROVE EditKept'
  <2>1. /\ UNCHANGED <<db, cur, manual, holder, at, cfg, directErr>> /\ need'
        /\ pc[a] = "flag" /\ pc' = [pc EXCEPT ![a] = "idle"]
    BY <1>6 DEF SetToNeedRestart, panel, locals, hist
  <2>2. QED
    BY <1>0, <2>1 DEF Owed
<1>7. CASE FlaggedEdit
  <2>1. /\ UNCHANGED <<cur, need, manual, holder, at, cfg, directErr>>
        /\ pc["flagged"] = "idle"
        /\ \E v : /\ pc' = [pc EXCEPT !["flagged"] = v]
                  /\ v = "flag" \/ db'.base = db.base
    BY <1>7 DEF FlaggedEdit, Edit, panel, locals, flags, hist, TypeInv, Stores, Config
  <2>2. Owed => Owed'
    BY <1>0, <2>1 DEF Owed
  <2>3. db'.base = db.base \/ Owed'
    BY <1>0, <2>1 DEF Owed
  <2>4. QED
    BY <1>0, <2>1, <2>2, <2>3
<1>8. CASE DirectEdit
  <2>1. /\ UNCHANGED <<cur, need, manual, holder, at, cfg, directErr>>
        /\ pc' = [pc EXCEPT !["direct"] = "wait"]
    BY <1>8 DEF DirectEdit, panel, locals, flags, hist
  <2>2. QED
    BY <1>0, <2>1 DEF Owed
<1>9. CASE TemplateEdit
  BY <1>9 DEF TemplateEdit, Edit
<1>10. CASE TemplateCheck
  BY <1>10 DEF TemplateCheck
<1>11. ASSUME NEW a \in {"traffic", "nodesync"}, DisableClient(a) PROVE EditKept'
  <2>1. /\ UNCHANGED <<cur, need, manual, holder, at, cfg, directErr>>
        /\ pc[a] = "idle" /\ pc' = [pc EXCEPT ![a] = "pushdel"]
        /\ db'.base = db.base /\ a \in AllActors
    BY <1>11 DEF DisableClient, Edit, panel, locals, flags, hist, TypeInv, Stores, Config,
        AllActors, Callers
  <2>2. Owed => Owed'
    BY <1>0, <2>1 DEF Owed
  <2>3. QED
    BY <1>0, <1>11, <2>1, <2>2
<1>12. ASSUME NEW a \in {"flagged", "traffic", "nodesync"}, PushUser(a) PROVE EditKept'
  <2>1. /\ UNCHANGED <<db, need, manual, holder, at, directErr>>
        /\ pc[a] \in {"pushadd", "pushdel"} /\ a \in AllActors
        /\ \E v : pc' = [pc EXCEPT ![a] = v]
    BY <1>12 DEF PushUser, PushDone, panel, flags, hist, AllActors, Callers
  <2>2. cfg' = cfg /\ cur'.cfg = cur.cfg /\ (cur'.alive => cur.alive)
    <3>1. UNCHANGED cfg
      BY <1>12 DEF PushUser, panel, locals
    <3>2. \/ UNCHANGED cur
          \/ cur.alive /\ ApiRemove(arg[a])
          \/ \E u \in arg[a] : cur.alive /\ ApiAdd(u)
      BY <1>12 DEF PushUser, CanAdd
    <3>3. arg[a] \subseteq Users
      BY <2>1 DEF TypeInv, Control
    <3>4. QED
      BY <1>0, <3>1, <3>2, <3>3, ApiFacts
  <2>3. Owed => Owed'
    BY <1>0, <2>1 DEF Owed
  <2>4. QED
    BY <1>0, <1>12, <2>1, <2>2, <2>3
<1>13. CASE Crash
  <2>1. /\ UNCHANGED <<db, pc, need, manual, holder, at, cfg, directErr>>
        /\ cur' \in {cur, Dead(cur)}
    BY <1>13 DEF Crash, jobs, flags, hist, locals
  <2>2. Owed' = Owed
    BY <2>1 DEF Owed
  <2>3. QED
    BY <1>0, <2>1, <2>2, ProcessFacts
<1>14. CASE PanelCrash
  <2>1. cur' = NoProc /\ at' = "idle" /\ pc' = [a \in AllActors |-> IF a = "startup" THEN "wait" ELSE "idle"]
    BY <1>14 DEF PanelCrash
  <2>2. QED
    BY <1>0, <2>1 DEF NoProc
<1>15. CASE StopProcess \/ UNCHANGED vars
  <2>1. UNCHANGED <<db, pc, cur, need, manual, holder, at, cfg, directErr>>
    BY <1>15 DEF StopProcess, vars, core, jobs, flags, hist, locals
  <2>2. Owed' = Owed
    BY <2>1 DEF Owed
  <2>3. QED
    BY <2>1, <2>2
<1>16. QED
  BY <1>1, <1>2, <1>3, <1>4, <1>5, <1>6, <1>7, <1>8, <1>9, <1>10, <1>11, <1>12,
     <1>13, <1>14, <1>15
  DEF Next

\* Without the template editor, which drops its restart when it finds the core
\* down, no interleaving of edits, restarts, rollbacks, stops and crashes loses
\* an edit that needs a new process.
THEOREM EditsAreKept ==
  ASSUME "template" \notin Actors
  PROVE  Spec => []NoLostEdit
<1>1. Init => Published /\ EditKept
  BY DEF Init, Published, EditKept, NoProc, AllActors, Callers
<1>2. TypeInv /\ Published /\ EditKept /\ [Next]_vars => Published' /\ EditKept'
  BY PublishedStep, EditKeptStep
<1>3. EditKept => NoLostEdit
  BY DEF EditKept, NoLostEdit, Settled, Owed
<1>4. Spec => []TypeInv
  BY TypeInvariant
<1>5. QED
  BY <1>1, <1>2, <1>3, <1>4, PTL DEF Spec

-----------------------------------------------------------------------------
(***************************************************************************)
(* Removed clients go.  When clients only leave the database, every config *)
(* the panel holds, the known-good one and the file included, still has    *)
(* those that are left, and no core serves more than its config; a client  *)
(* the core's config has and the database has not is owed a removal.       *)
(***************************************************************************)
\* A removal, or a restart, is on its way.
OwedRemoval == need \/ \E a \in AllActors : pc[a] \in {"flag", "wait", "pushdel"}

\* Every config the panel holds, the known-good one and the file included.
Configs == {cur.cfg, cand.cfg, file, snap, snapFile, cfg}

\* The configs and the cores when no client is ever added.
Covering ==
  /\ \A a \in AllActors : pc[a] # "pushadd"
  /\ \A c \in Configs : c # NoCfg => db.users \subseteq c.users
  /\ cur.alive => cur.eff.users \subseteq cur.cfg.users
  /\ cand.alive => cand.eff.users \subseteq cand.cfg.users
  /\ at \in {"decide", "capture", "validate", "apply"} /\ cur.cfg # NoCfg
       => cfg.users \subseteq cur.cfg.users

\* A removal is owed when the core's config has a client the database has not,
\* and when the config a restart has built does.
RemovalKept ==
  /\ holder = "none" /\ cur.alive /\ ~manual /\ ~(cur.cfg.users \subseteq db.users)
       => OwedRemoval \/ directErr
  /\ at \notin {"idle", "build"} /\ ~(cfg.users \subseteq db.users) => OwedRemoval

\* Taking clients from a core.
LEMMA RemoveFacts ==
  ASSUME Sound(cur), cur.alive, NEW us, ApiRemove(us)
  PROVE  cur'.cfg = cur.cfg /\ cur'.eff.users \subseteq cur.eff.users
<1>1. cur.eff \in Config /\ cur \in Process
  BY DEF Sound
<1>2. cur'.eff.users = cur.eff.users \ us
  BY <1>1 DEF ApiRemove, Process, Config
<1>3. QED
  BY <1>2, ApiFacts

\* Every config a step of RestartXray leaves behind was there before it, or is
\* the database's.
LEMMA RestartConfigs ==
  ASSUME TypeInv, RestartStep
  PROVE  \A c \in Configs' : c \in Configs \cup {db', NoCfg}
<1>0. Sound(cur) /\ Sound(cand) /\ cfg \in MaybeCfg /\ snap \in MaybeCfg
  BY DEF TypeInv, Procs, Control
\* What leaving and going on do to the locals.
<1>0a. \A err : Return(err) => cfg' = NoCfg /\ snap' = NoCfg /\ snapFile' = NoCfg
  BY DEF Return
<1> DEFINE Old == Configs \cup {db', NoCfg}
<1>0b. {cur.cfg, cand.cfg, file, snap, snapFile, cfg, db', NoCfg} \subseteq Old
  BY DEF Configs
<1>0c. ASSUME cur'.cfg \in Old, cand'.cfg \in Old, file' \in Old, cfg' \in Old,
              snap' \in Old, snapFile' \in Old
       PROVE  \A c \in Configs' : c \in Old
  BY <1>0c DEF Configs
<1>0d. NoProc.cfg = NoCfg
  BY DEF NoProc
<1>1. CASE GetXrayConfig
  <2>1. UNCHANGED <<file, cand>>
    BY <1>1, DepletionOutcome
  <2>2. /\ cfg' = db' \/ cfg' = NoCfg
        /\ snap' = snap \/ snap' = NoCfg
        /\ snapFile' = snapFile \/ snapFile' = NoCfg
    BY <1>0a, <1>1, DepletionOutcome
  <2>3. cur'.cfg = cur.cfg
    BY <1>0, <1>1, DepletionOutcome, RemoveFacts
  <2>4. QED
    BY <1>0b, <1>0c, <2>1, <2>2, <2>3
<1>2. CASE Decide
  <2>1. UNCHANGED <<file, cur, cand>>
    BY <1>2 DEF Decide, core
  <2>2. /\ cfg' = cfg \/ cfg' = NoCfg
        /\ snap' = snap \/ snap' = NoCfg
        /\ snapFile' = snapFile \/ snapFile' = NoCfg
    BY <1>0a, <1>2 DEF Decide
  <2>3. QED
    BY <1>0b, <1>0c, <2>1, <2>2
<1>3. CASE CaptureXraySnapshot
  <2>1. UNCHANGED <<file, cur, cand>>
    BY <1>3 DEF CaptureXraySnapshot, core
  <2>2. /\ cfg' = cfg \/ cfg' = NoCfg
        /\ snap' = cur.cfg \/ snap' = file \/ snap' = NoCfg
        /\ snapFile' = file \/ snapFile' = NoCfg
    BY <1>0a, <1>3 DEF CaptureXraySnapshot
  <2>3. QED
    BY <1>0b, <1>0c, <2>1, <2>2
<1>4. CASE ValidateXrayCandidate
  <2>1. UNCHANGED <<file, cur, cand>>
    BY <1>4 DEF ValidateXrayCandidate, core
  <2>2. /\ cfg' = cfg \/ cfg' = NoCfg
        /\ snap' = snap \/ snap' = NoCfg
        /\ snapFile' = snapFile \/ snapFile' = NoCfg
    BY <1>0a, <1>4 DEF ValidateXrayCandidate, locals
  <2>3. QED
    BY <1>0b, <1>0c, <2>1, <2>2
<1>5. CASE TryHotApply
  <2>1. /\ UNCHANGED <<cand, cfg, snap, snapFile>> /\ file' \in {file, cfg}
        /\ cur'.cfg = cur.cfg \/ cur'.cfg = cfg
    BY <1>5, HotApplyOutcome
  <2>2. QED
    BY <1>0b, <1>0c, <2>1
<1>6. CASE HotHealthcheck
  <2>1. UNCHANGED <<file, cand>> /\ cur' \in {cur, Dead(cur)}
    BY <1>6 DEF HotHealthcheck
  <2>2. cur'.cfg = cur.cfg
    BY <1>0, <2>1, ProcessFacts
  <2>3. /\ cfg' = cfg \/ cfg' = NoCfg
        /\ snap' = snap \/ snap' = NoCfg
        /\ snapFile' = snapFile \/ snapFile' = NoCfg
    BY <1>0a, <1>6 DEF HotHealthcheck, locals
  <2>4. QED
    BY <1>0b, <1>0c, <2>1, <2>2, <2>3
<1>7. CASE StopCurrent
  <2>1. UNCHANGED <<file, cand, cfg, snap, snapFile>> /\ cur' \in {cur, Dead(cur)}
    BY <1>7 DEF StopCurrent, locals
  <2>2. cur'.cfg = cur.cfg
    BY <1>0, <2>1, ProcessFacts
  <2>3. QED
    BY <1>0b, <1>0c, <2>1, <2>2
<1>8. CASE StartCandidate
  <2>1. /\ UNCHANGED <<cur, cfg, snap, snapFile>> /\ file' \in {file, cfg}
        /\ cand' \in {Started(cfg), NoProc}
    BY <1>8 DEF StartCandidate, locals
  <2>2. cand'.cfg \in {cfg, NoCfg}
    BY <1>0d, <2>1 DEF Started
  <2>3. QED
    BY <1>0b, <1>0c, <2>1, <2>2
<1>9. CASE HealthcheckCandidate
  <2>1. UNCHANGED file /\ cand' = NoProc /\ cur' \in {cur, cand}
    BY <1>9 DEF HealthcheckCandidate
  <2>2. /\ cfg' = cfg \/ cfg' = NoCfg
        /\ snap' = snap \/ snap' = NoCfg
        /\ snapFile' = snapFile \/ snapFile' = NoCfg
    BY <1>0a, <1>9 DEF HealthcheckCandidate, locals
  <2>3. QED
    BY <1>0b, <1>0c, <1>0d, <2>1, <2>2
<1>10. CASE RestoreStop
  <2>1. UNCHANGED <<file, cand>> /\ cur' \in {cur, Dead(cur)}
    BY <1>10 DEF RestoreStop
  <2>2. cur'.cfg = cur.cfg
    BY <1>0, <2>1, ProcessFacts
  <2>3. /\ cfg' = cfg \/ cfg' = NoCfg
        /\ snap' = snap \/ snap' = NoCfg
        /\ snapFile' = snapFile \/ snapFile' = NoCfg
    BY <1>0a, <1>10 DEF RestoreStop, locals
  <2>4. QED
    BY <1>0b, <1>0c, <2>1, <2>2, <2>3
<1>11. CASE RestoreStart
  <2>1. file' \in {file, snap, snapFile}
    BY <1>11 DEF RestoreStart, RestoredFile
  <2>2. /\ cur' = cur \/ cur' = Dead(Started(snap))
        /\ cand' = cand \/ cand' = Started(snap)
    BY <1>11 DEF RestoreStart, Publish
  <2>3. Started(snap).cfg = snap /\ Dead(Started(snap)).cfg = snap
    BY DEF Started, Dead
  <2>4. /\ cfg' = cfg \/ cfg' = NoCfg
        /\ snap' = snap \/ snap' = NoCfg
        /\ snapFile' = snapFile \/ snapFile' = NoCfg
    BY <1>0a, <1>11 DEF RestoreStart, locals
  <2>5. QED
    BY <1>0b, <1>0c, <2>1, <2>2, <2>3, <2>4
<1>12. CASE RestoreHealthcheck
  <2>1. file' \in {file, snapFile} /\ cand' = NoProc /\ cur' \in {cand, Dead(cand)}
    BY <1>12 DEF RestoreHealthcheck, RestoredFile, Publish
  <2>2. cur'.cfg = cand.cfg
    BY <1>0, <2>1, ProcessFacts
  <2>3. cfg' = NoCfg /\ snap' = NoCfg /\ snapFile' = NoCfg
    BY <1>0a, <1>12 DEF RestoreHealthcheck
  <2>4. QED
    BY <1>0b, <1>0c, <1>0d, <2>1, <2>2, <2>3
<1>13. QED
  BY <1>1, <1>2, <1>3, <1>4, <1>5, <1>6, <1>7, <1>8, <1>9, <1>10, <1>11, <1>12
  DEF RestartStep

\* With nothing to add, a hot patch, complete or cut short, leaves the core
\* serving no more than the config the panel believes in.
LEMMA HotApplyServes ==
  ASSUME TypeInv, Covering, TryHotApply
  PROVE  cur'.alive => cur'.eff.users \subseteq cur'.cfg.users
<1>0. Sound(cur) /\ cfg \in Config /\ NoCfg \notin Config
  BY LifecycleConstants DEF TypeInv, Procs, Control, Shape, TryHotApply
<1>1. CASE ~HotApplicable
  BY <1>1 DEF TryHotApply, Covering
<1>2. CASE HotApplicable
  <2>1. /\ cur.alive /\ cur \in Process /\ cur.cfg \in Config /\ cur.eff \in Config
        /\ cur.cfg # NoCfg /\ at = "apply"
    BY <1>0, <1>2 DEF HotApplicable, Sound, TryHotApply
  <2>2. cfg.users \subseteq cur.cfg.users /\ cur.eff.users \subseteq cur.cfg.users
    BY <2>1 DEF Covering
  <2>3. cfg.users \ cur.cfg.users = {}
    BY <2>2
  <2>4. \/ cur' = [Patched(cur.cfg.users \ cfg.users, {}) EXCEPT !.cfg = cfg]
        \/ \E g \in SUBSET (cur.cfg.users \ cfg.users) : cur' = Patched(g, {})
    BY <1>2, <2>3 DEF TryHotApply
  <2>5. ASSUME NEW g
        PROVE  /\ Patched(g, {}).cfg = cur.cfg
               /\ Patched(g, {}).eff.users = cur.eff.users \ g
               /\ [Patched(g, {}) EXCEPT !.cfg = cfg].cfg = cfg
               /\ [Patched(g, {}) EXCEPT !.cfg = cfg].eff.users = cur.eff.users \ g
    BY <2>1 DEF Patched, Process, Config
  <2>6. CASE cur' = [Patched(cur.cfg.users \ cfg.users, {}) EXCEPT !.cfg = cfg]
    <3>1. cur'.cfg = cfg /\ cur'.eff.users = cur.eff.users \ (cur.cfg.users \ cfg.users)
      BY <2>5, <2>6
    <3>2. QED
      BY <2>2, <3>1
  <2>7. CASE \E g \in SUBSET (cur.cfg.users \ cfg.users) : cur' = Patched(g, {})
    <3>1. PICK g : cur' = Patched(g, {})
      BY <2>7
    <3>2. cur'.cfg = cur.cfg /\ cur'.eff.users = cur.eff.users \ g
      BY <2>5, <3>1
    <3>3. QED
      BY <2>2, <3>2
  <2>8. QED
    BY <2>4, <2>6, <2>7
<1>3. QED
  BY <1>1, <1>2

\* Covering is inductive when nobody adds a client.
LEMMA CoveringStep ==
  ASSUME "flagged" \notin Actors, TypeInv, Published, Covering, [Next]_vars
  PROVE  Covering'
<1>0. /\ Sound(cur) /\ Sound(cand) /\ NoCfg \notin Config
      /\ at \notin {"idle", "build"} => cfg \in Config
      /\ at = "idle" <=> holder = "none"
      /\ pc \in [AllActors -> {"idle", "wait", "in", "flag", "pushadd", "pushdel", "check"}]
      /\ Callers \subseteq AllActors
      /\ at # "idle" => holder \in AllActors
  BY LifecycleConstants DEF TypeInv, Procs, Control, Shape, AllActors
\* Nobody begins to push an addition.
<1>1. \A a \in AllActors : pc'[a] # "pushadd"
  <2>1. ASSUME NEW b \in AllActors, NEW v, v # "pushadd", pc' = [pc EXCEPT ![b] = v]
        PROVE  \A a \in AllActors : pc'[a] # "pushadd"
    BY <1>0, <2>1 DEF Covering
  <2>2. CASE \E c \in Callers : EnterRestartXray(c) \/ RestartXrayManuallyStopped(c)
    BY <1>0, <2>1, <2>2 DEF EnterRestartXray, RestartXrayManuallyStopped
  <2>3. CASE RestartStep
    <3>1. at # "idle"
      BY <2>3, RestartOutcome
    <3>2. (\E err : Return(err)) \/ (\E next : Goto(next))
      BY <2>3, Zenon DEF RestartStep, GetXrayConfig, Decide, CaptureXraySnapshot,
          ValidateXrayCandidate, TryHotApply, HotHealthcheck, StopCurrent, StartCandidate,
          HealthcheckCandidate, RestoreStop, RestoreStart, RestoreHealthcheck
    <3>3. CASE \E err : Return(err)
      BY <1>0, <2>1, <3>1, <3>3 DEF Return
    <3>4. CASE \E next : Goto(next)
      BY <3>4 DEF Goto, jobs, Covering
    <3>5. QED
      BY <3>2, <3>3, <3>4
  <2>4. CASE StopXray \/ Crash \/ StopProcess \/ UNCHANGED vars
    BY <2>4 DEF StopXray, Crash, StopProcess, vars, jobs, Covering
  <2>5. CASE AskRestart \/ TunnelRecovery \/ ApplyPendingRestart \/ CheckXrayRunning
    BY <2>1, <2>5 DEF AskRestart, TunnelRecovery, ApplyPendingRestart, CheckXrayRunning,
        AllActors, Callers
  <2>6. CASE \E a \in AllActors : SetToNeedRestart(a)
    BY <2>1, <2>6 DEF SetToNeedRestart
  <2>7. CASE FlaggedEdit
    BY <2>7 DEF FlaggedEdit, Edit
  <2>8. CASE DirectEdit \/ TemplateEdit \/ TemplateCheck
    BY <2>1, <2>8 DEF DirectEdit, TemplateEdit, TemplateCheck, AllActors, Callers
  <2>9. CASE \E a \in {"traffic", "nodesync"} : DisableClient(a)
    BY <2>1, <2>9 DEF DisableClient, AllActors, Callers
  <2>10. ASSUME NEW a \in {"flagged", "traffic", "nodesync"}, PushUser(a)
         PROVE  \A b \in AllActors : pc'[b] # "pushadd"
    <3>1. \E failed \in BOOLEAN : pc' = [pc EXCEPT ![a] = AfterPush(a, failed)]
      BY <2>10 DEF PushUser, PushDone
    <3>2. \A failed \in BOOLEAN : AfterPush(a, failed) # "pushadd"
      BY DEF AfterPush
    <3>3. QED
      BY <2>1, <3>1, <3>2 DEF AllActors, Callers
  <2>11. CASE PanelCrash
    BY <2>11 DEF PanelCrash
  <2>12. QED
    BY <2>2, <2>3, <2>4, <2>5, <2>6, <2>7, <2>8, <2>9, <2>10, <2>11 DEF Next
\* The database only loses clients.
<1>2. db'.users \subseteq db.users
  <2>1. CASE RestartStep
    BY <2>1, RestartOutcome
  <2>2. CASE FlaggedEdit
    BY <2>2 DEF FlaggedEdit, Edit
  <2>3. CASE DirectEdit \/ TemplateEdit
    BY <2>3 DEF DirectEdit, TemplateEdit, TypeInv, Stores, Config
  <2>4. CASE \E a \in {"traffic", "nodesync"} : DisableClient(a)
    BY <2>4 DEF DisableClient, TypeInv, Stores, Config
  <2>5. CASE ~RestartStep /\ UNCHANGED db
    BY <2>5
  <2>6. QED
    BY <2>1, <2>2, <2>3, <2>4, <2>5 DEF Next, EnterRestartXray, RestartXrayManuallyStopped,
        StopXray, AskRestart, TunnelRecovery, ApplyPendingRestart, CheckXrayRunning,
        SetToNeedRestart, TemplateCheck, PushUser, Crash, PanelCrash, StopProcess, vars
<1>3. CASE RestartStep
  <2>1. \A c \in Configs' : c # NoCfg => db'.users \subseteq c.users
    <3>1. \A c \in Configs' : c \in Configs \cup {db', NoCfg}
      BY <1>3, RestartConfigs
    <3>2. QED
      BY <1>2, <3>1 DEF Covering
  <2>2. CASE GetXrayConfig
    <3>1. UNCHANGED cand /\ (UNCHANGED cur \/ (cur.alive /\ \E gone : ApiRemove(gone)))
      BY <2>2, DepletionOutcome
    <3>2. cur'.cfg = cur.cfg /\ (cur'.alive => cur.alive /\ cur'.eff.users \subseteq cur.eff.users)
      <4>1. CASE UNCHANGED cur
        BY <4>1
      <4>2. CASE cur.alive /\ \E gone : ApiRemove(gone)
        BY <1>0, <4>2, RemoveFacts
      <4>3. QED
        BY <3>1, <4>1, <4>2
    <3>3. \/ at' = "decide" /\ cfg' = db'
          \/ at' = "idle"
      BY <2>2, DepletionOutcome, ReturnSnap
    <3>4. cur.cfg # NoCfg => db.users \subseteq cur.cfg.users
      BY DEF Covering, Configs
    <3>5. QED
      BY <1>1, <1>2, <2>1, <3>1, <3>2, <3>3, <3>4 DEF Covering
  <2>3. CASE Decide \/ CaptureXraySnapshot \/ ValidateXrayCandidate
    <3>1. UNCHANGED <<cur, cand>> /\ at \in {"decide", "capture", "validate"}
      BY <2>3 DEF Decide, CaptureXraySnapshot, ValidateXrayCandidate, core
    <3>2. at' = "idle" \/ cfg' = cfg
      BY <2>3, ReturnSnap DEF Decide, CaptureXraySnapshot, ValidateXrayCandidate, locals
    <3>3. QED
      BY <1>1, <2>1, <3>1, <3>2 DEF Covering
  <2>4. CASE TryHotApply
    <3>1. UNCHANGED cand /\ at' \in {"stop", "hothealth"}
      BY <2>4, HotApplyOutcome
    <3>2. cur'.alive => cur'.eff.users \subseteq cur'.cfg.users
      BY <2>4, HotApplyServes
    <3>3. QED
      BY <1>1, <2>1, <3>1, <3>2 DEF Covering
  <2>5. CASE HotHealthcheck \/ StopCurrent \/ RestoreStop
    <3>1. UNCHANGED cand /\ cur' \in {cur, Dead(cur)} /\ at' \in {"idle", "restore", "start", "restorestop"}
      BY <2>5, ReturnSnap DEF HotHealthcheck, StopCurrent, RestoreStop
    <3>2. cur'.alive => cur' = cur
      BY <1>0, <3>1, ProcessFacts
    <3>3. QED
      BY <1>1, <2>1, <3>1, <3>2 DEF Covering
  <2>6. CASE StartCandidate
    <3>1. UNCHANGED cur /\ cand' \in {Started(cfg), NoProc} /\ at' \in {"health", "restore"}
      BY <2>6, ReturnSnap DEF StartCandidate
    <3>2. cand'.alive => cand'.eff = cand'.cfg
      BY <3>1 DEF Started, NoProc
    <3>3. QED
      BY <1>1, <2>1, <3>1, <3>2 DEF Covering
  <2>7. CASE HealthcheckCandidate
    <3>1. cand' = NoProc /\ cur' \in {cur, cand} /\ at' \in {"idle", "restore"}
      BY <2>7, ReturnSnap DEF HealthcheckCandidate
    <3>2. QED
      BY <1>1, <2>1, <3>1 DEF Covering, NoProc
  <2>8. CASE RestoreStart
    <3>1. /\ cur' = cur \/ cur' = Dead(Started(snap))
          /\ cand' = cand \/ cand' = Started(snap)
          /\ at' \in {"idle", "restorehealth"}
      BY <2>8, ReturnSnap DEF RestoreStart, Publish
    <3>2. /\ ~Dead(Started(snap)).alive
          /\ Started(snap).eff = Started(snap).cfg
      BY DEF Started, Dead
    <3>3. QED
      BY <1>1, <2>1, <3>1, <3>2 DEF Covering
  <2>9. CASE RestoreHealthcheck
    <3>1. cand' = NoProc /\ cur' \in {cand, Dead(cand)} /\ at' = "idle"
      BY <2>9, ReturnSnap DEF RestoreHealthcheck, Publish
    <3>2. (cur'.alive => cur' = cand) /\ ~cand'.alive
      BY <1>0, <3>1, ProcessFacts DEF NoProc
    <3>3. QED
      BY <1>1, <2>1, <3>1, <3>2 DEF Covering
  <2>10. QED
    BY <1>3, <2>2, <2>3, <2>4, <2>5, <2>6, <2>7, <2>8, <2>9 DEF RestartStep
<1>4. CASE PanelCrash
  <2>1. /\ cur' = NoProc /\ cand' = NoProc /\ at' = "idle"
        /\ cfg' = NoCfg /\ snap' = NoCfg /\ snapFile' = NoCfg /\ UNCHANGED file
    BY <1>4 DEF PanelCrash
  <2>2. NoProc.cfg = NoCfg /\ ~NoProc.alive
    BY DEF NoProc
  <2>3. \A c \in Configs' : c = NoCfg \/ c \in Configs
    BY <2>1, <2>2 DEF Configs
  <2>4. QED
    BY <1>1, <1>2, <2>1, <2>2, <2>3 DEF Covering
<1>5. CASE /\ UNCHANGED <<file, cfg, snap, snapFile>>
           /\ at' = at \/ (at = "idle" /\ at' = "build")
           /\ cur'.cfg = cur.cfg /\ cand'.cfg = cand.cfg
           /\ cur'.alive => cur.alive
           /\ cand'.alive => cand.alive /\ cand'.eff = cand.eff
           /\ cur'.alive /\ (\A a \in AllActors : pc[a] # "pushadd")
                => cur'.eff.users \subseteq cur.eff.users
  <2>1. Configs' = Configs
    BY <1>5 DEF Configs
  <2>2. \A c \in Configs' : c # NoCfg => db'.users \subseteq c.users
    BY <1>2, <2>1 DEF Covering
  <2>3. cur'.alive => cur'.eff.users \subseteq cur'.cfg.users
    BY <1>5 DEF Covering
  <2>4. cand'.alive => cand'.eff.users \subseteq cand'.cfg.users
    BY <1>5 DEF Covering
  <2>5. at' \in {"decide", "capture", "validate", "apply"} /\ cur'.cfg # NoCfg
          => cfg'.users \subseteq cur'.cfg.users
    BY <1>5 DEF Covering
  <2>6. QED
    BY <1>1, <2>2, <2>3, <2>4, <2>5 DEF Covering
<1>6. QED
  BY <1>3, <1>4, <1>5, CallersLeaveConfigs

\* RemovalKept is inductive when nobody adds a client and the setting asks to
\* restart after a removal: one step per action.
LEMMA RemovalKeptStep ==
  ASSUME "flagged" \notin Actors, RestartOnDisable,
         TypeInv, Published, Covering, RemovalKept, [Next]_vars
  PROVE  RemovalKept'
<1> USE DEF RemovalKept
<1>0. /\ at = "idle" <=> holder = "none"
      /\ holder # "none" => holder \in AllActors /\ pc[holder] = "in"
      /\ pc \in [AllActors -> {"idle", "wait", "in", "flag", "pushadd", "pushdel", "check"}]
      /\ Callers \subseteq AllActors
      /\ Sound(cur)
  BY DEF TypeInv, Procs, Control, Shape, AllActors
<1>1. ASSUME NEW c \in Callers, EnterRestartXray(c) PROVE RemovalKept'
  BY <1>1 DEF EnterRestartXray, Callers
<1>2. ASSUME NEW c \in Callers, RestartXrayManuallyStopped(c) PROVE RemovalKept'
  BY <1>0, <1>2 DEF RestartXrayManuallyStopped, flags
<1>3. CASE RestartStep
  <2>0. /\ at # "idle" /\ UNCHANGED <<need, manual>>
        /\ \A a \in AllActors \ {holder} : pc'[a] = pc[a]
        /\ \/ at = "build" /\ at' = "decide" /\ cfg' = db' /\ pc' = pc
           \/ at # "build" /\ at' # "idle" /\ UNCHANGED <<db, cfg>> /\ pc' = pc
           \/ at' = "idle" /\ UNCHANGED db /\ (directErr' \/ pc'[holder] = "flag")
           \/ at # "build" /\ at' = "idle" /\ UNCHANGED db /\ cur'.cfg = cfg
    BY <1>3, RestartOutcome
  <2>1. holder \in AllActors /\ pc[holder] = "in"
    BY <1>0, <2>0
  <2>2. OwedRemoval => OwedRemoval'
    BY <2>0, <2>1 DEF OwedRemoval
  <2>3. at' # "idle" => holder' # "none"
    BY <1>3, TypeInvStep DEF TypeInv, Control, Shape
  <2>4. CASE at = "build" /\ at' = "decide" /\ cfg' = db'
    BY <2>3, <2>4
  <2>5. CASE at # "build" /\ at' # "idle" /\ UNCHANGED <<db, cfg>>
    BY <2>0, <2>2, <2>3, <2>5
  <2>6. CASE at' = "idle" /\ (directErr' \/ pc'[holder] = "flag")
    BY <2>1, <2>6 DEF OwedRemoval
  <2>7. CASE at # "build" /\ at' = "idle" /\ UNCHANGED db /\ cur'.cfg = cfg
    BY <2>0, <2>2, <2>7
  <2>8. QED
    BY <2>0, <2>4, <2>5, <2>6, <2>7
<1>4. CASE StopXray
  BY <1>0, <1>4 DEF StopXray
<1>5. CASE AskRestart \/ TunnelRecovery \/ ApplyPendingRestart \/ CheckXrayRunning
  <2>1. /\ UNCHANGED <<db, cur, manual, holder, at, cfg, directErr>>
        /\ \E b \in {"operator", "tunnel", "pending", "watchdog"} :
             \E v \in {"wait", "idle"} :
               /\ pc[b] = "idle" /\ pc' = [pc EXCEPT ![b] = v]
               /\ need' = need \/ v = "wait"
    BY <1>5 DEF AskRestart, TunnelRecovery, ApplyPendingRestart, CheckXrayRunning, Scheduled,
        panel, locals, flags, hist
  <2>2. PICK b \in {"operator", "tunnel", "pending", "watchdog"}, v \in {"wait", "idle"} :
           /\ pc[b] = "idle" /\ pc' = [pc EXCEPT ![b] = v]
           /\ need' = need \/ v = "wait"
    BY <2>1
  <2>3. b \in AllActors
    BY DEF AllActors, Callers
  <2>4. OwedRemoval => OwedRemoval'
    BY <1>0, <2>2, <2>3 DEF OwedRemoval
  <2>5. QED
    BY <2>1, <2>4
<1>6. ASSUME NEW a \in AllActors, SetToNeedRestart(a) PROVE RemovalKept'
  BY <1>6 DEF SetToNeedRestart, OwedRemoval
<1>7. CASE FlaggedEdit
  BY <1>7 DEF FlaggedEdit, Edit
<1>8. CASE DirectEdit \/ TemplateEdit
  <2>1. /\ UNCHANGED <<cur, need, manual, holder, at, cfg, directErr>>
        /\ db'.users = db.users
        /\ \E b \in {"direct", "template"}, v \in {"wait", "check"} :
             pc[b] = "idle" /\ pc' = [pc EXCEPT ![b] = v]
    BY <1>8 DEF DirectEdit, TemplateEdit, Edit, panel, locals, flags, hist, TypeInv, Stores, Config
  <2>2. OwedRemoval => OwedRemoval'
    BY <1>0, <2>1 DEF OwedRemoval, AllActors, Callers
  <2>3. QED
    BY <2>1, <2>2
<1>9. CASE TemplateCheck
  <2>1. /\ UNCHANGED <<db, cur, need, manual, holder, at, cfg, directErr>>
        /\ \E v : pc["template"] = "check" /\ pc' = [pc EXCEPT !["template"] = v]
    BY <1>9 DEF TemplateCheck, panel, locals, flags, hist
  <2>2. OwedRemoval => OwedRemoval'
    BY <1>0, <2>1 DEF OwedRemoval, AllActors, Callers
  <2>3. QED
    BY <2>1, <2>2
<1>10. ASSUME NEW a \in {"traffic", "nodesync"}, DisableClient(a) PROVE RemovalKept'
  <2>1. pc'[a] = "pushdel" /\ a \in AllActors
    BY <1>0, <1>10 DEF DisableClient, AllActors, Callers
  <2>2. QED
    BY <2>1 DEF OwedRemoval
<1>11. ASSUME NEW a \in {"flagged", "traffic", "nodesync"}, PushUser(a) PROVE RemovalKept'
  <2>1. /\ a \in AllActors /\ pc[a] = "pushdel"
        /\ \E failed \in BOOLEAN : pc' = [pc EXCEPT ![a] = AfterPush(a, failed)]
    BY <1>11 DEF PushUser, PushDone, AllActors, Callers, Covering
  <2>2. \A failed \in BOOLEAN : AfterPush(a, failed) \in {"wait", "flag"}
    BY <2>1 DEF AfterPush
  <2>3. pc'[a] \in {"wait", "flag"}
    BY <1>0, <2>1, <2>2
  <2>4. QED
    BY <2>1, <2>3 DEF OwedRemoval
<1>12. CASE Crash
  <2>1. /\ UNCHANGED <<db, pc, need, manual, holder, at, cfg, directErr>>
        /\ cur' \in {cur, Dead(cur)}
    BY <1>12 DEF Crash, jobs, flags, hist, locals
  <2>2. OwedRemoval' = OwedRemoval
    BY <2>1 DEF OwedRemoval
  <2>3. QED
    BY <1>0, <2>1, <2>2, ProcessFacts
<1>13. CASE PanelCrash
  BY <1>13 DEF PanelCrash, NoProc
<1>14. CASE StopProcess \/ UNCHANGED vars
  <2>1. UNCHANGED <<db, pc, cur, need, manual, holder, at, cfg, directErr>>
    BY <1>14 DEF StopProcess, vars, core, jobs, flags, hist, locals
  <2>2. OwedRemoval' = OwedRemoval
    BY <2>1 DEF OwedRemoval
  <2>3. QED
    BY <2>1, <2>2
<1>15. QED
  BY <1>1, <1>2, <1>3, <1>4, <1>5, <1>6, <1>7, <1>8, <1>9, <1>10, <1>11, <1>12,
     <1>13, <1>14
  DEF Next

\* With the setting on and no client added meanwhile, a client the polls disabled
\* is gone from the running core once everybody is done: through API failures,
\* rollbacks to a config that still has it, crashes of the core and of the panel.
THEOREM RemovedClientsGo ==
  ASSUME "flagged" \notin Actors, RestartOnDisable,
         InitFile # NoCfg => InitDb.users \subseteq InitFile.users
  PROVE  Spec => []DeletedClientsDropped
<1>1. Init => Published /\ Covering /\ RemovalKept
  <2>1. ASSUME Init PROVE Published /\ Covering /\ RemovalKept
    <3>1. /\ ~cur.alive /\ ~cand.alive /\ cur.cfg = NoCfg /\ cand.cfg = NoCfg /\ at = "idle"
          /\ \A a \in AllActors : pc[a] # "pushadd"
      BY <2>1 DEF Init, NoProc
    <3>2. \A c \in Configs : c # NoCfg => db.users \subseteq c.users
      BY <2>1, <3>1 DEF Init, Configs
    <3>3. QED
      BY <3>1, <3>2 DEF Published, Covering, RemovalKept
  <2>2. QED
    BY <2>1
<1>2. TypeInv /\ Published /\ Covering /\ RemovalKept /\ [Next]_vars
        => Published' /\ Covering' /\ RemovalKept'
  BY PublishedStep, CoveringStep, RemovalKeptStep
<1>3. Covering /\ RemovalKept => DeletedClientsDropped
  BY DEF Covering, RemovalKept, DeletedClientsDropped, Settled, OwedRemoval
<1>4. Spec => []TypeInv
  BY TypeInvariant
<1>5. QED
  BY <1>1, <1>2, <1>3, <1>4, PTL DEF Spec
=============================================================================
