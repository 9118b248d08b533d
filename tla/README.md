# Verification of CatX-UI

CatX-UI is a web panel (Go, forked from 3x-ui) that manages an xray-core proxy:
it keeps inbounds, clients and their quotas in a database, builds the core's
configuration from it, runs the core as a child process, counts traffic,
disables clients that used up their quota, and does the same for remote nodes.
The TLA+ modules here model the parts where goroutines, requests, jobs, remote
panels and crashes meet. TLC checks them on small instances, TLAPS proves the
central invariants for every value of the constants.

## 1. The system

| Part | State | Operations | Talks to |
|---|---|---|---|
| Xray lifecycle (`service/xray.go`) | `xrayState`, `isNeedXrayRestart`, `isManuallyStopped`, one mutex | `RestartXray`, `StopXray`, `SetToNeedRestart`, `ApplyPendingRestart` | database, core process, its API |
| Core process (`xray/process.go`, `hot_diff.go`) | child process, `config.json` | `Start`, `Stop`, hot diff | the operating system |
| Fork recovery (`forkrecovery`) | a snapshot per restart | capture, validate, healthcheck, restore | `config.json`, the core binary |
| Jobs (`web/job`) | the watchdog's counter; locals | watchdog 1 s, pending restart 30 s, traffic polls 5 s, TUIC job | all of the above |
| Tunnel monitor (`tunnelmonitor`) | failures in a row, last recovery | probe, forced restart | lifecycle |
| Traffic writer (`traffic_writer.go`) | one bounded channel, context, `twMu` | start, stop with drain, submit, inline fallback | every writer of the traffic tables |
| Client service (`client_*.go`, `inbound_clients.go`) | settings JSON, `clients`, `client_inbounds`, `client_traffics` | create, update, rename, attach, detach, delete and their bulk forms | traffic writer, nodes, core API |
| Node sync (`node_traffic_sync_job.go`, `inbound_node.go`, `runtime/remote.go`) | dirty flag with a millisecond stamp, push fingerprints, adoption flag | reconcile, live push, fetch, merge | remote panels over HTTP |
| Node traffic (`inbound_node.go`, `node_reset_queue.go`) | baselines per node, queued resets, verdicts | merge, five kinds of reset, delivery | remote panels, traffic writer |
| Group quota (`forkext/groupquota`) | carry, membership rows with baselines and ownership | charge, enforce, recover, preserve, move, rename | traffic tick, client service |
| TUIC (`internal/tuic`, `tuic_job.go`, `tuic_journal.go`) | listeners, user registries, counters, pending traffic, journal files, receipts | ensure, replace users, collect, journal, replay, stop | the job, traffic writer, shutdown |
| Event bus, WebSocket hub | bounded queues, subscribers, connections | publish, subscribe, broadcast, stop | notifiers, browsers |
| MTProto and AmneziaWG managers, subscription server, analytics, bots, policy compiler, migrations, frontend, scripts | derived or presentational, or around external programs | | |

What is hard here:

* **Decisions taken outside a lock**: who restarts the core, which settings an
  edit started from, which instances a job read, which snapshot a merge applies.
* **Many steps, each of which can fail**: a restart and its own rollback, a fan-out
  over inbounds, a push with a lost answer, a journal written while stopping.
* **Two copies of the truth**: `process.config` and the core, master and node,
  settings JSON and tables, a group's carry and its members' counters.
* **Ends**: drains, shutdowns, crashes between a commit and what follows it.

## 2. Modules

| Module | Models | Proofs |
|---|---|---|
| `XrayLifecycle` | restarts, rollback, stops, the flags and all callers | `XrayLifecycleProofs` |
| `TrafficWrites` | abstract: what `submitTrafficWrite` promises | |
| `TrafficWriter` | the writer goroutine, start and stop, submitters | `BackgroundProofs` |
| `EventBus` | the in-process event bus | `BackgroundProofs` |
| `WebSocketHub` | hub, read and write pumps | `BackgroundProofs` |
| `TunnelMonitor` | probe, threshold, cooldown, recovery | `BackgroundProofs` |
| `NodeSync` | dirty flag, reconcile, live pushes, merge | `NodeSyncProofs` |
| `NodeTraffic` | usage, verdicts, quota and resets across nodes | `NodeTrafficProofs` |
| `GroupQuota` | shared quotas of client groups | `GroupQuotaProofs` |
| `ClientStore` | where a client is written, and every operation that writes it | `ClientStoreProofs` |
| `TuicTraffic` | TUIC sessions, users, manager, job, journal, shutdown | `TuicTrafficProofs` |

Each has an `MC` module with the constants TLC uses. Several models take a
CONSTANT `Workloads` (`Setups` in `NodeSync`): a set of records of bounds and of
the operations allowed, one of which Init chooses. One run thus explores several
mixes of trouble to a useful depth each, instead of all of them to a useless one.
`PROJECT.json` maps every definition to the lines it stands for.

`SumTheorems` holds the lemmas about sums over finite sets that `GroupQuotaProofs`
and `TuicTrafficProofs` share. `BackgroundProofs` holds the proofs of the four
background services, which share no state: it extends all four modules, and the
names of `EventBus`, `WebSocketHub` and `TunnelMonitor` that would clash carry a
prefix for that (`BusSpec`, `HubSpec`, `MonitorSpec`).

**XrayLifecycle.** A configuration is `users` (what the API can change) and
`base` (what needs a new process); a `base` may be in `Refused`, `Invalid` or
`Unhealthy`, so that it fails at a chosen stage. A process has `cfg`, what the
panel believes it runs, and `eff`, what the core serves. `RestartXray` is one
action per point at which the rest of the program can interleave:

    EnterRestartXray -> GetXrayConfig -> Decide -> CaptureXraySnapshot
      -> ValidateXrayCandidate -> TryHotApply
           -> HotHealthcheck                         (applied over the API)
           -> StopCurrent -> StartCandidate -> HealthcheckCandidate
      failure: RestoreStop -> RestoreStart -> RestoreHealthcheck

`at` is the program counter, `holder` the owner of the mutex. `Return` is the end
of `RestartXray` with what its caller does next. The callers (`Actors`) are
start-up, operator, stopper, pending-restart job, watchdog, flagged and direct
edits, the template editor, the local and the node poll, the tunnel monitor and
a crash of the panel. `stuck` records a `Stop` that returned with its process
alive; `StopProcess` is the finalizer of a process nothing refers to.

**TrafficWriter.** A *generation* is one run of the goroutine with its channel;
`twMu` is a variable because a sender keeps it while the channel is full.
`TrafficWrites` is the promise: apply once, before the result is reported and
never again, or refuse and never apply. `KeepsPromise` is its specification under
`st <- Place`, `count <- runs`, `outcome <- outcome`; `count` is how often the
write was really applied, so an application too many or too late is no stutter.

**EventBus, WebSocketHub, TunnelMonitor.** One action per channel operation of
each goroutine. A subscriber object is made by each `Subscribe`, so that a
replaced one lives beside its successor. The hub's loop may panic and be
restarted. The monitor counts time in ticks and a recovery takes some of them.

**NodeSync.** An inbound is the three parts different operations write: stream
value, enable switch, clients. Edits commit and mark the node dirty; the job
goes load, reconcile (list, push each, sweep), clear by stamp, fetch, sample,
merge; live pushes run beside it and are applied and answered separately. A
deletion of the sweep succeeds, fails, or is skipped and reported as done because
the tag's id could not be looked up; `missed` (history) has the tags skipped so.

**NodeTraffic.** One client on several nodes: counters (up and down) and verdicts
at the node, baselines and the reset queue at the master. Resets, merges and the
depletion check run on the serial writer and are one step each. `again` (history)
is what a merge counted while it left the baseline behind.

**GroupQuota.** `db` is the database, every step a transaction on it, tick and
maintenance two of them. `ClientService.Update` is `UpdateClient` (what it reads),
`UpdateShares` (the inbounds' transactions, which name the new group already),
`UpdateGroup` (the membership), `UpdateEnds`, and may stop after each
(`UpdateFails`). `consumed`, `reason` and `apart` are history: what the members
carried since the group's reset, why a client is off, and which groups saw a
counter move under the row of a client that is in another group.

**ClientStore.** A request fans out over inbounds: `ApplyRead` under the
inbound's lock, then `ApplyCommit`, a transaction merged onto what the settings
hold by then (`Rebase`), then `Finish`. The tick and the inbound editor write
without the lock. `Committed`, `SyncClients`, `MergeRecords` and the `Stat`
operators are the transaction bodies.

**TuicTraffic.** Bytes sit in a user object's counter, in `pending`, in the hands
of a run of the job (`run`) or of the shutdown (`stop`), or in a journal file.
`Ensure` is what `Ensure`, `Remove` and `Reconcile` come to for one inbound.
`UpdateUsers` (`SetUsers`, `CloseUserConns`) and `CollectTrafficDeltas`
(`Collect`, `CollectEnds`) are two steps each, because sessions run on between.

## 3. Runs

All runs are exhaustive. Numbers are distinct states.

| Run | Checks | Size |
|---|---|---|
| `xray_rollback` | `SingleCore`, `StoppedStaysStopped`, `KnownGood`, `NoLostEdit`, `Converges` (liveness) | 311 000 |
| `xray_clients` | `DeletedClientsDropped` | 1 716 000 |
| `traffic_writer` | `StoppedIsDrained`, `KeepsPromise` (refinement), `StopReturns` (liveness) | 209 000 |
| `event_bus` | `InPublicationOrder`, `StoppedIsQuiet`, `NeverStalls`, `BusStopReturns` (liveness) | 41 000 |
| `ws_hub` | `RegisteredIsOpen`, `UnregisterIsLast`, `StragglersEvicted`, `StopClosesRegistered` (liveness) | 76 000 |
| `tunnel_monitor` | `CompletedSpaced` (action), `DownIsRecovered` (liveness) | 244 |
| `node_sync` | `CleanIsPushed`, `UnmanagedLeftAlone`, `NoRevert` (action) | 1 702 000 |
| `node_sync_converges` | `Converges` (liveness) | 57 000 |
| `node_traffic` | `NoLostReset`, `NoByteCountedTwice`, `QuotaNotReverted`, `NoStaleDisable` (action), `ResetsArrive` (liveness) | 236 000 |
| `group_quota` | `ChargedOnce`, `ReleasedByReset`, `RevivesOnlyOwn`, `EnforcedAfterTick` (action) | 448 000 |
| `client_store` | `Membership`, `Agreement`, `TickSurvives`, `OthersUntouched` (action) | 902 000 |
| `tuic_traffic` | `Conserved`, `RevokedIsCut`, `OrderlyStop` (action), `Settles` (liveness) | 389 000 |

**Bounds.** *xray*: two working bases and one bad one are what a rollback needs;
two or three edits and commands allow an edit, its reversal and a stop around
one restart; two faults let the candidate *and* the rollback fail. *Writer*:
three submitters and a channel of one, so that one write is applied, one queued
and one blocked with the mutex held; two generations. *Bus and hub*: queues of
one or two fill; two subscriber objects replace each other; two panics leave one
attempt. *Monitor*: cooldown longer than the threshold, restart shorter and
longer than what remains. *Node sync*: one to three edits, two tags (one outside
the selection), a restart; a node in step, one whose inbound the master deleted,
one that joins with rows the master lacks. *Node traffic*: every operation
with failing calls and one byte (`Everything`); verdicts after resets and quota
edits, three bytes (`Verdicts`); both directions through one reset whose delivery
fails, so that one counter is behind its baseline and the other ahead (`Dips`);
one node (the proofs allow any number, and two nodes are where `NoStaleDisable`
needs resets one at a time, below). *Group quota*: two interchangeable clients;
moves between two groups (`Moves`), edits interrupted anywhere (`Edits`),
ownership in one group through five operations (`Owners`), renewals and renames
in the tick (`Renewals`). *Client store*: two inbounds, two e-mails, two
requests, three operations. *TUIC*: one connection and five user objects, enough
for every replacement two edits and a restart can make; two bytes, so that one is
counted while the other is on its way.

CHECK_DEADLOCK is off where the bounded operations run out and the modelled
goroutines then really wait; `xray_rollback`, `xray_clients` and `tuic_traffic`
keep it on.

**Fairness.** Cron keeps calling its jobs, a call returns because it has a
timeout, goroutines run: weak fairness. The Go mutex hands itself to a starved
waiter: strong fairness of entering (`RestartXray`, the writer's second lock).
`node_sync_converges` and `node_traffic` need strong fairness of the calls to a
node: it is not unreachable for ever, and a call retried for ever succeeds
sometimes. The hub's `Broadcast` is fair because the status job broadcasts every
two seconds; event handlers are fair only in `BusStopReturns` (`HandlersReturn`).
Edits, operators, faults, panics and crashes are never fair.

**What the properties say.** `SingleCore`: never two cores; `StoppedStaysStopped`:
a manual stop holds; `KnownGood`: a rollback target was tested; `NoLostEdit`: an
edit is applied, pending or reported; `Converges`: the core ends up on the desired
config. `DeletedClientsDropped`: a disabled client leaves the core.
`StoppedIsDrained`, `KeepsPromise`, `StopReturns`: the writer.
`InPublicationOrder`, `StoppedIsQuiet`, `NeverStalls`, `BusStopReturns`: the bus.
`RegisteredIsOpen`, `UnregisterIsLast`, `StragglersEvicted`,
`StopClosesRegistered`: the hub. `CompletedSpaced`, `DownIsRecovered`: the monitor.
`NoRevert`: a merge never takes back an edit; `CleanIsPushed`: a clean node has
the master's rows; `UnmanagedLeftAlone`: inbounds outside the selection are not
touched; `Converges`: master and node end up agreeing. `NoLostReset`,
`NoByteCountedTwice`, `QuotaNotReverted`, `NoStaleDisable`, `ResetsArrive`: node
traffic. `ChargedOnce`, `ReleasedByReset`, `RevivesOnlyOwn`, `EnforcedAfterTick`:
group quota (`EnforcedAfterTick` is about the traffic row, the one the quota
reads). `Membership`, `Agreement`, `TickSurvives`, `OthersUntouched`: the
four places a client is written in agree, and an edit neither undoes a tick that
came after its read nor touches other clients. `Conserved`, `RevokedIsCut`, `OrderlyStop`, `Settles`: TUIC.

Where a property is conditioned (`Orderly`, `PromptResets`, `OwnershipExact`,
`Careful`, `Undisturbed`, the kinds named in `ChargedOnce`, `stray`), the
condition names the operations under which the code does something else; the
next section says what. Widening the condition and running TLC shows it.
Four properties are exact about a flaw instead of excluding the operations that
lead to it: a history variable records when it happens (`missed`, `again` of
`NodeTraffic`, `apart`, `again` of `TuicTraffic`), and the property holds but for
that.

Two of them are longer. `Careful` (for `Membership`, `OthersUntouched`): any
number of requests at a time that neither delete nor rename a client; or one
request at a time, and then no failed transaction and no crash if there are bulk
deletes or renames, since both purge or move rows in a transaction of their own.
The tick, the inbound editor and deletions of inbounds are not restricted.
`Undisturbed` (for `Agreement`): one request at a time, or any number of
attachments, detachments and one-field edits on a single inbound; no failure or
crash, no usage that makes the tick switch a client off, no inbound editor, no
inbound deleted, no deleted client created again. Each exclusion is a way in
which the code leaves two of the four places different: two fan-outs over several
inbounds commit in different orders; a failed share leaves the others done; the
tick or the editor writes one place between the transactions of an edit; an
enable refused on a deleted inbound has changed the traffic row already; a client
created again keeps its old limit in that row.

### Where the code and its comments or intentions disagree

*Xray lifecycle.* A client is added over the API, its removal over the API fails
and the flag is set: the 30 s job clears the flag and calls `RestartXray(false)`,
which finds the configs equal and returns; the deleted client stays
(`xray.go:1778`). The held-back reason is not cleared when a refused edit is
taken back (`xray.go:1444`). The forced restarts of the node poll and of the
tunnel monitor revive a core the operator stopped (`node_traffic_sync_job.go:144`).
A template saved while a restart has the core down is skipped
(`xray_setting.go:158`). A client pushed into a core about to be replaced is lost
until the next change (`xray.go:1435`). With no earlier `config.json`, a failed
candidate's file is the known-good one of the next attempt (`recovery.go:117`).
A process that outlives its SIGKILL wait runs beside its successor
(`xray.go:1511`).

*Writer, bus, hub, monitor.* After cancellation callers apply inline beside the
draining writer (`traffic_writer.go:170`); node pushes of the group quota run on
the writer (`inbound_node.go:1403`) against the comment at `traffic_writer.go:125`.
Subscribing again runs old and new handler side by side (`bus.go:66`), against
"a subscriber never runs concurrently with itself" (`bus.go:139`). A stop leaves
connections open whose register is queued, or all of them during the backoff
(`hub.go:134`, `hub.go:155`). A failed recovery arms no cooldown (`monitor.go:191`).

*Node sync.* Two edits in one millisecond share a stamp (`node.go:1063`). A push
whose answer is lost keeps the old fingerprint (`remote.go:496`), a live client
push may advance it past an older full push (`remote.go:549`); both heal with the
next difference, and `Converges` covers them. The enable switch commits outside
the serial writer and a merge can take it back (`inbound.go:1693`). The
onboarding flag is sampled twice (`node_traffic_sync_job.go:434`). A delayed
delete push can hit an inbound added again, after the job cleared the flag. An
inbound deleted before the node's inbounds were adopted is not swept from the
node, and the next merge imports it again; an empty snapshot keeps it. A disabled
inbound added under a tag the node already has marks nothing dirty
(`inbound.go:1386`), and the merge overwrites it. `Orderly` excludes these three.
`Remote.DelInbound` answers nil when it cannot look up the tag's id, be it only
because the list call failed (`remote.go:443`), so the sweep takes the inbound for
deleted, the flag is cleared, and the next clean merge imports it again, although
`ReconcileNode` reports every other failed deletion (`inbound_node.go:200`).
`CleanIsPushed` and `NoRevert` except those tags (`missed`).

*Node traffic.* Resetting all clients does not mark nodes dirty
(`client_traffic.go:214`) and `ResetClientTrafficByEmail` queues no reset
(`inbound_traffic.go:712`), so a verdict from before the reset can be adopted;
with failing calls single resets too. So do resets that overlap: resetting the
client through an inbound of node A queues B's row again but marks only A dirty
(`inbound_traffic.go:733`); a caller of an earlier reset of B that is still
delivering takes that row with it, while B's pass holds a snapshot from before,
and the merge finds neither row nor flag. In a workload with `serial` a reset
begins when the last one's caller has returned, and `PromptResets` asks for it.
A frozen merge adds what each direction gained, but keeps the whole baseline when
either went back (`inbound_node.go:1150`): with up below its baseline and down
above, every merge until the freeze ends counts the same bytes of down again
(`again`).

*Group quota.* A renewal zeroes a counter without preserving it
(`inbound_traffic.go:519`); a rename takes two transactions (`client_groups.go:430`);
a quota row made after the counters charges nothing before it
(`groupquota.go:575`); an update clears the ownership it has just set
(`client_crud.go:841`); a reset revives a client that expired while it was off
(`inbound_disable.go:86`). A client moved out of a depleted group stays off.
An update writes the new group's name with the shares and moves the membership in
a later transaction (`client_crud.go:827`): a tick in between charges both groups,
and when a share fails the membership never moves, so both go on being charged
(`apart`). A bulk enable that the quota refuses is reported as skipped and leaves
the traffic row off, but has switched on the settings, the record and the core
(`client_bulk.go:1597`).

*Client store.* The late statements of an update race the tick
(`client_crud.go:855`); a client created again keeps its old limit in the traffic
row (`client_crud.go:201`); a rename races an inbound save
(`client_inbound_apply.go:992`); two creates on different inbounds can use one
subId (`client_crud.go:197`); `DeleteOrphans` deletes what was attached since it
looked (`client_portable.go:278`); a delete racing an attach leaves an entry
without a record; a crash between purge and commit of a bulk delete leaves a
client without a traffic row (`client_bulk.go:1158`); a bulk adjustment races the
tick. An edit of one field (a limit, a comment) brings a copy of the whole entry
taken before the inbound's lock (`client_inbound_apply.go:1408`): a tick between
the copy and the share's read is undone, against "a traffic tick after the op's
read must survive" (`inbound_settings_commit.go:13`) if the copy is the op's read.

*TUIC.* `CollectTrafficDeltas` swaps a revoked user's counter and only then reads
its session count (`auth.go:132`): bytes counted in between, by a session that
ends in between, are forgotten with the object (`slipped`). The first run of the
job is not waited for by the shutdown (`web.go:361`, against "Call it after
scheduled jobs have stopped", `tuic_job.go:72`), and an edit from a bot can start
a listener after `StopAll` (`stray`). The job gives its bytes back on any error
of `AddTraffic` (`tuic_job.go:51`), which has no receipt: after a lost answer of
its first commit, or a panic behind it that `safeApply` turns into an error, they
are counted twice (`again`).

## 4. Proofs

TLAPS proves, for every value of the constants that satisfies the named
assumption of the module (TLC evaluates it in every run):

| Theorem | Statement | Inductive invariant |
|---|---|---|
| `XrayLifecycleProofs!TypeCorrect` | `[]TypeOK`: types, and the mutex is held by exactly the caller inside `RestartXray` | `TypeInv` |
| `OneCore` | `[]SingleCore` | `TypeInv /\ Cores` |
| `StopIsFinal` | without `nodesync` and `tunnel`: `[]StoppedStaysStopped` | `TypeInv /\ Cores /\ StopGate` |
| `RollbackIsKnownGood` | with a first `config.json` and no panel crash: `[]KnownGood` | `TypeInv /\ Known` |
| `AcceptedWritesAnswered`, `StopDrains` | `[]AcceptedIsAnswered`, `[]StoppedIsDrained` | `WriterInv` |
| `WriterImplementsPromise` | the writer's steps are steps of `TrafficWrites` or stutter | `WriterInv /\ Once` |
| `BusTypeCorrect` | `[]TypeOK` of `EventBus`: no queue past its size | `TypeOK` |
| `PublicationOrder`, `StopIsQuiet` | `[]InPublicationOrder`, `[]StoppedIsQuiet` | `OrderInv`, `QuietInv` |
| `NoSendOnClosed`, `UnregisterIsFinal` | `[]RegisteredIsOpen`, `[]UnregisterIsLast` | `HubInv` |
| `CooldownHolds` | `CompletedSpaced`, an action property | `MonitorInv` |
| `ResetsAreKept`, `BytesCountedOnce` | `[]NoLostReset`, `[]NoByteCountedTwice` | `Inv` |
| `QuotaKept` | `QuotaNotReverted`, an action property | `Inv` |
| `VerdictsAreCurrent` | `NoStaleDisable`, an action property | `FreshInv` |
| `RevocationCuts` | `[]RevokedIsCut` | `SessionInv` |
| `BytesConserved` | `[]Conserved` | `Accounts` |
| `StopLosesNothing` | `OrderlyStop`, an action property | `Accounts /\ Quiet` |
| `EditsAreKept` | without `template`: `[]NoLostEdit` | `TypeInv /\ Published /\ EditKept` |
| `RemovedClientsGo` | with `RestartOnDisable`, without `flagged`, first `config.json` (if any) naming the first users: `[]DeletedClientsDropped` | `TypeInv /\ Published /\ Covering /\ RemovalKept` |
| `OnlyManagedTouched` | `[]UnmanagedLeftAlone` | `NodeSyncProofs!Inv` |
| `CleanNodeHoldsRows` | `[]CleanIsPushed` | `NodeSyncProofs!Inv` |
| `MergeNeverReverts` | `NoRevert`, an action property | `NodeSyncProofs!Inv` |
| `ChargedExactlyOnce` | `[]ChargedOnce` | `GroupQuotaProofs!Inv` |
| `GroupDisablesAreMarked` | `[]ReleasedByReset` | `GroupQuotaProofs!Inv` |
| `RecoveryTouchesOwnOnly`, `TickEnforces` | `RevivesOnlyOwn`, `EnforcedAfterTick`, action properties | `GroupQuotaProofs!Inv` |
| `EditsKeepTheTick` | `TickSurvives`, an action property | `LockInv` |
| `ClientsAreWhereLinked` | `[]Membership` | `LockInv /\ MemInv` |
| `CommitsAreLocal` | `OthersUntouched`, an action property | `LockInv /\ MemInv` |
| `OneIdentity` | `[]Agreement` | `LockInv /\ MemInv /\ AgreeInv` |

The hypotheses are the code's own exceptions, not conveniences; TLC finds a
counterexample without each. The template editor drops its restart when it finds
the core down (`xray_setting.go:158`). A client added over the API by a delayed
push can land after its removal and the restart (`flagged`). With the setting off
the node poll flags no restart for a push that failed. Polls and edits of the
tunnel and the operator are all allowed.

*Lifecycle.* `TypeOK` is not inductive: the restart steps index `pc` by `holder`
and read fields of `cfg`; `Shape` ties `at`, `holder`, `pc` and `cfg` together.
`Cores` says for each step which of `cur` and `cand` may be alive. `StopGate`:
after a stop the manual flag is set and nobody who passed the gate is inside.
`Known`: where the tested configuration is at each step.

An edit is `Owed` to the core by the flag or by an actor about to raise it or
waiting to restart. `EditKept`: it is owed whenever the core serves another base
and nobody is in `RestartXray`, and whenever a restart under way has built an
older configuration; `Published`: what passes a healthcheck is what was built.
A removed client needs more, since what the core serves is not what the panel
believes: `Covering` says that no core serves more than its configuration names
and that every configuration the panel holds (the snapshot's and the file
included, since a rollback publishes them) still names the clients that are left;
`RemovalKept` is `EditKept` for clients.

*Writer.* `Goroutines`: which generations exist, run, drain or are gone;
`Waiting`: a blocked sender holds the mutex and its generation is not cancelled;
`Accepted`: who waits is queued, being applied or answered; `Told`: nobody was
told "stopped". Sending and cancelling happen under one mutex, so the drain
misses nothing. `Once` adds that a write is in one place, once, applied exactly
when answered, and in no place once refused or reported, which makes each step a
step of `TrafficWrites` with its count of applications.

*Bus.* `OrderInv`: what a worker handled, its queue and the channel are, in that
order, ascending. *Hub.* `HubInv`: which operations of a connection can still be
in the channel given how far its two goroutines are; an unregister comes after
its register. *Monitor.* `MonitorInv` relates the age of the last recovery, as
the code measures it from before the restart, to the real spacing.

*Node sync.* `CleanIsPushed` speaks of the flag when it is down; what makes that
hold is what is true while the job works. `SyncInv`, for the edits `Orderly`
names: `Stamps` (during a reconcile the flag is up and the stamp it loaded is at
most the row's; while they are equal, `Current`, no edit came between), `ReadRows`
and `Progress` (the rows it read are then still the master's, and the node holds
those it has finished), `Fingerprints` (a recorded fingerprint is the payload the
node holds, so a skipped push is right), `Deletions` (a deleted inbound stays
deleted, and only its own delete is in flight), `CleanInStep` (with the flag down,
or about to be cleared by a current pass, the node is in step), `Snapshot` and
`Merging` (a snapshot that will be merged as clean shows the node as it still is,
but for a deletion that slipped in); all of it for the tags not in `missed`
(`Kept`). `Managed` is the part that needs no condition: every tag in the master's
rows, in a push and in the hands of the job is selected.

*Node traffic.* `ResetInv`: every queued row carries the last stamp, and an
applied delivery happened after the reset it read; so a row that goes because
its stamp is the delivered one was applied. `ByteInv`, for each direction: counted
plus what may still be added, from baseline to counter, from baseline to a
snapshot under way and from there to the counter, is covered by what flowed and
`again`. `QuotaInv`: a clean
node, and a snapshot of one not taken right after a push, has the master's quota.
`FreshInv`: a pass on a clean node whose row is gone, or which a caller may still
take away, has read counters from after the last reset.

*TUIC.* `SessionInv`: the user of a session is never free for reuse, and outside
`UpdateUsers` an open session's user is current; registration and revocation
exclude each other through the registry's lock. `Accounts` is `Conserved` with
what keeps it: `Amounts` (every place holds a natural number, and a function with
finite domain), `Files` (the name of a batch not yet written is neither a file
nor a receipt, so a write destroys nothing and a receipt covers one batch),
`Hands` (a file is removed only after its receipt is in the database). `Quiet`:
nothing runs in a panel that is down; after `StopAll` had the manager to itself
nothing is served and no run is under way.

*Sums.* The sums of `Conserved` and of `ChargedOnce` are the community modules'
folds. That they change by what one step changes at one index (`SumStep`,
`SumRemove`, `SumSplit`, ...) is proved in `SumTheorems` from the fold's
definition by taking a smallest set for which it fails (`LeastSet`), since the
library's induction rules are not available to these provers.

*Group quota.* `ChargedOnce` equates what the code computes, a carry plus each
member's counter above its baseline, with what was carried. `Charges` is that
equation for every group with a quota outside `apart`, with baselines never above
counters, for workloads without renewals, quota edits and renames; a group enters
`apart` when the counter of a client in another group moves under its row, and
until then the row it kept changes neither side of the equation. `OwnedMembers`: a mark is
only on a member. `Owners`: without the operations `OwnershipExact` excludes, no
client is expired, and one that is off is marked by a group exactly when a group
switched it off. The operations are compositions of a few steps (enforce, recover,
preserve, move), so each step has one lemma on the charges and one on the marks
(`Follows`, `Tracks`: how enables and marks may differ between the database
before and after), and an action's proof composes them. `TickEnforces` needs only
the types: what enforcing leaves depleted, it has switched off.

*Client store.* Three invariants, each on top of the one before. `LockInv` needs
no condition: one request at most is between read and commit on an inbound, the
names in its settings are still the ones it read (the tick changes enables only,
the editor keeps the stored clients), and an enable in its list that
differs from what it read is the one the request brings for that client (`Brings`).
`TickSurvives` follows, since the merge takes the list's enable only where it
differs from what was read. `MemInv`, under `Careful`: with no request running, the
settings of an inbound name exactly the clients linked to it, and each has a
traffic row (`Linked`, `Counted`); during a request that neither deletes nor
renames, still so; during a deletion (`ErasingOk`) every client asked for is gone,
failed, or its share is to come; during a rename (`RenamingOk`) the inbounds whose
share is to come have the old name and the others the new one with the new
credentials. `ShareOk` says which names a share is about to write. `AgreeInv`,
under `Undisturbed`: settings, records and traffic rows agree entry by entry but
for the fields a running request edits, and those have the new value wherever its
share is done (`AddsOk`, `EditsOk`, `UpdatesOk`); of requests side by side on the
one inbound (`SharedOk`) every commit leaves all agreeing. `Unique`: no two
clients have the same credentials.

Only model-checked: the liveness properties (`Converges` of both models,
`StopReturns`, `BusStopReturns`, `NeverStalls`, `StragglersEvicted`,
`StopClosesRegistered`, `DownIsRecovered`, `ResetsArrive`, `Settles` and the
fairness part of `KeepsPromise`), since liveness under fairness is out of this
prover's reach. Every safety property of every run is a theorem.

## 5. Abstractions and limits

* A database transaction is one step; its error is an error of the step.
* *Lifecycle*: a push concerns one client; a batch is several. JSON assembly of
  the config, the JSON comparison of the hot diff and the online-client trees are
  data. A SIGHUP restarts the web server only. `KnownGood` is not claimed across
  a panel crash.
* *Monitor*: the cancellation of `Run` is left out.
* *Node sync*: tag aliases and prefixes, tombstones, a changing address or
  selection, IP synchronisation and online trees are left out.
* *Node traffic*: one client; expiry, renewal and inbound counters are left out.
* *Group quota*: multipliers, the split of up and down and display baselines are
  left out; `enable` is the traffic row's, the one the quota reads and writes (the
  record and the settings are in `ClientStore`); the shares of an update write the
  same and are one step, which a failure may follow; one update at a time.
* *Client store*: the inbounds of a bulk operation are the same for its clients;
  duplicate entries collapse; wire order, `updated_at`, runtime calls, tunnel
  addresses, ports, devices and groups are left out; subId and credentials are
  one value; the last statements of an update are one step, and an error of one of
  them, or of the lookup of a bulk adjustment, is what a crash there is. The copy
  and the import of clients, the deletion of depleted ones and an inbound save
  that a master's sync brings with its clients (`inbound.go:1856`) are left out.
* *TUIC*: one inbound with one client; up and down are one counter. Damaged
  journal files, a machine that loses what was synced, the deletion of a client
  whose bytes are on their way (they are dropped by name) and traffic-policy
  deltas are left out. An error of `AddTraffic` comes before or after its first
  commit, whatever the cause. The three attempts of the shutdown's replay are any number.

### Not modelled

* Subscription links and documents, link formatting, bots, Discord, e-mail,
  analytics, frontend, scripts, releases: formatting, I/O and presentation, a
  translation of rows to text without state of their own. They and the following
  two items are most of the repository's lines, so the share of lines the map
  covers stays low although the stateful core is modelled.
* Migrations and the schema (`database/`): one-off rewrites of data, at start-up,
  alone; settings and configuration: getters and setters.
* Policy compiler and simulator: pure functions between documents.
* MTProto and AmneziaWG managers: the pattern of the TUIC manager around external
  programs and kernel interfaces.
* Traffic control, fleet update, audit, risk, portal: reports and wrappers of
  external tools.
* Of the web server: routing, TLS, sessions.

## 6. Plan

What further work would add most:

1. Composition: `ClientStore` with `NodeSync`'s pushes, `GroupQuota` with
   `NodeTraffic`'s merge.
2. `HotDiff` as a pure algorithm against a reference: the diff applied to the old
   config gives the new one, removals first.
3. `Agreement` under wider conditions: what it becomes with a failing share or a
   tick between the transactions, namely which of the four places may lag.
