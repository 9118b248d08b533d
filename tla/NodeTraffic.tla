---------------------------- MODULE NodeTraffic ----------------------------
(***************************************************************************)
(* Usage, quota and resets of one client that several nodes serve.         *)
(*                                                                         *)
(* Each node counts the client's bytes in a counter of its own and cuts    *)
(* the client off at its quota.  The master adds up what the nodes report  *)
(* through a baseline per node, adopts a node's verdict, and sends a reset *)
(* to the nodes through a persistent queue (node_pending_resets) that the  *)
(* caller of the reset and the sync job both drain.                        *)
(*                                                                         *)
(* Every reset, every merge and the master's own depletion check run on    *)
(* the serial writer, so each is one step here.  The client has no expiry  *)
(* date and no renewal period.  Live pushes of an edit are in NodeSync:    *)
(* here the reconcile delivers it.                                         *)
(***************************************************************************)
EXTENDS Naturals, FiniteSets

CONSTANTS
    Nodes,      \* nodes that host the client
    Quotas,     \* values of the client's total
    None,       \* no row
    Workloads   \* what may happen: see the assumption

\* The two counters of a client.
Dirs == {"up", "down"}

\* A delivery in progress: by whom, the stamp of the row it read, and whether the
\* node has applied it.
Call == [by : {"call", "job"}, at : Nat, applied : BOOLEAN]

\* The master's operations and how many, whether resets come one at a time,
\* whether calls to a node and merges may fail, in which directions a node carries
\* bytes and how many, and up to how many the master counts in a direction.
ASSUME NodeTrafficAssumption ==
    /\ Quotas \subseteq Nat
    /\ Quotas # {}
    /\ None \notin Nat \cup Call \cup [Dirs -> Nat]
    /\ \A w \in Workloads :
         /\ w.kinds \subseteq {"one", "all", "bulk", "email", "quota"}
         /\ w.serial \in BOOLEAN /\ w.callsFail \in BOOLEAN /\ w.ops \in Nat
         /\ w.dirs \subseteq Dirs /\ w.flow \in Nat /\ w.counts \in Nat

VARIABLES
    used,      \* client_traffics.up + down
    enable,    \* client_traffics.enable
    total,     \* client_traffics.total
    base,      \* node_client_traffics: the node's counters at its last merge
    owed,      \* node_pending_resets.queued_at
    dirty,     \* nodes.config_dirty
    dirtyAt,   \* nodes.config_dirty_at
    remote,    \* the node's own row of the client
    now,       \* deliverNodeResetsNow calls that have not reached the node's lock
    enabling,  \* bulk resets on their way to BulkSetEnable
    delivery,  \* DeliverNodeResets in progress, under the node's lock
    job,       \* the sync job's pass over the node
    clock,     \* bounds the operations and stamps them
    resetAt,   \* stamp of the last reset (history)
    queuedAt,  \* stamp of the last reset that queued (history)
    zeroed,    \* when the node last applied a reset (history)
    flowed,    \* bytes the node really carried, by direction (history)
    counted,   \* bytes the master added for the node, by direction (history)
    again,     \* those it added while the baseline stayed behind (history)
    workload   \* what happens in this behaviour

vars == <<used, enable, total, base, owed, dirty, dirtyAt, remote, now, enabling,
          delivery, job, clock, resetAt, queuedAt, zeroed, flowed, counted, again,
          workload>>

rest == <<clock, workload>>
master == <<used, enable, total, base>>
flags == <<dirty, dirtyAt>>
calls == <<now, enabling>>
bytes == <<flowed, counted, again>>
history == <<resetAt, queuedAt, zeroed, bytes>>

Idle == [pc |-> "idle"]

NoBytes == [d \in Dirs |-> 0]
Sum(c) == c["up"] + c["down"]

Init ==
    /\ workload \in Workloads
    /\ used = 0
    /\ enable = TRUE
    /\ total \in Quotas
    /\ base = [n \in Nodes |-> None]
    /\ owed = [n \in Nodes |-> None]
    /\ dirty = [n \in Nodes |-> FALSE]
    /\ dirtyAt = [n \in Nodes |-> 0]
    /\ remote = [n \in Nodes |-> [ctr |-> NoBytes, enable |-> TRUE, total |-> total]]
    /\ now = [n \in Nodes |-> 0]
    /\ enabling = 0
    /\ delivery = [n \in Nodes |-> None]
    /\ job = [n \in Nodes |-> Idle]
    /\ clock = 0
    /\ resetAt = 0
    /\ queuedAt = 0
    /\ zeroed = [n \in Nodes |-> 0]
    /\ flowed = [n \in Nodes |-> NoBytes]
    /\ counted = [n \in Nodes |-> NoBytes]
    /\ again = [n \in Nodes |-> NoBytes]

\* A master operation: bounded, and stamped later than every earlier one.
Op(kind) ==
    /\ kind \in workload.kinds
    /\ clock < workload.ops
    /\ clock' = clock + 1
    /\ UNCHANGED workload

\* The caller of a reset has not delivered to the node yet, or is doing so.
CallPending(n) ==
    now[n] > 0 \/ (delivery[n] # None /\ delivery[n].by = "call")

\* Where resets come one at a time, a reset begins when the last one's caller
\* has returned: it delivers before it does.
Returned == workload.serial => \A n \in Nodes : ~CallPending(n)

\* MarkNodeDirtyTx for the nodes in N.
MarkNodesDirty(N, stamp) ==
    /\ dirty' = [n \in Nodes |-> dirty[n] \/ n \in N]
    /\ dirtyAt' = [n \in Nodes |-> IF n \in N THEN stamp ELSE dirtyAt[n]]

----------------------------------------------------------------------------
(***************************************************************************)
(* The nodes (external panels running the same program).                   *)
(***************************************************************************)

\* A byte of an enabled client.
Carry(n, d) ==
    /\ remote[n].enable
    /\ d \in workload.dirs
    /\ Sum(flowed[n]) < workload.flow
    /\ remote' = [remote EXCEPT ![n].ctr[d] = @ + 1]
    /\ flowed' = [flowed EXCEPT ![n][d] = @ + 1]
    /\ UNCHANGED <<master, owed, flags, calls, delivery, job, rest, resetAt, queuedAt, zeroed,
                   counted, again>>

\* The node's own disableInvalidClients.
NodeDepletes(n) ==
    /\ remote[n].enable
    /\ Sum(remote[n].ctr) >= remote[n].total
    /\ remote' = [remote EXCEPT ![n].enable = FALSE]
    /\ UNCHANGED <<master, owed, flags, calls, delivery, job, rest, history>>

----------------------------------------------------------------------------
(***************************************************************************)
(* Operations of the master.                                               *)
(***************************************************************************)

\* The part every reset shares: the counters start again, the baselines go.
ZeroClient ==
    /\ used' = 0
    /\ enable' = TRUE
    /\ base' = [n \in Nodes |-> None]
    /\ resetAt' = clock'
    /\ UNCHANGED total

\* queueNodeResets: one row per node, re-stamped when it is there already.
QueueNodeResets ==
    /\ owed' = [n \in Nodes |-> clock']
    /\ queuedAt' = clock'

\* resetClientTrafficLocked for the client's inbound on node n: the node is
\* marked dirty and tried at once; the siblings are left to their own resets.
ResetClientTraffic(n) ==
    /\ Op("one")
    /\ Returned
    /\ ZeroClient
    /\ QueueNodeResets
    /\ MarkNodesDirty({n}, clock')
    /\ now' = [now EXCEPT ![n] = @ + 1]
    /\ UNCHANGED <<remote, enabling, delivery, job, zeroed, bytes>>

\* ResetAllClientTraffics and ResetAllTraffics: queued for every node and
\* delivered at once; no node is marked dirty.
ResetAllTraffics ==
    /\ Op("all")
    /\ Returned
    /\ ZeroClient
    /\ QueueNodeResets
    /\ now' = [n \in Nodes |-> now[n] + 1]
    /\ UNCHANGED <<flags, remote, enabling, delivery, job, zeroed, bytes>>

\* BulkResetTraffic: a client whose record was off goes through BulkSetEnable
\* after the commit and before the delivery.
BulkResetTraffic ==
    /\ Op("bulk")
    /\ Returned
    /\ ZeroClient
    /\ QueueNodeResets
    /\ IF enable
         THEN now' = [n \in Nodes |-> now[n] + 1] /\ UNCHANGED enabling
         ELSE enabling' = enabling + 1 /\ UNCHANGED now
    /\ UNCHANGED <<flags, remote, delivery, job, zeroed, bytes>>

\* BulkSetEnable marks the nodes dirty; then the bulk reset delivers.
BulkSetEnable ==
    /\ enabling > 0
    /\ enabling' = enabling - 1
    /\ enable' = TRUE
    /\ MarkNodesDirty(Nodes, clock)
    /\ now' = [n \in Nodes |-> now[n] + 1]
    /\ UNCHANGED <<used, total, base, owed, remote, delivery, job, rest, history>>

\* ResetClientTrafficByEmail (Telegram bot): nothing is queued, no node is
\* marked dirty.
ResetClientTrafficByEmail ==
    /\ Op("email")
    /\ ZeroClient
    /\ UNCHANGED <<owed, flags, remote, calls, delivery, job, queuedAt, zeroed, bytes>>

\* Update of the client with another quota and the switch on.
UpdateClient(q) ==
    /\ Op("quota")
    /\ q # total
    /\ total' = q
    /\ enable' = TRUE
    /\ MarkNodesDirty(Nodes, clock')
    /\ UNCHANGED <<used, base, owed, remote, calls, delivery, job, history>>

\* disableInvalidClients in the traffic tick of the master.
DisableInvalidClients ==
    /\ enable
    /\ used >= total
    /\ enable' = FALSE
    /\ MarkNodesDirty(Nodes, clock)
    /\ UNCHANGED <<used, total, base, owed, remote, calls, delivery, job, rest, history>>

----------------------------------------------------------------------------
(***************************************************************************)
(* DeliverNodeResets, under the node's lock: by the caller of a reset, or  *)
(* by the job's pass.                                                      *)
(***************************************************************************)

\* Nothing queued ends the call; otherwise the rows are read.
DeliverNow(n) ==
    /\ now[n] > 0
    /\ delivery[n] = None
    /\ now' = [now EXCEPT ![n] = @ - 1]
    /\ delivery' = IF owed[n] = None THEN delivery
                   ELSE [delivery EXCEPT ![n] = [by |-> "call", at |-> owed[n], applied |-> FALSE]]
    /\ UNCHANGED <<master, owed, flags, remote, enabling, job, rest, history>>

JobDeliver(n) ==
    /\ job[n].pc = "resets"
    /\ delivery[n] = None
    /\ IF owed[n] = None
         THEN job' = [job EXCEPT ![n].pc = "fetch"] /\ UNCHANGED delivery
         ELSE /\ job' = [job EXCEPT ![n].pc = "delivering"]
              /\ delivery' = [delivery EXCEPT ![n] = [by |-> "job", at |-> owed[n], applied |-> FALSE]]
    /\ UNCHANGED <<master, owed, flags, remote, calls, rest, history>>

\* The node's panel resets the client: counter at zero, switched on.
NodeApplies(n) ==
    /\ delivery[n] # None
    /\ ~delivery[n].applied
    /\ delivery' = [delivery EXCEPT ![n].applied = TRUE]
    /\ remote' = [remote EXCEPT ![n].ctr = NoBytes, ![n].enable = TRUE]
    /\ zeroed' = [zeroed EXCEPT ![n] = clock]
    /\ UNCHANGED <<master, owed, flags, calls, job, rest, resetAt, queuedAt, bytes>>

EndDelivery(n) ==
    /\ delivery' = [delivery EXCEPT ![n] = None]
    /\ job' = IF delivery[n].by = "job" THEN [job EXCEPT ![n].pc = "fetch"] ELSE job

\* Mutant: the row goes although the reset was queued again.
DeliveredAnyStamp(n) ==
    /\ delivery[n] # None
    /\ delivery[n].applied
    /\ owed' = [owed EXCEPT ![n] = None]
    /\ EndDelivery(n)
    /\ UNCHANGED <<master, flags, remote, calls, rest, history>>

\* Mutant: the row is never deleted.
DeliveredKeepsRow(n) ==
    /\ delivery[n] # None
    /\ delivery[n].applied
    /\ EndDelivery(n)
    /\ UNCHANGED <<master, owed, flags, remote, calls, rest, history>>

\* The row goes only if nothing queued the reset again since it was read.
Delivered(n) ==
    /\ delivery[n] # None
    /\ delivery[n].applied
    /\ owed' = IF owed[n] = delivery[n].at THEN [owed EXCEPT ![n] = None] ELSE owed
    /\ EndDelivery(n)
    /\ UNCHANGED <<master, flags, remote, calls, rest, history>>

\* The call fails, before the node applied the reset or after; the row stays.
DeliveryFails(n) ==
    /\ workload.callsFail
    /\ delivery[n] # None
    /\ EndDelivery(n)
    /\ UNCHANGED <<master, owed, flags, remote, calls, rest, history>>

----------------------------------------------------------------------------
(***************************************************************************)
(* The sync job: one Run loads every node row, the passes run in parallel, *)
(* the next Run waits for all of them.                                     *)
(***************************************************************************)

JobRun ==
    /\ \A n \in Nodes : job[n] = Idle
    /\ job' = [n \in Nodes |-> [pc |-> IF dirty[n] THEN "reconcile" ELSE "resets",
                                at |-> dirtyAt[n], pushed |-> FALSE]]
    /\ UNCHANGED <<master, owed, flags, remote, calls, delivery, rest, history>>

\* ReconcileNode pushes the client as the master has it, then ClearNodeDirty;
\* one step here, its races are NodeSync's.
Reconcile(n) ==
    /\ job[n].pc = "reconcile"
    /\ remote' = [remote EXCEPT ![n].enable = enable, ![n].total = total]
    /\ dirty' = [dirty EXCEPT ![n] = @ /\ dirtyAt[n] # job[n].at]
    /\ job' = [job EXCEPT ![n].pc = "resets", ![n].pushed = TRUE]
    /\ UNCHANGED <<master, owed, dirtyAt, calls, delivery, rest, history>>

ReconcileFails(n) ==
    /\ workload.callsFail
    /\ job[n].pc = "reconcile"
    /\ job' = [job EXCEPT ![n].pc = "resets"]
    /\ UNCHANGED <<master, owed, flags, remote, calls, delivery, rest, history>>

\* The snapshot, with the time of the reset its verdict follows (history).
FetchTrafficSnapshot(n) ==
    /\ job[n].pc = "fetch"
    /\ job' = [job EXCEPT ![n] = [pc |-> "merge", pushed |-> job[n].pushed,
                                  snap |-> remote[n], zeroed |-> zeroed[n]]]
    /\ UNCHANGED <<master, owed, flags, remote, calls, delivery, rest, history>>

FetchFails(n) ==
    /\ workload.callsFail
    /\ job[n].pc = "fetch"
    /\ job' = [job EXCEPT ![n] = Idle]
    /\ UNCHANGED <<master, owed, flags, remote, calls, delivery, rest, history>>

----------------------------------------------------------------------------
(***************************************************************************)
(* setRemoteTrafficLocked for the client.                                  *)
(***************************************************************************)

\* Mutant: the first report of a node counts in full.
DeltaSeeds(n, d) ==
    LET c == job[n].snap.ctr[d]
    IN  IF base[n] = None THEN c ELSE IF c > base[n][d] THEN c - base[n][d] ELSE 0

\* What the node carried since its last merge, in each direction: nothing for a
\* first report or a counter that went back.
Delta(n, d) ==
    LET c == job[n].snap.ctr[d]
    IN  IF base[n] # None /\ c > base[n][d] THEN c - base[n][d] ELSE 0

Added(n) == Delta(n, "up") + Delta(n, "down")

\* Mutant: config_dirty is not consulted.
FrozenNotDirty(n) == job[n].pushed \/ owed[n] # None

\* lifecycleFrozen, or the node still owes a reset: only usage may move.
Frozen(n) ==
    dirty[n] \/ job[n].pushed \/ owed[n] # None

\* nodeDisableIsStale: the node judged other limits, and by the master's the
\* client may go on.
DisableIsStale(n) ==
    /\ job[n].snap.total # total
    /\ used + Added(n) < total

\* Mutant: the node's verdict is adopted even while it owes a reset.
MergedEnableAdopts(n) ==
    enable /\ (job[n].snap.enable \/ DisableIsStale(n))

MergedEnable(n) ==
    IF Frozen(n) THEN enable ELSE enable /\ (job[n].snap.enable \/ DisableIsStale(n))

\* preserveMasterLifecycle keeps the master's quota with its verdict.
MergedTotal(n) ==
    IF Frozen(n) \/ (~job[n].snap.enable /\ enable /\ DisableIsStale(n))
      THEN total ELSE job[n].snap.total

\* A counter is behind the baseline: the node applied a reset, or lost its count.
Behind(n) == base[n] # None /\ \E d \in Dirs : job[n].snap.ctr[d] < base[n][d]

\* A frozen merge keeps the whole baseline when a counter went back, although it
\* added what the other one gained.
MergedBase(n) == IF Frozen(n) /\ Behind(n) THEN base[n] ELSE job[n].snap.ctr

\* liftClientLifecycleInSettings: the node's settings differ from the merged
\* row, so the node must get the row again.
Lifted(n) ==
    job[n].snap.enable # MergedEnable(n) \/ job[n].snap.total # MergedTotal(n)

Plus(f, n) == [f EXCEPT ![n] = [d \in Dirs |-> f[n][d] + Delta(n, d)]]

SetRemoteTraffic(n) ==
    /\ job[n].pc = "merge"
    /\ \A d \in Dirs : counted[n][d] + Delta(n, d) <= workload.counts
    /\ used' = used + Added(n)
    /\ enable' = MergedEnable(n)
    /\ total' = MergedTotal(n)
    /\ base' = [base EXCEPT ![n] = MergedBase(n)]
    /\ IF ~dirty[n] /\ Lifted(n) THEN MarkNodesDirty({n}, clock) ELSE UNCHANGED flags
    /\ job' = [job EXCEPT ![n] = Idle]
    /\ counted' = Plus(counted, n)
    /\ again' = IF Frozen(n) /\ Behind(n) THEN Plus(again, n) ELSE again
    /\ UNCHANGED <<owed, remote, calls, delivery, rest, resetAt, queuedAt, zeroed, flowed>>

\* The merge's transaction is rolled back.
MergeFails(n) ==
    /\ workload.callsFail
    /\ job[n].pc = "merge"
    /\ job' = [job EXCEPT ![n] = Idle]
    /\ UNCHANGED <<master, owed, flags, remote, calls, delivery, rest, history>>

----------------------------------------------------------------------------
NodeStep(n) ==
    \/ (\E d \in Dirs : Carry(n, d)) \/ NodeDepletes(n) \/ ResetClientTraffic(n)
    \/ DeliverNow(n) \/ JobDeliver(n) \/ NodeApplies(n) \/ Delivered(n) \/ DeliveryFails(n)
    \/ Reconcile(n) \/ ReconcileFails(n) \/ FetchTrafficSnapshot(n) \/ FetchFails(n)
    \/ SetRemoteTraffic(n) \/ MergeFails(n)

Next ==
    \/ \E n \in Nodes : NodeStep(n)
    \/ \E q \in Quotas : UpdateClient(q)
    \/ ResetAllTraffics \/ BulkResetTraffic \/ BulkSetEnable
    \/ ResetClientTrafficByEmail \/ DisableInvalidClients \/ JobRun

Spec == Init /\ [][Next]_vars

\* Every call returns (they have deadlines); a delivery or a reconcile tried
\* again and again succeeds in the end (the node is not offline for ever); the
\* job runs.
Fairness ==
    /\ WF_vars(JobRun)
    /\ WF_vars(BulkSetEnable)
    /\ \A n \in Nodes :
         /\ WF_vars(DeliverNow(n))
         /\ SF_vars(JobDeliver(n))
         /\ WF_vars(NodeApplies(n) \/ Delivered(n) \/ DeliveryFails(n))
         /\ SF_vars(NodeApplies(n))
         /\ SF_vars(Delivered(n))
         /\ WF_vars(Reconcile(n) \/ ReconcileFails(n))
         /\ SF_vars(Reconcile(n))
         /\ WF_vars(FetchTrafficSnapshot(n) \/ FetchFails(n))
         /\ WF_vars(SetRemoteTraffic(n) \/ MergeFails(n))

FairSpec == Spec /\ Fairness

----------------------------------------------------------------------------
(***************************************************************************)
(* Properties.                                                             *)
(***************************************************************************)

\* DeliverNodeResets, comment at node_reset_queue.go:88: "A row is dropped only
\* after the node accepted it and only if nothing re-queued it since."  So a
\* node that has not applied the last reset still has its row, whatever failed,
\* however the deliveries of two resets overlapped.
NoLostReset ==
    \A n \in Nodes : zeroed[n] < queuedAt => owed[n] # None

\* The baselines never let the master count a byte twice in a direction: a reset
\* on either side, a dropped baseline, a counter that goes back or a merge while
\* frozen may lose bytes of the node and add none, but in one case: a frozen merge
\* that finds one counter behind adds what the other gained and keeps the whole
\* baseline (inbound_node.go:1150), so that merge's bytes, and no others, are
\* counted once more.
NoByteCountedTwice ==
    \A n \in Nodes : \A d \in Dirs : counted[n][d] <= flowed[n][d] + again[n][d]

\* Single resets, one at a time, quota edits, and calls that succeed: what the
\* promise below needs (the README says what resetting all clients, a failing
\* call or overlapping resets do).
PromptResets ==
    workload.kinds \subseteq {"one", "quota"} /\ workload.serial /\ ~workload.callsFail

\* A merge may cut the client off only on a verdict the node reached after it
\* applied the last reset and on the master's own quota, or because the merged
\* usage exhausts the quota (comment at inbound_node.go:937: "Until the node
\* applies a reset it owes, its verdict rests on the pre-reset counters: only
\* usage may move for this client").
NoStaleDisable ==
    [][\A n \in Nodes :
         PromptResets /\ job[n].pc = "merge" /\ job'[n] = Idle /\ enable /\ ~enable'
           => \/ job[n].zeroed >= resetAt /\ job[n].snap.total = total
              \/ used' >= total]_vars

\* Only an operator changes the quota: a merge copies the node's total into the
\* master's row (inbound_node.go:1098), which must never undo an edit the node
\* has not seen.
QuotaNotReverted ==
    [][total' # total => clock' # clock]_vars

\* A reset that was queued reaches the node and leaves the queue.
ResetsArrive ==
    \A n \in Nodes : (owed[n] # None) ~> (owed[n] = None)
=============================================================================
