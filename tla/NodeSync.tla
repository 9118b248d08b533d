------------------------------ MODULE NodeSync ------------------------------
(***************************************************************************)
(* One managed node and the master's copy of its inbounds.                 *)
(*                                                                         *)
(* The master stores the node's inbounds (central), marks the node dirty   *)
(* in the transaction of every edit, and the sync job reconciles a dirty   *)
(* node (pushes its rows, sweeps the tags it does not want), then pulls a  *)
(* snapshot and, when the node is clean, adopts what the node reports.     *)
(* Edits of clients and of the enable switch are also pushed live, outside *)
(* every lock the job takes, so they meet the job at the node.             *)
(*                                                                         *)
(* An inbound is its stream value, its enable switch and its clients: the  *)
(* three parts of the row that different operations write.  Nobody edits   *)
(* the node itself here, so whatever the master adopts it once pushed.     *)
(***************************************************************************)
EXTENDS Naturals, FiniteSets

CONSTANTS
    Tags,        \* inbound tags
    Clients,     \* client e-mails
    Vals,        \* values of the fields UpdateInbound writes
    None,        \* no row
    Setups       \* the situations a behaviour may begin in

\* sameStamp: two edits fall in one millisecond; lostAnswer: the node applied
\* a push whose answer the master never got.
FaultKinds == {"sameStamp", "lostAnswer"}

\* The master's operations.
EditKinds == {"update", "add", "bulk", "del", "client", "enable"}

Row == [v : Vals, enable : BOOLEAN, clients : SUBSET Clients]

Rows == [Tags -> Row \cup {None}]

(***************************************************************************)
(* A situation: what the master and the node hold when the node joins,     *)
(* which tags its sync mode manages (all of them in "all" mode), whether   *)
(* its inbounds were adopted (inbounds_adopted_at # 0), and what happens   *)
(* from then on: the operations, the faults and how many of each.  The     *)
(* master's rows carry managed tags (EnsureInboundTagAllowedTx), and the   *)
(* flag is down, so they are the node's, or disabled ones it was not sent. *)
(***************************************************************************)
Delivered(row, onNode) == onNode = row \/ (~row.enable /\ onNode = None)

ASSUME NodeSyncAssumption ==
    /\ None \notin Row
    /\ \A s \in Setups :
         /\ s.central \in Rows /\ s.node \in Rows
         /\ s.selected \subseteq Tags /\ s.adopted \in BOOLEAN
         /\ s.kinds \subseteq EditKinds /\ s.faults \subseteq FaultKinds
         /\ s.edits \in Nat /\ s.restarts \in Nat
         /\ \A t \in Tags : s.central[t] # None =>
              t \in s.selected /\ Delivered(s.central[t], s.node[t])

VARIABLES
    central,   \* the master's rows
    node,      \* the node's rows
    fp,        \* Remote.pushedFP: the payload the master believes the node holds
    dirty,     \* nodes.config_dirty
    dirtyAt,   \* nodes.config_dirty_at
    adopted,   \* nodes.inbounds_adopted_at # 0
    selected,  \* nodes.inbound_tags: the managed tags
    online,    \* nodes.status as the heartbeat last wrote it
    pushes,    \* live pushes that have not returned
    toggle,    \* a SetInboundEnable between its read and its commit
    job,       \* the sync job's locals
    gone,      \* tags whose inbound the master deleted (history)
    missed,    \* tags a reconcile took for swept although it could not look them up (history)
    edits,     \* operations used of setup.edits
    restarts,  \* panel restarts used of setup.restarts
    setup      \* the situation this behaviour began in

vars == <<central, node, fp, dirty, dirtyAt, adopted, selected, online, pushes, toggle,
          job, gone, missed, edits, restarts, setup>>

rest == <<missed, restarts, setup>>

nodeRow == <<dirty, dirtyAt, adopted, selected>>

NoRows == [t \in Tags |-> None]

Idle == [pc |-> "idle"]

Init ==
    /\ setup \in Setups
    /\ central = setup.central
    /\ node = setup.node
    /\ fp = NoRows
    /\ dirty = FALSE
    /\ dirtyAt = 0
    /\ adopted = setup.adopted
    /\ selected = setup.selected
    /\ online = TRUE
    /\ pushes = {}
    /\ toggle = None
    /\ job = Idle
    /\ gone = {}
    /\ missed = {}
    /\ edits = 0
    /\ restarts = 0

Present(rows) == {t \in Tags : rows[t] # None}

----------------------------------------------------------------------------
(***************************************************************************)
(* The dirty flag.                                                         *)
(***************************************************************************)

\* MarkNodeDirtyTx runs in the edit's transaction and stamps the millisecond.
MarkNodeDirty ==
    /\ dirty' = TRUE
    /\ dirtyAt' \in {dirtyAt + 1} \cup (IF "sameStamp" \in setup.faults THEN {dirtyAt} ELSE {})
    /\ UNCHANGED adopted

\* EnsureInboundTagAllowedTx: a tag the master writes becomes a managed one.
EnsureInboundTagAllowed(t) == selected' = selected \cup {t}

Edit(kind) ==
    /\ kind \in setup.kinds
    /\ edits < setup.edits
    /\ edits' = edits + 1

\* setRemoteTrafficLocked occupies the serial writer between its reads and its
\* commit; runSerializedTx waits for it.
WriterFree == job.pc # "merging"

----------------------------------------------------------------------------
(***************************************************************************)
(* The master's edits.                                                     *)
(***************************************************************************)


\* UpdateInbound keeps the stored clients and enable switch, saves the row and
\* leaves delivery to the reconcile.
UpdateInbound(t, v) ==
    /\ Edit("update")
    /\ WriterFree
    /\ central[t] # None
    /\ central' = [central EXCEPT ![t].v = v]
    /\ EnsureInboundTagAllowed(t)
    /\ MarkNodeDirty
    /\ UNCHANGED <<node, fp, online, pushes, toggle, job, gone, rest>>

\* AddInbound marks the node dirty only for an enabled inbound.
AddInbound(t, v, enable) ==
    /\ Edit("add")
    /\ WriterFree
    /\ central[t] = None
    /\ central' = [central EXCEPT ![t] = [v |-> v, enable |-> enable, clients |-> {}]]
    /\ gone' = gone \ {t}
    /\ EnsureInboundTagAllowed(t)
    /\ IF enable THEN MarkNodeDirty ELSE UNCHANGED <<dirty, dirtyAt, adopted>>
    /\ UNCHANGED <<node, fp, online, pushes, toggle, job, rest>>

\* lockInbound is held from the read of the row to the end of the live push.
LockFree(t) == \A p \in pushes : p.t = t => p.kind \notin {"addClient", "delClient"}

WithClients(row, cs) == [row EXCEPT !.clients = cs]

\* A batch above nodeBulkPushThreshold is not pushed client by client.
BulkClients(t, cs) ==
    /\ Edit("bulk")
    /\ WriterFree
    /\ LockFree(t)
    /\ central[t] # None
    /\ central' = [central EXCEPT ![t] = WithClients(@, cs)]
    /\ MarkNodeDirty
    /\ UNCHANGED <<selected, node, fp, online, pushes, toggle, job, gone, rest>>

ClientPush(kind, t, c, cs) ==
    [kind |-> kind, t |-> t, c |-> c, stage |-> "sent",
     prev |-> central[t], row |-> WithClients(central[t], cs)]

\* AddInboundClient and DelInboundClientByEmail: nodePushPlan, the serialized
\* transaction, then the push when the node is enabled and not offline.
EditClient(kind, t, c, cs) ==
    /\ Edit("client")
    /\ WriterFree
    /\ LockFree(t)
    /\ central' = [central EXCEPT ![t] = WithClients(@, cs)]
    /\ MarkNodeDirty
    /\ pushes' = IF online THEN pushes \cup {ClientPush(kind, t, c, cs)} ELSE pushes
    /\ UNCHANGED <<selected, node, fp, online, toggle, job, gone, rest>>

AddInboundClient(t, c) ==
    /\ central[t] # None
    /\ c \notin central[t].clients
    /\ EditClient("addClient", t, c, central[t].clients \cup {c})

DelInboundClientByEmail(t, c) ==
    /\ central[t] # None
    /\ c \in central[t].clients
    /\ EditClient("delClient", t, c, central[t].clients \ {c})

\* SetInboundEnable reads the row, commits the switch alone in a transaction of
\* its own (not on the serial writer) and pushes the row it read.
SetInboundEnableRead(t) ==
    /\ Edit("enable")
    /\ toggle = None
    /\ central[t] # None
    /\ toggle' = [t |-> t, row |-> [central[t] EXCEPT !.enable = ~@]]
    /\ UNCHANGED <<central, node, fp, nodeRow, online, pushes, job, gone, rest>>

SetInboundEnableCommit ==
    /\ toggle # None
    /\ LET t == toggle.t
       IN  /\ central' = IF central[t] = None THEN central
                         ELSE [central EXCEPT ![t].enable = toggle.row.enable]
           /\ pushes' = IF ~online THEN pushes
                        ELSE pushes \cup {[kind |-> "row", t |-> t, row |-> toggle.row,
                                           stage |-> "sent"]}
    /\ toggle' = None
    /\ MarkNodeDirty
    /\ UNCHANGED <<selected, node, fp, online, job, gone, edits, rest>>

\* delInbound deletes the row in a transaction of its own and pushes the
\* deletion after it.
DelInbound(t) ==
    /\ Edit("del")
    /\ central[t] # None
    /\ central' = [central EXCEPT ![t] = None]
    /\ gone' = gone \cup {t}
    /\ pushes' = IF online THEN pushes \cup {[kind |-> "delInbound", t |-> t, stage |-> "sent"]}
                 ELSE pushes
    /\ MarkNodeDirty
    /\ UNCHANGED <<selected, node, fp, online, toggle, job, rest>>

----------------------------------------------------------------------------
(***************************************************************************)
(* Live pushes: the node applies the request, then the master handles the  *)
(* answer.  A push may be lost before or after the node applied it.        *)
(***************************************************************************)

\* What the node's panel makes of the request (external to the master).
Applied(p) ==
    CASE p.kind = "row" -> p.row
      [] p.kind = "delInbound" -> None
      [] p.kind = "addClient" -> WithClients(node[p.t], node[p.t].clients \cup {p.c})
      [] OTHER -> WithClients(node[p.t], node[p.t].clients \ {p.c})

\* A client's push needs the inbound on the node (resolveRemoteID).
PushApplied(p) ==
    /\ p.stage = "sent"
    /\ p.kind \in {"addClient", "delClient"} => node[p.t] # None
    /\ node' = [node EXCEPT ![p.t] = Applied(p)]
    /\ pushes' = (pushes \ {p}) \cup {[p EXCEPT !.stage = "applied"]}
    /\ UNCHANGED <<central, fp, nodeRow, online, toggle, job, gone, edits, rest>>

\* recordPushedInbound after a full push, AdvancePushedInbound after a client's,
\* cacheDel after a deletion.
Recorded(p) ==
    CASE p.kind = "row" -> [fp EXCEPT ![p.t] = p.row]
      [] p.kind = "delInbound" -> [fp EXCEPT ![p.t] = None]
      [] OTHER -> IF fp[p.t] = p.prev THEN [fp EXCEPT ![p.t] = p.row] ELSE fp

PushReturned(p) ==
    /\ p.stage = "applied"
    /\ fp' = Recorded(p)
    /\ pushes' = pushes \ {p}
    /\ UNCHANGED <<central, node, nodeRow, online, toggle, job, gone, edits, rest>>

PushFailed(p) ==
    /\ p.stage = "applied" => "lostAnswer" \in setup.faults
    /\ pushes' = pushes \ {p}
    /\ UNCHANGED <<central, node, fp, nodeRow, online, toggle, job, gone, edits, rest>>

----------------------------------------------------------------------------
(***************************************************************************)
(* The sync job's pass over the node (syncOne); running.TryLock keeps two  *)
(* passes from overlapping.                                                *)
(***************************************************************************)

\* Run: GetAll reads the node row; an offline node is skipped.
JobLoad ==
    /\ job.pc = "idle"
    /\ online
    /\ job' = [pc |-> IF dirty THEN "read" ELSE "fetch",
               at |-> dirtyAt, adopted |-> adopted, selected |-> selected]
    /\ UNCHANGED <<central, node, fp, nodeRow, online, pushes, toggle, gone, edits, rest>>

\* ReconcileNode: the rows as the database has them now.
ReconcileRead ==
    /\ job.pc = "read"
    /\ job' = [pc |-> "list", at |-> job.at, adopted |-> job.adopted,
               selected |-> job.selected, rows |-> central]
    /\ UNCHANGED <<central, node, fp, nodeRow, online, pushes, toggle, gone, edits, rest>>

\* ListInboundOptions: the tags the node reports.
ReconcileList ==
    /\ job.pc = "list"
    /\ job' = [pc |-> "push", at |-> job.at, adopted |-> job.adopted,
               selected |-> job.selected, rows |-> job.rows,
               remote |-> Present(node), todo |-> Present(job.rows), sent |-> {},
               failed |-> FALSE]
    /\ UNCHANGED <<central, node, fp, nodeRow, online, pushes, toggle, gone, edits, rest>>

\* ReconcileInbound skips a row whose payload is the one last pushed.
Unchanged(t) == t \in job.remote /\ fp[t] = job.rows[t]

ReconcileInbound(t) ==
    /\ job.pc = "push"
    /\ t \in job.todo
    /\ job.sent = {}
    /\ IF Unchanged(t)
         THEN node' = node /\ job' = [job EXCEPT !.todo = @ \ {t}]
         ELSE /\ node' = [node EXCEPT ![t] = job.rows[t]]
              /\ job' = [job EXCEPT !.todo = @ \ {t}, !.sent = {t}]
    /\ UNCHANGED <<central, fp, nodeRow, online, pushes, toggle, gone, edits, rest>>

ReconcileRecord(t) ==
    /\ job.pc = "push"
    /\ t \in job.sent
    /\ fp' = [fp EXCEPT ![t] = job.rows[t]]
    /\ job' = [job EXCEPT !.sent = {}]
    /\ UNCHANGED <<central, node, nodeRow, online, pushes, toggle, gone, edits, rest>>

\* A push that fails before or after the node applied it: the error is joined
\* and the other inbounds go on.
ReconcileInboundFailed(t) ==
    /\ job.pc = "push"
    /\ \/ t \in job.sent /\ "lostAnswer" \in setup.faults
       \/ job.sent = {} /\ t \in job.todo /\ ~Unchanged(t)
    /\ job' = [job EXCEPT !.todo = @ \ {t}, !.sent = {}, !.failed = TRUE]
    /\ UNCHANGED <<central, node, fp, nodeRow, online, pushes, toggle, gone, edits, rest>>

\* Mutant: the sweep forgets the node's selected tags.
SweepableAll == IF job.adopted THEN job.remote \ Present(job.rows) ELSE {}

\* Tags the node reports and the master does not want; none before the node's
\* inbounds were adopted, only selected ones in "selected" mode.
Sweepable ==
    IF job.adopted THEN (job.remote \ Present(job.rows)) \cap job.selected ELSE {}

\* Each deletion of the sweep succeeds (and cacheDel drops its fingerprint), fails,
\* before or after the node applied it, or is skipped: DelInbound reports success
\* when it cannot look the tag's id up, and the inbound stays where it is.
ReconcileSwept ==
    /\ job.pc = "push"
    /\ job.todo = {} /\ job.sent = {}
    /\ \E swept \in SUBSET Sweepable : \E skipped \in SUBSET (Sweepable \ swept) :
       \E lost \in SUBSET (Sweepable \ (swept \cup skipped)) :
         /\ lost # {} => "lostAnswer" \in setup.faults
         /\ node' = [t \in Tags |-> IF t \in swept \cup lost THEN None ELSE node[t]]
         /\ fp' = [t \in Tags |-> IF t \in swept THEN None ELSE fp[t]]
         /\ job' = [job EXCEPT !.pc = IF job.failed \/ swept \cup skipped # Sweepable
                                        THEN "fetch" ELSE "clear"]
         /\ missed' = IF job'.pc = "clear" THEN missed \cup skipped ELSE missed
    /\ UNCHANGED <<central, nodeRow, online, pushes, toggle, gone, edits, restarts, setup>>

\* ListInboundOptions failed: the node stays dirty, the traffic pull goes on.
ReconcileListFailed ==
    /\ job.pc = "list"
    /\ job' = [pc |-> "fetch", at |-> job.at, adopted |-> job.adopted, selected |-> job.selected]
    /\ UNCHANGED <<central, node, fp, nodeRow, online, pushes, toggle, gone, edits, rest>>

\* Mutant: the flag is cleared whatever its stamp says.
ClearNodeDirtyAlways ==
    /\ job.pc = "clear"
    /\ dirty' = FALSE
    /\ job' = [job EXCEPT !.pc = "fetch"]
    /\ UNCHANGED <<central, node, fp, dirtyAt, adopted, selected, online, pushes, toggle,
                   gone, edits, rest>>

\* ClearNodeDirty: only if no edit has stamped the node since it was loaded.
ClearNodeDirty ==
    /\ job.pc = "clear"
    /\ dirty' = IF dirtyAt = job.at THEN FALSE ELSE dirty
    /\ job' = [job EXCEPT !.pc = "fetch"]
    /\ UNCHANGED <<central, node, fp, dirtyAt, adopted, selected, online, pushes, toggle,
                   gone, edits, rest>>

\* FetchTrafficSnapshot and FilterNodeSnapshot; a restarting node may report
\* no inbound at all.
FetchSnapshot(empty) ==
    /\ job.pc = "fetch"
    /\ job' = [pc |-> "sample", adopted |-> job.adopted, canAdopt |-> job.selected # {},
               snap |-> [t \in Tags |-> IF empty \/ t \notin job.selected THEN None ELSE node[t]]]
    /\ UNCHANGED <<central, node, fp, nodeRow, online, pushes, toggle, gone, edits, rest>>

FetchFailed ==
    /\ job.pc = "fetch"
    /\ job' = Idle
    /\ UNCHANGED <<central, node, fp, nodeRow, online, pushes, toggle, gone, edits, rest>>

\* NodeSyncState, before a further call to the node (FetchHostGroups).
SampleDirty ==
    /\ job.pc = "sample"
    /\ job' = [pc |-> "merge", adopted |-> job.adopted, canAdopt |-> job.canAdopt,
               snap |-> job.snap, dirty |-> dirty]
    /\ UNCHANGED <<central, node, fp, nodeRow, online, pushes, toggle, gone, edits, rest>>

\* Mutant: the flag sampled before the merge is not read again.
MergeBeginStale ==
    /\ job.pc = "merge"
    /\ job' = [pc |-> "merging", adopted |-> job.adopted, canAdopt |-> job.canAdopt,
               snap |-> job.snap, sampled |-> job.dirty, dirty |-> job.dirty,
               selected |-> selected, rows |-> central]
    /\ UNCHANGED <<central, node, fp, nodeRow, online, pushes, toggle, gone, edits, rest>>

\* setRemoteTrafficLocked on the serial writer: config_dirty and the central
\* rows are read before its transaction begins.
MergeBegin ==
    /\ job.pc = "merge"
    /\ job' = [pc |-> "merging", adopted |-> job.adopted, canAdopt |-> job.canAdopt,
               snap |-> job.snap, sampled |-> job.dirty, dirty |-> job.dirty \/ dirty,
               selected |-> selected, rows |-> central]
    /\ UNCHANGED <<central, node, fp, nodeRow, online, pushes, toggle, gone, edits, rest>>

\* Mutant: the client list is not adopted.
MergedKeepsClients(t) ==
    IF job.dirty \/ job.snap[t] = None THEN central[t]
    ELSE IF central[t] = None THEN job.snap[t]
    ELSE WithClients(job.snap[t], central[t].clients)

\* The merge's effect on one tag: nothing while dirty; import a tag the master
\* lacks; adopt the node's fields; drop an enabled row the snapshot no longer
\* names, unless the snapshot is empty or the tag is unmanaged.  A row deleted
\* since it was read is not written.
Merged(t) ==
    LET s == job.snap[t]
        c == job.rows[t]
    IN  IF job.dirty THEN central[t]
        ELSE CASE s # None /\ c = None -> IF central[t] = None THEN s ELSE central[t]
               [] s # None /\ c # None -> IF central[t] = None THEN None ELSE s
               [] s = None /\ c # None /\ c.enable /\ Present(job.snap) # {}
                    /\ t \in job.selected -> None
               [] OTHER -> central[t]

AdoptedFP(t) ==
    IF ~job.dirty /\ job.snap[t] # None /\ job.rows[t] # None /\ job.rows[t] # job.snap[t]
      THEN job.snap[t] ELSE fp[t]

MergeCommit ==
    /\ job.pc = "merging"
    /\ central' = [t \in Tags |-> Merged(t)]
    /\ fp' = [t \in Tags |-> AdoptedFP(t)]
    /\ job' = [pc |-> "adopt", adopted |-> job.adopted, canAdopt |-> job.canAdopt,
               dirty |-> job.sampled]
    /\ UNCHANGED <<node, nodeRow, online, pushes, toggle, gone, edits, rest>>

MergeFailed ==
    /\ job.pc = "merging"
    /\ job' = Idle
    /\ UNCHANGED <<central, node, fp, nodeRow, online, pushes, toggle, gone, edits, rest>>

\* MarkNodeInboundsAdopted, decided by the flag sampled before the merge.
MarkNodeInboundsAdopted ==
    /\ job.pc = "adopt"
    /\ adopted' = (adopted \/ (~job.dirty /\ ~job.adopted /\ job.canAdopt))
    /\ job' = Idle
    /\ UNCHANGED <<central, node, fp, dirty, dirtyAt, selected, online, pushes, toggle,
                   gone, edits, rest>>

----------------------------------------------------------------------------
\* NodeHeartbeatJob writes what its probe saw.
Heartbeat(up) ==
    /\ online # up
    /\ online' = up
    /\ UNCHANGED <<central, node, fp, nodeRow, pushes, toggle, job, gone, edits, rest>>

\* The panel restarts: the database survives, fingerprints and whatever had not
\* reached the node do not.
PanelRestart ==
    /\ restarts < setup.restarts
    /\ restarts' = restarts + 1
    /\ fp' = NoRows
    /\ pushes' = {}
    /\ toggle' = None
    /\ job' = Idle
    /\ UNCHANGED <<central, node, nodeRow, online, gone, missed, edits, setup>>

MasterEdit ==
    \/ \E t \in Tags :
         \/ \E v \in Vals : UpdateInbound(t, v)
         \/ \E v \in Vals, enable \in BOOLEAN : AddInbound(t, v, enable)
         \/ \E cs \in SUBSET Clients : BulkClients(t, cs)
         \/ \E c \in Clients : AddInboundClient(t, c) \/ DelInboundClientByEmail(t, c)
         \/ SetInboundEnableRead(t)
         \/ DelInbound(t)
    \/ SetInboundEnableCommit

LivePush == \E p \in pushes : PushApplied(p) \/ PushReturned(p) \/ PushFailed(p)

Reconcile ==
    \/ ReconcileRead \/ ReconcileList \/ ReconcileListFailed
    \/ \E t \in Tags : ReconcileInbound(t) \/ ReconcileRecord(t) \/ ReconcileInboundFailed(t)
    \/ ReconcileSwept \/ ClearNodeDirty

Merge ==
    \/ \E empty \in BOOLEAN : FetchSnapshot(empty)
    \/ FetchFailed \/ SampleDirty \/ MergeBegin \/ MergeCommit \/ MergeFailed
    \/ MarkNodeInboundsAdopted

Next ==
    \/ MasterEdit \/ LivePush \/ JobLoad \/ Reconcile \/ Merge
    \/ \E up \in BOOLEAN : Heartbeat(up)
    \/ PanelRestart

Spec == Init /\ [][Next]_vars

(***************************************************************************)
(* The cron runs the job for ever; pushes return or time out; a node that  *)
(* keeps answering now and then eventually answers each kind of call.      *)
(***************************************************************************)
FullMerge == MergeCommit /\ Present(job.snap) = Present(node) \cap selected

SweptAll == ReconcileSwept /\ \A t \in Sweepable : node'[t] = None

Fairness ==
    /\ WF_vars(SetInboundEnableCommit) /\ WF_vars(LivePush)
    /\ SF_vars(Heartbeat(TRUE)) /\ SF_vars(JobLoad)
    /\ WF_vars(ReconcileRead) /\ SF_vars(ReconcileList)
    /\ \A t \in Tags : SF_vars(ReconcileInbound(t)) /\ SF_vars(ReconcileRecord(t))
    /\ SF_vars(SweptAll) /\ WF_vars(ClearNodeDirty)
    /\ SF_vars(FetchSnapshot(FALSE)) /\ WF_vars(SampleDirty) /\ WF_vars(MergeBegin)
    /\ WF_vars(MergeCommit \/ MergeFailed) /\ SF_vars(FullMerge) /\ WF_vars(MarkNodeInboundsAdopted)

FairSpec == Spec /\ Fairness

----------------------------------------------------------------------------
(***************************************************************************)
(* Properties.                                                             *)
(***************************************************************************)

\* What the two promises below need (the README says why): edits whose commit
\* waits for the serial writer and whose pushes are the reconcile's own, no fault
\* beyond calls that fail and panels that restart; inbounds are deleted only on a
\* node whose inbounds were adopted and not added again behind a delete that is
\* still on its way, nor added over one the node has and the master lacks.
Orderly ==
    /\ setup.faults = {} /\ setup.kinds \cap {"client", "enable"} = {}
    /\ "del" \in setup.kinds => setup.adopted /\ "add" \notin setup.kinds
    /\ "add" \in setup.kinds => Present(setup.node) \subseteq Present(setup.central)

\* With nobody editing the node itself, merging its snapshot never changes or
\* drops an inbound the master holds, and never brings back one it deleted:
\* every edit is either still flagged dirty or already on the node
\* (setRemoteTrafficLocked's adoption, guarded by config_dirty).  The code does
\* not keep this of an inbound whose deletion the sweep skipped because its id
\* could not be looked up: that one is brought back.
NoRevert ==
    [][MergeCommit /\ Orderly =>
         \A t \in Tags \ missed : /\ central[t] # None => central'[t] = central[t]
                                  /\ t \in gone => central'[t] = None]_vars

Settled == pushes = {} /\ toggle = None

\* A clean node holds what the master holds: once the flag is down and no call
\* is in flight, each row the master delivered is the node's, and the node
\* keeps no inbound the master deleted (ReconcileNode, ClearNodeDirty and the
\* fingerprint skip together), except one whose deletion the sweep skipped for
\* want of its id (DelInbound answers nil) before the flag was cleared.
CleanIsPushed ==
    (Orderly /\ ~dirty /\ Settled /\ adopted) =>
        \A t \in selected \ missed :
          /\ central[t] # None /\ central[t].enable => node[t] = central[t]
          /\ t \in gone => node[t] = None

\* Inbounds outside the node's selected tags are neither changed nor removed by
\* the master: the sweep and the snapshot filter leave them to the node.
UnmanagedLeftAlone == \A t \in Tags \ selected : node[t] = setup.node[t]

InSync == \A t \in selected : central[t] # None /\ central[t].enable => node[t] = central[t]

\* Once edits stop, master and node agree for good, whatever was lost, delayed
\* or cut off by a restart on the way: "so an offline node's inbound edits
\* converge once it reconnects" (docs/architecture.md).
Converges == <>[]InSync
=============================================================================
