--------------------------- MODULE NodeSyncProofs ---------------------------
(***************************************************************************)
(* Proofs about NodeSync, for every set of tags, clients, values and       *)
(* situations: what the master may touch on a node, and that a clean node  *)
(* holds what the master holds, so that a merge never reverts an edit.     *)
(***************************************************************************)
EXTENDS NodeSync, TLAPS

----------------------------------------------------------------------------
(***************************************************************************)
(* Types: a pass of the job carries the locals of the step it is at, a     *)
(* live push those of its kind.                                            *)
(***************************************************************************)

LoadJob == [pc : {"read", "fetch"}, at : Nat, adopted : BOOLEAN, selected : SUBSET Tags]

ListJob == [pc : {"list"}, at : Nat, adopted : BOOLEAN, selected : SUBSET Tags, rows : Rows]

PushJob == [pc : {"push", "clear", "fetch"}, at : Nat, adopted : BOOLEAN,
            selected : SUBSET Tags, rows : Rows, remote : SUBSET Tags, todo : SUBSET Tags,
            sent : SUBSET Tags, failed : BOOLEAN]

SampleJob == [pc : {"sample"}, adopted : BOOLEAN, canAdopt : BOOLEAN, snap : Rows]

MergeJob == [pc : {"merge"}, adopted : BOOLEAN, canAdopt : BOOLEAN, snap : Rows,
             dirty : BOOLEAN]

MergingJob == [pc : {"merging"}, adopted : BOOLEAN, canAdopt : BOOLEAN, snap : Rows,
               sampled : BOOLEAN, dirty : BOOLEAN, selected : SUBSET Tags, rows : Rows]

AdoptJob == [pc : {"adopt"}, adopted : BOOLEAN, canAdopt : BOOLEAN, dirty : BOOLEAN]

Job == {Idle} \cup LoadJob \cup ListJob \cup PushJob \cup SampleJob \cup MergeJob
         \cup MergingJob \cup AdoptJob

Stage == {"sent", "applied"}

ClientPushes == [kind : {"addClient", "delClient"}, t : Tags, c : Clients, stage : Stage,
                 prev : Row, row : Row]

RowPushes == [kind : {"row"}, t : Tags, row : Row, stage : Stage]

DelPushes == [kind : {"delInbound"}, t : Tags, stage : Stage]

TypeInv ==
    /\ central \in Rows /\ node \in Rows /\ fp \in Rows
    /\ dirty \in BOOLEAN /\ dirtyAt \in Nat /\ adopted \in BOOLEAN
    /\ selected \in SUBSET Tags /\ online \in BOOLEAN
    /\ pushes \in SUBSET (ClientPushes \cup RowPushes \cup DelPushes)
    /\ toggle \in {None} \cup [t : Tags, row : Row]
    /\ job \in Job
    /\ gone \in SUBSET Tags /\ missed \in SUBSET Tags
    /\ setup \in Setups

----------------------------------------------------------------------------
(***************************************************************************)
(* What the master may touch: every tag in its rows, in a call on its way  *)
(* or in the job's locals is a managed one.                                *)
(***************************************************************************)

Reconciling == job.pc \in {"read", "list", "push", "clear"}

Managed ==
    /\ Present(central) \subseteq selected
    /\ \A p \in pushes : p.t \in selected
    /\ toggle # None => toggle.t \in selected
    /\ Reconciling \/ job.pc = "fetch" => job.selected \subseteq selected
    /\ job.pc \in {"list", "push"} => Present(job.rows) \subseteq selected
    /\ job.pc = "push" => job.todo \subseteq Present(job.rows)
    /\ job.pc \in {"sample", "merge", "merging"} => Present(job.snap) \subseteq selected
    /\ UnmanagedLeftAlone

----------------------------------------------------------------------------
(***************************************************************************)
(* What holds of an orderly behaviour.                                     *)
(***************************************************************************)

\* The tags the promises are about: no reconcile took them for swept in error.
Kept == Tags \ missed

\* A deleted inbound stays deleted, and only its own delete is ever in flight.
\* Where inbounds are added nothing is ever swept.
Deletions ==
    /\ toggle = None
    /\ \A p \in pushes : p.kind = "delInbound" /\ p.t \in gone
    /\ \A t \in gone : t \in selected /\ (t \in Kept => central[t] = None)
    /\ gone # {} => "del" \in setup.kinds
    /\ setup.adopted => adopted
    /\ setup.adopted /\ (Reconciling \/ job.pc = "fetch") => job.adopted
    /\ "add" \in setup.kinds => missed = {} /\ Present(node) \subseteq Present(central)

\* A fingerprint is the payload the node holds, from the record of a push to
\* the deletion of the inbound.
Fingerprints ==
    \A t \in Kept : fp[t] # None /\ t \notin gone =>
        /\ central[t] # None
        /\ ~(job.pc = "push" /\ t \in job.sent) => node[t] = fp[t]

\* No edit has stamped the node since the job loaded it; after the reconcile,
\* no edit since the flag went down.
Current == IF Reconciling THEN job.at = dirtyAt ELSE ~dirty

Stamps ==
    /\ Reconciling => dirty /\ job.at <= dirtyAt
    /\ (Reconciling \/ job.pc = "fetch") /\ Current =>
         /\ gone \subseteq job.selected
         /\ \A t \in Tags : central[t] # None /\ central[t].enable => t \in job.selected

NodeInStep ==
    \A t \in Kept : /\ central[t] # None => Delivered(central[t], node[t])
                    /\ t \in gone => node[t] = None

\* The flag is down, or about to be, only when the node holds the master's rows.
CleanInStep == (~dirty \/ (job.pc = "clear" /\ Current)) => NodeInStep

\* The rows the reconcile read: still the master's unless an edit stamped the
\* node; a disabled inbound added since leaves no stamp.
ReadRows ==
    job.pc \in {"list", "push"} => \A t \in Kept :
        /\ job.rows[t] # None => central[t] # None \/ t \in gone
        /\ job.rows[t] = None => fp[t] = None \/ t \in gone
        /\ Current /\ job.rows[t] # None => central[t] = job.rows[t]
        /\ Current /\ job.rows[t] = None /\ central[t] # None =>
             ~central[t].enable /\ node[t] = None
        /\ "add" \in setup.kinds /\ job.rows[t] = None => node[t] = None

\* What the reconcile has done so far.
Progress ==
    job.pc = "push" =>
        /\ job.sent \subseteq Present(job.rows)
        /\ \A t, u \in job.sent : t = u
        /\ "add" \in setup.kinds => job.remote \subseteq Present(job.rows)
        /\ \A t \in Kept :
             /\ t \notin job.remote /\ job.rows[t] = None => node[t] = None
             /\ t \in job.sent /\ t \notin gone => node[t] = job.rows[t]
             /\ Current /\ ~job.failed /\ job.rows[t] # None /\ t \notin job.todo =>
                  node[t] = job.rows[t]

\* A snapshot taken while the flag was down shows the node as it still is.
Snapshot ==
    job.pc \in {"sample", "merge"} /\ ~dirty => \A t \in Kept :
        /\ job.snap[t] # None => node[t] = job.snap[t]
        /\ Present(job.snap) # {} /\ central[t] # None /\ central[t].enable =>
             job.snap[t] # None

\* The merge of a clean node: only a deletion can have slipped in since its reads.
Merging ==
    job.pc = "merging" /\ ~job.dirty => \A t \in Kept :
        /\ job.rows[t] # None => central[t] = job.rows[t] \/ (central[t] = None /\ t \in gone)
        /\ job.rows[t] = None => central[t] = None
        /\ job.snap[t] # None /\ job.rows[t] # None => job.snap[t] = job.rows[t]
        /\ job.snap[t] # None /\ job.rows[t] = None => t \notin gone
        /\ job.snap[t] # None /\ t \notin gone => node[t] = job.snap[t]
        /\ Present(job.snap) # {} /\ job.rows[t] # None /\ job.rows[t].enable =>
             job.snap[t] # None

SyncInv ==
    /\ Deletions /\ Fingerprints /\ Stamps /\ CleanInStep /\ ReadRows /\ Progress
    /\ Snapshot /\ Merging

Inv == TypeInv /\ Managed /\ (Orderly => SyncInv)

----------------------------------------------------------------------------
(***************************************************************************)
(* Type correctness.                                                       *)
(***************************************************************************)

\* The step a pass is at tells which locals it carries.
LEMMA JobShapes ==
    ASSUME NEW j \in Job
    PROVE  /\ j.pc \in {"idle", "read", "fetch", "list", "push", "clear", "sample", "merge",
                        "merging", "adopt"}
           /\ j.pc = "idle" => j = Idle
           /\ j.pc = "read" => j \in LoadJob
           /\ j.pc = "fetch" => j \in LoadJob \cup PushJob
           /\ j.pc = "list" => j \in ListJob
           /\ j.pc \in {"push", "clear"} => j \in PushJob
           /\ j.pc = "sample" => j \in SampleJob
           /\ j.pc = "merge" => j \in MergeJob
           /\ j.pc = "merging" => j \in MergingJob
           /\ j.pc = "adopt" => j \in AdoptJob
  BY DEF Job, Idle, LoadJob, ListJob, PushJob, SampleJob, MergeJob, MergingJob, AdoptJob

\* The parts of a row can be replaced one by one.
LEMMA RowParts ==
    ASSUME NEW row \in Row
    PROVE  /\ \A v \in Vals : [row EXCEPT !.v = v] \in Row
           /\ \A b \in BOOLEAN : [row EXCEPT !.enable = b] \in Row
           /\ \A cs \in SUBSET Clients : WithClients(row, cs) \in Row
           /\ row.v \in Vals /\ row.enable \in BOOLEAN /\ row.clients \in SUBSET Clients
           /\ [row EXCEPT !.enable = ~row.enable] \in Row
  BY DEF Row, WithClients

LEMMA RowsPut ==
    ASSUME NEW rows \in Rows, NEW t \in Tags, NEW x \in Row \cup {None}
    PROVE  [rows EXCEPT ![t] = x] \in Rows
  BY DEF Rows

LEMMA RowsGet ==
    ASSUME NEW rows \in Rows, NEW t \in Tags
    PROVE  rows[t] \in Row \cup {None}
  BY DEF Rows

\* The initial state has its types.
LEMMA TypeInit == Init => TypeInv
  <1> SUFFICES ASSUME Init PROVE TypeInv
    OBVIOUS
  <1>1. setup \in Setups /\ setup.central \in Rows /\ setup.node \in Rows
        /\ setup.selected \subseteq Tags /\ setup.adopted \in BOOLEAN
    BY NodeSyncAssumption DEF Init
  <1>2. NoRows \in Rows
    BY DEF NoRows, Rows
  <1>. QED
    BY <1>1, <1>2 DEF Init, TypeInv, Job

LEMMA DirtyTypes ==
    ASSUME TypeInv, MarkNodeDirty
    PROVE  dirty' \in BOOLEAN /\ dirtyAt' \in Nat /\ adopted' \in BOOLEAN
           /\ dirty' = TRUE /\ adopted' = adopted
  BY DEF TypeInv, MarkNodeDirty

\* The master's edits keep the types.
LEMMA TypeEdit == ASSUME TypeInv, MasterEdit PROVE TypeInv'
  <1>1. ASSUME NEW t \in Tags, NEW v \in Vals, UpdateInbound(t, v) PROVE TypeInv'
    <2>1. central' \in Rows
      BY <1>1, RowParts, RowsPut, RowsGet DEF UpdateInbound, TypeInv
    <2>. QED
      BY <1>1, <2>1, DirtyTypes DEF UpdateInbound, EnsureInboundTagAllowed, Edit, rest, TypeInv
  <1>2. ASSUME NEW t \in Tags, NEW v \in Vals, NEW enable \in BOOLEAN,
               AddInbound(t, v, enable)
        PROVE  TypeInv'
    <2>1. [v |-> v, enable |-> enable, clients |-> {}] \in Row
      BY DEF Row
    <2>2. central' \in Rows
      BY <1>2, <2>1, RowsPut DEF AddInbound, TypeInv
    <2>3. dirty' \in BOOLEAN /\ dirtyAt' \in Nat /\ adopted' \in BOOLEAN
      BY <1>2, DirtyTypes DEF AddInbound, TypeInv
    <2>. QED
      BY <1>2, <2>2, <2>3 DEF AddInbound, EnsureInboundTagAllowed, Edit, rest, TypeInv
  <1>3. ASSUME NEW t \in Tags, NEW cs \in SUBSET Clients, BulkClients(t, cs) PROVE TypeInv'
    <2>1. central' \in Rows
      BY <1>3, RowParts, RowsPut, RowsGet DEF BulkClients, TypeInv
    <2>. QED
      BY <1>3, <2>1, DirtyTypes DEF BulkClients, Edit, rest, TypeInv
  <1>4. ASSUME NEW t \in Tags, NEW c \in Clients, NEW cs \in SUBSET Clients,
               NEW kind \in {"addClient", "delClient"}, central[t] # None,
               EditClient(kind, t, c, cs)
        PROVE  TypeInv'
    <2>1. central[t] \in Row /\ WithClients(central[t], cs) \in Row
      BY <1>4, RowParts, RowsGet DEF TypeInv
    <2>2. central' \in Rows
      BY <1>4, <2>1, RowsPut DEF EditClient, TypeInv
    <2>3. ClientPush(kind, t, c, cs) \in ClientPushes
      BY <1>4, <2>1 DEF ClientPush, ClientPushes, Stage
    <2>. QED
      BY <1>4, <2>2, <2>3, DirtyTypes DEF EditClient, Edit, rest, TypeInv
  <1>5. ASSUME NEW t \in Tags, NEW c \in Clients,
               AddInboundClient(t, c) \/ DelInboundClientByEmail(t, c)
        PROVE  TypeInv'
    <2>1. central[t] # None
      BY <1>5 DEF AddInboundClient, DelInboundClientByEmail
    <2>2. central[t].clients \in SUBSET Clients
      BY <2>1, RowParts, RowsGet DEF TypeInv
    <2>3. central[t].clients \cup {c} \in SUBSET Clients /\ central[t].clients \ {c} \in SUBSET Clients
      BY <2>2
    <2>. QED
      BY <1>5, <2>1, <2>3, <1>4 DEF AddInboundClient, DelInboundClientByEmail
  <1>6. ASSUME NEW t \in Tags, SetInboundEnableRead(t) PROVE TypeInv'
    <2>1. [central[t] EXCEPT !.enable = ~@] \in Row
      BY <1>6, RowParts, RowsGet DEF SetInboundEnableRead, TypeInv
    <2>2. toggle' \in {None} \cup [t : Tags, row : Row]
      BY <1>6, <2>1 DEF SetInboundEnableRead
    <2>. QED
      BY <1>6, <2>2 DEF SetInboundEnableRead, Edit, nodeRow, rest, TypeInv
  <1>7. ASSUME SetInboundEnableCommit PROVE TypeInv'
    <2>1. toggle.t \in Tags /\ toggle.row \in Row
      BY <1>7 DEF SetInboundEnableCommit, TypeInv
    <2>2. central' \in Rows
      <3>1. CASE central[toggle.t] = None
        BY <1>7, <3>1 DEF SetInboundEnableCommit, TypeInv
      <3>2. CASE central[toggle.t] # None
        <4>1. central' = [central EXCEPT ![toggle.t].enable = toggle.row.enable]
          BY <1>7, <3>2 DEF SetInboundEnableCommit
        <4>2. toggle.row.enable \in BOOLEAN
          BY <2>1, RowParts
        <4>3. central \in Rows /\ central[toggle.t] \in Row
          BY <3>2, <2>1, RowsGet DEF TypeInv
        <4>4. [central[toggle.t] EXCEPT !.enable = toggle.row.enable] \in Row
          BY <4>2, <4>3, RowParts
        <4>. QED
          BY <4>1, <4>3, <4>4, <2>1, RowsPut
      <3>. QED
        BY <3>1, <3>2
    <2>3. [kind |-> "row", t |-> toggle.t, row |-> toggle.row, stage |-> "sent"] \in RowPushes
      BY <2>1 DEF RowPushes, Stage
    <2>. QED
      BY <1>7, <2>2, <2>3, DirtyTypes DEF SetInboundEnableCommit, rest, TypeInv
  <1>8. ASSUME NEW t \in Tags, DelInbound(t) PROVE TypeInv'
    <2>1. central' \in Rows
      BY <1>8, RowsPut DEF DelInbound, TypeInv
    <2>2. [kind |-> "delInbound", t |-> t, stage |-> "sent"] \in DelPushes
      BY DEF DelPushes, Stage
    <2>. QED
      BY <1>8, <2>1, <2>2, DirtyTypes DEF DelInbound, Edit, rest, TypeInv
  <1>. QED
    BY <1>1, <1>2, <1>3, <1>5, <1>6, <1>7, <1>8 DEF MasterEdit

\* The live pushes keep the types.
LEMMA TypePush == ASSUME TypeInv, LivePush PROVE TypeInv'
  <1> PICK p \in pushes : PushApplied(p) \/ PushReturned(p) \/ PushFailed(p)
    BY DEF LivePush
  <1>1. p \in ClientPushes \cup RowPushes \cup DelPushes
    BY DEF TypeInv
  <1>2. p.t \in Tags
    BY <1>1 DEF ClientPushes, RowPushes, DelPushes
  <1>3. CASE PushApplied(p)
    <2>1. Applied(p) \in Row \cup {None}
      <3>1. CASE p.kind = "row"
        BY <3>1, <1>1 DEF Applied, ClientPushes, RowPushes, DelPushes
      <3>2. CASE p.kind = "delInbound"
        BY <3>2 DEF Applied
      <3>3. CASE p.kind \in {"addClient", "delClient"}
        <4>1. p.c \in Clients
          BY <3>3, <1>1 DEF ClientPushes, RowPushes, DelPushes
        <4>2. node[p.t] \in Row
          BY <1>2, <1>3, <3>3, RowsGet DEF PushApplied, TypeInv
        <4>3. node[p.t].clients \cup {p.c} \in SUBSET Clients
              /\ node[p.t].clients \ {p.c} \in SUBSET Clients
          BY <4>1, <4>2, RowParts
        <4>. QED
          BY <3>3, <4>2, <4>3, RowParts DEF Applied
      <3>. QED
        BY <3>1, <3>2, <3>3, <1>1 DEF ClientPushes, RowPushes, DelPushes
    <2>2. node' \in Rows
      BY <1>2, <1>3, <2>1, RowsPut DEF PushApplied, TypeInv
    <2>3. [p EXCEPT !.stage = "applied"] \in ClientPushes \cup RowPushes \cup DelPushes
      BY <1>1 DEF ClientPushes, RowPushes, DelPushes, Stage
    <2>. QED
      BY <1>3, <2>2, <2>3 DEF PushApplied, nodeRow, rest, TypeInv
  <1>4. CASE PushReturned(p)
    <2>1. fp' \in Rows
      <3>1. CASE p.kind = "delInbound"
        BY <1>2, <1>4, <3>1, RowsPut DEF PushReturned, Recorded, TypeInv
      <3>2. CASE p.kind # "delInbound"
        <4>1. p.row \in Row
          BY <1>1, <3>2 DEF ClientPushes, RowPushes, DelPushes
        <4>2. [fp EXCEPT ![p.t] = p.row] \in Rows
          BY <4>1, <1>2, RowsPut DEF TypeInv
        <4>. QED
          BY <1>4, <3>2, <4>2 DEF PushReturned, Recorded, TypeInv
      <3>. QED
        BY <3>1, <3>2
    <2>. QED
      BY <1>4, <2>1 DEF PushReturned, nodeRow, rest, TypeInv
  <1>5. CASE PushFailed(p)
    BY <1>5 DEF PushFailed, nodeRow, rest, TypeInv
  <1>. QED
    BY <1>3, <1>4, <1>5

\* The reconcile keeps the types.
LEMMA TypeReconcile == ASSUME TypeInv, JobLoad \/ Reconcile PROVE TypeInv'
  <1> USE DEF nodeRow, rest
  <1>1. CASE JobLoad
    <2>1. job' \in LoadJob
      BY <1>1 DEF JobLoad, LoadJob, TypeInv
    <2>. QED
      BY <1>1, <2>1 DEF JobLoad, Job, TypeInv
  <1>2. CASE ReconcileRead
    <2>1. job \in LoadJob
      BY <1>2, JobShapes DEF ReconcileRead, TypeInv
    <2>2. job' \in ListJob
      BY <1>2, <2>1 DEF ReconcileRead, LoadJob, ListJob, TypeInv
    <2>. QED
      BY <1>2, <2>2 DEF ReconcileRead, Job, TypeInv
  <1>3. CASE ReconcileList
    <2>1. job \in ListJob
      BY <1>3, JobShapes DEF ReconcileList, TypeInv
    <2>2. job' \in PushJob
      BY <1>3, <2>1 DEF ReconcileList, ListJob, PushJob, Present
    <2>. QED
      BY <1>3, <2>2 DEF ReconcileList, Job, TypeInv
  <1>4. CASE ReconcileListFailed
    <2>1. job \in ListJob
      BY <1>4, JobShapes DEF ReconcileListFailed, TypeInv
    <2>2. job' \in LoadJob
      BY <1>4, <2>1 DEF ReconcileListFailed, ListJob, LoadJob
    <2>. QED
      BY <1>4, <2>2 DEF ReconcileListFailed, Job, TypeInv
  <1>5. ASSUME NEW t \in Tags, ReconcileInbound(t) PROVE TypeInv'
    <2>1. job \in PushJob
      BY <1>5, JobShapes DEF ReconcileInbound, TypeInv
    <2>2. job' \in PushJob
      <3>1. [job EXCEPT !.todo = @ \ {t}] \in PushJob
        BY <2>1 DEF PushJob
      <3>2. [job EXCEPT !.todo = @ \ {t}, !.sent = {t}] \in PushJob
        BY <2>1 DEF PushJob
      <3>. QED
        BY <1>5, <3>1, <3>2 DEF ReconcileInbound
    <2>3. job.rows[t] \in Row \cup {None}
      BY <2>1, RowsGet DEF PushJob
    <2>4. node' \in Rows
      BY <1>5, <2>3, RowsPut DEF ReconcileInbound, TypeInv
    <2>. QED
      BY <1>5, <2>2, <2>4 DEF ReconcileInbound, Job, TypeInv
  <1>6. ASSUME NEW t \in Tags, ReconcileRecord(t) PROVE TypeInv'
    <2>1. job \in PushJob
      BY <1>6, JobShapes DEF ReconcileRecord, TypeInv
    <2>2. job' \in PushJob
      BY <1>6, <2>1 DEF ReconcileRecord, PushJob
    <2>3. job.rows[t] \in Row \cup {None}
      BY <2>1, RowsGet DEF PushJob
    <2>4. fp' \in Rows
      BY <1>6, <2>3, RowsPut DEF ReconcileRecord, TypeInv
    <2>. QED
      BY <1>6, <2>2, <2>4 DEF ReconcileRecord, Job, TypeInv
  <1>7. ASSUME NEW t \in Tags, ReconcileInboundFailed(t) PROVE TypeInv'
    <2>1. job \in PushJob
      BY <1>7, JobShapes DEF ReconcileInboundFailed, TypeInv
    <2>2. job' \in PushJob
      BY <1>7, <2>1 DEF ReconcileInboundFailed, PushJob
    <2>. QED
      BY <1>7, <2>2 DEF ReconcileInboundFailed, Job, TypeInv
  <1>8. CASE ReconcileSwept
    <2>1. job \in PushJob
      BY <1>8, JobShapes DEF ReconcileSwept, TypeInv
    <2>2. job' \in PushJob
      BY <1>8, <2>1 DEF ReconcileSwept, PushJob
    <2>3. node' \in Rows /\ fp' \in Rows
      BY <1>8 DEF ReconcileSwept, Rows, TypeInv
    <2>4. missed' \in SUBSET Tags
      <3>1. Sweepable \subseteq Tags
        BY <2>1 DEF Sweepable, PushJob
      <3>. QED
        BY <1>8, <3>1 DEF ReconcileSwept, TypeInv
    <2>. QED
      BY <1>8, <2>2, <2>3, <2>4 DEF ReconcileSwept, Job, TypeInv
  <1>9. CASE ClearNodeDirty
    <2>1. job \in PushJob
      BY <1>9, JobShapes DEF ClearNodeDirty, TypeInv
    <2>2. job' \in PushJob
      BY <1>9, <2>1 DEF ClearNodeDirty, PushJob
    <2>. QED
      BY <1>9, <2>2 DEF ClearNodeDirty, Job, TypeInv
  <1>. QED
    BY <1>1, <1>2, <1>3, <1>4, <1>5, <1>6, <1>7, <1>8, <1>9 DEF Reconcile

\* The snapshot merge keeps the types.
LEMMA TypeMerge == ASSUME TypeInv, Merge PROVE TypeInv'
  <1> USE DEF nodeRow, rest
  <1>1. ASSUME NEW empty \in BOOLEAN, FetchSnapshot(empty) PROVE TypeInv'
    <2>1. job \in LoadJob \cup PushJob
      BY <1>1, JobShapes DEF FetchSnapshot, TypeInv
    <2>2. job.adopted \in BOOLEAN /\ (job.selected # {}) \in BOOLEAN
      BY <2>1 DEF LoadJob, PushJob
    <2>3. [t \in Tags |-> IF empty \/ t \notin job.selected THEN None ELSE node[t]] \in Rows
      BY DEF Rows, TypeInv
    <2>4. job' \in SampleJob
      BY <1>1, <2>2, <2>3 DEF FetchSnapshot, SampleJob
    <2>. QED
      BY <1>1, <2>4 DEF FetchSnapshot, Job, TypeInv
  <1>2. CASE FetchFailed \/ MergeFailed
    BY <1>2 DEF FetchFailed, MergeFailed, Job, TypeInv
  <1>3. CASE SampleDirty
    <2>1. job \in SampleJob
      BY <1>3, JobShapes DEF SampleDirty, TypeInv
    <2>2. job' \in MergeJob
      BY <1>3, <2>1 DEF SampleDirty, SampleJob, MergeJob, TypeInv
    <2>. QED
      BY <1>3, <2>2 DEF SampleDirty, Job, TypeInv
  <1>4. CASE MergeBegin
    <2>1. job \in MergeJob
      BY <1>4, JobShapes DEF MergeBegin, TypeInv
    <2>2. job' \in MergingJob
      BY <1>4, <2>1 DEF MergeBegin, MergeJob, MergingJob, TypeInv
    <2>. QED
      BY <1>4, <2>2 DEF MergeBegin, Job, TypeInv
  <1>5. CASE MergeCommit
    <2>1. job \in MergingJob
      BY <1>5, JobShapes DEF MergeCommit, TypeInv
    <2>2. job' \in AdoptJob
      BY <1>5, <2>1 DEF MergeCommit, MergingJob, AdoptJob
    <2>3. \A t \in Tags : job.snap[t] \in Row \cup {None} /\ central[t] \in Row \cup {None}
                          /\ fp[t] \in Row \cup {None}
      BY <2>1, RowsGet DEF MergingJob, TypeInv
    <2>4. \A t \in Tags : Merged(t) \in Row \cup {None} /\ AdoptedFP(t) \in Row \cup {None}
      BY <2>3 DEF Merged, AdoptedFP
    <2>5. central' \in Rows /\ fp' \in Rows
      BY <1>5, <2>4 DEF MergeCommit, Rows
    <2>. QED
      BY <1>5, <2>2, <2>5 DEF MergeCommit, Job, TypeInv
  <1>6. CASE MarkNodeInboundsAdopted
    BY <1>6 DEF MarkNodeInboundsAdopted, Job, TypeInv
  <1>. QED
    BY <1>1, <1>2, <1>3, <1>4, <1>5, <1>6 DEF Merge

\* Every step keeps the types.
LEMMA TypeStep == TypeInv /\ [Next]_vars => TypeInv'
  <1> SUFFICES ASSUME TypeInv, [Next]_vars PROVE TypeInv'
    OBVIOUS
  <1>1. ASSUME NEW up \in BOOLEAN, Heartbeat(up) PROVE TypeInv'
    BY <1>1 DEF Heartbeat, nodeRow, rest, TypeInv
  <1>2. CASE PanelRestart
    <2>1. NoRows \in Rows
      BY DEF NoRows, Rows
    <2>. QED
      BY <1>2, <2>1 DEF PanelRestart, nodeRow, Job, TypeInv
  <1>3. CASE UNCHANGED vars
    BY <1>3 DEF vars, TypeInv
  <1>. QED
    BY <1>1, <1>2, <1>3, TypeEdit, TypePush, TypeReconcile, TypeMerge DEF Next

----------------------------------------------------------------------------
(***************************************************************************)
(* Only managed tags are touched.                                          *)
(***************************************************************************)

LEMMA ManagedInit == Init => Managed
  <1> SUFFICES ASSUME Init PROVE Managed
    OBVIOUS
  <1>1. \A t \in Tags : setup.central[t] # None => t \in setup.selected
    BY NodeSyncAssumption DEF Init
  <1>. QED
    BY <1>1 DEF Init, Managed, Present, Reconciling, Idle, UnmanagedLeftAlone

\* A step of the master that leaves the job and the node alone.
LEMMA ManagedByMaster ==
    ASSUME TypeInv, Managed, selected \subseteq selected', UNCHANGED <<job, node, setup>>,
           Present(central') \subseteq selected',
           \A p \in pushes' : p.t \in selected',
           toggle' # None => toggle'.t \in selected'
    PROVE  Managed'
  BY DEF Managed, Reconciling, UnmanagedLeftAlone, Present

\* A step of the job that writes neither the database nor the node.
LEMMA ManagedByJob ==
    ASSUME TypeInv, Managed, UNCHANGED <<central, node, selected, pushes, toggle, setup>>,
           Reconciling' \/ job'.pc = "fetch" => job'.selected \subseteq selected,
           job'.pc \in {"list", "push"} => Present(job'.rows) \subseteq selected,
           job'.pc = "push" => job'.todo \subseteq Present(job'.rows),
           job'.pc \in {"sample", "merge", "merging"} => Present(job'.snap) \subseteq selected
    PROVE  Managed'
  BY DEF Managed, UnmanagedLeftAlone

\* The master's edits touch managed tags only: a tag it writes becomes one.
LEMMA ManagedEdit == ASSUME TypeInv, Managed, MasterEdit PROVE Managed'
  <1>0. \A t \in Tags : central[t] # None => t \in selected
    BY DEF Managed, Present
  <1>1. ASSUME NEW t \in Tags, NEW v \in Vals, UpdateInbound(t, v) PROVE Managed'
    <2>1. \A u \in Tags : u # t => central'[u] = central[u]
      BY <1>1 DEF UpdateInbound, TypeInv, Rows
    <2>2. Present(central') \subseteq selected'
      BY <1>0, <1>1, <2>1 DEF UpdateInbound, EnsureInboundTagAllowed, Present
    <2>. QED
      BY <1>1, <2>2, ManagedByMaster DEF UpdateInbound, EnsureInboundTagAllowed, rest, Managed
  <1>2. ASSUME NEW t \in Tags, NEW v \in Vals, NEW enable \in BOOLEAN,
               AddInbound(t, v, enable)
        PROVE  Managed'
    <2>1. \A u \in Tags : u # t => central'[u] = central[u]
      BY <1>2 DEF AddInbound, TypeInv, Rows
    <2>2. Present(central') \subseteq selected'
      BY <1>0, <1>2, <2>1 DEF AddInbound, EnsureInboundTagAllowed, Present
    <2>. QED
      BY <1>2, <2>2, ManagedByMaster DEF AddInbound, EnsureInboundTagAllowed, rest, Managed
  <1>3. ASSUME NEW t \in Tags, NEW cs \in SUBSET Clients, BulkClients(t, cs) PROVE Managed'
    <2>1. \A u \in Tags : u # t => central'[u] = central[u]
      BY <1>3 DEF BulkClients, TypeInv, Rows
    <2>2. Present(central') \subseteq selected'
      BY <1>0, <1>3, <2>1 DEF BulkClients, Present
    <2>. QED
      BY <1>3, <2>2, ManagedByMaster DEF BulkClients, rest, Managed
  <1>4. ASSUME NEW t \in Tags, NEW c \in Clients,
               AddInboundClient(t, c) \/ DelInboundClientByEmail(t, c)
        PROVE  Managed'
    <2>1. PICK kind, cs : kind \in {"addClient", "delClient"} /\ EditClient(kind, t, c, cs)
      BY <1>4 DEF AddInboundClient, DelInboundClientByEmail
    <2>2. t \in selected
      BY <1>0, <1>4 DEF AddInboundClient, DelInboundClientByEmail
    <2>3. \A u \in Tags : u # t => central'[u] = central[u]
      BY <2>1 DEF EditClient, TypeInv, Rows
    <2>4. Present(central') \subseteq selected'
      BY <1>0, <2>1, <2>2, <2>3 DEF EditClient, Present
    <2>5. ClientPush(kind, t, c, cs).t = t
      BY DEF ClientPush
    <2>6. \A p \in pushes' : p.t \in selected'
      BY <2>1, <2>2, <2>5 DEF EditClient, Managed
    <2>. QED
      BY <2>1, <2>4, <2>6, ManagedByMaster DEF EditClient, rest, Managed
  <1>5. ASSUME NEW t \in Tags, SetInboundEnableRead(t) PROVE Managed'
    BY <1>0, <1>5, ManagedByMaster DEF SetInboundEnableRead, nodeRow, rest, Managed
  <1>6. ASSUME SetInboundEnableCommit PROVE Managed'
    <2>1. toggle.t \in selected
      BY <1>6 DEF SetInboundEnableCommit, Managed
    <2>2. \A u \in Tags : u # toggle.t => central'[u] = central[u]
      BY <1>6 DEF SetInboundEnableCommit, TypeInv, Rows
    <2>3. Present(central') \subseteq selected'
      BY <1>0, <1>6, <2>1, <2>2 DEF SetInboundEnableCommit, Present
    <2>4. \A p \in pushes' : p.t \in selected'
      BY <1>6, <2>1 DEF SetInboundEnableCommit, Managed
    <2>. QED
      BY <1>6, <2>3, <2>4, ManagedByMaster DEF SetInboundEnableCommit, rest, Managed
  <1>7. ASSUME NEW t \in Tags, DelInbound(t) PROVE Managed'
    <2>1. \A u \in Tags : u # t => central'[u] = central[u]
      BY <1>7 DEF DelInbound, TypeInv, Rows
    <2>2. Present(central') \subseteq selected'
      BY <1>0, <1>7, <2>1 DEF DelInbound, Present
    <2>3. \A p \in pushes' : p.t \in selected'
      BY <1>0, <1>7 DEF DelInbound, Managed
    <2>. QED
      BY <1>7, <2>2, <2>3, ManagedByMaster DEF DelInbound, rest, Managed
  <1>. QED
    BY <1>1, <1>2, <1>3, <1>4, <1>5, <1>6, <1>7 DEF MasterEdit

\* A live push names a managed tag.
LEMMA ManagedPush == ASSUME TypeInv, Managed, LivePush PROVE Managed'
  <1> PICK p \in pushes : PushApplied(p) \/ PushReturned(p) \/ PushFailed(p)
    BY DEF LivePush
  <1>1. p.t \in selected /\ p.t \in Tags
    BY DEF Managed, TypeInv
  <1>2. [p EXCEPT !.stage = "applied"].t = p.t
    BY DEF TypeInv, ClientPushes, RowPushes, DelPushes
  <1>3. \A q \in pushes' : q.t \in selected
    BY <1>1, <1>2 DEF PushApplied, PushReturned, PushFailed, Managed
  <1>4. \A t \in Tags : t # p.t => node'[t] = node[t]
    BY DEF PushApplied, PushReturned, PushFailed, TypeInv, Rows
  <1>5. UNCHANGED <<central, selected, toggle, job, setup>>
    BY DEF PushApplied, PushReturned, PushFailed, nodeRow, rest
  <1>. QED
    BY <1>1, <1>3, <1>4, <1>5 DEF Managed, UnmanagedLeftAlone, Reconciling

\* The reconcile writes rows it read and sweeps tags it may.
LEMMA ManagedReconcile == ASSUME TypeInv, Managed, JobLoad \/ Reconcile PROVE Managed'
  <1> USE DEF nodeRow, rest, Reconciling
  <1>1. CASE JobLoad
    BY <1>1, ManagedByJob DEF JobLoad
  <1>2. CASE ReconcileRead
    BY <1>2, ManagedByJob DEF ReconcileRead, Managed
  <1>3. CASE ReconcileList
    BY <1>3, ManagedByJob DEF ReconcileList, Managed
  <1>4. CASE ReconcileListFailed
    BY <1>4, ManagedByJob DEF ReconcileListFailed, Managed
  <1>5. ASSUME NEW t \in Tags, ReconcileInbound(t) PROVE Managed'
    <2>1. job \in PushJob
      BY <1>5, JobShapes DEF ReconcileInbound, TypeInv
    <2>2. job'.pc = job.pc /\ job'.selected = job.selected /\ job'.rows = job.rows
          /\ job'.todo \subseteq job.todo
      <3>1. [job EXCEPT !.todo = @ \ {t}].todo = job.todo \ {t}
        BY <2>1 DEF PushJob
      <3>2. [job EXCEPT !.todo = @ \ {t}, !.sent = {t}].todo = job.todo \ {t}
        BY <2>1 DEF PushJob
      <3>. QED
        BY <1>5, <2>1, <3>1, <3>2 DEF ReconcileInbound, PushJob
    <2>3. t \in selected
      BY <1>5 DEF ReconcileInbound, Managed
    <2>4. \A u \in Tags : u # t => node'[u] = node[u]
      BY <1>5 DEF ReconcileInbound, TypeInv, Rows
    <2>. QED
      BY <1>5, <2>2, <2>3, <2>4 DEF ReconcileInbound, Managed, UnmanagedLeftAlone
  <1>6. ASSUME NEW t \in Tags, ReconcileRecord(t) \/ ReconcileInboundFailed(t) PROVE Managed'
    <2>1. job \in PushJob
      BY <1>6, JobShapes DEF ReconcileRecord, ReconcileInboundFailed, TypeInv
    <2>2. job'.pc = job.pc /\ job'.selected = job.selected /\ job'.rows = job.rows
          /\ job'.todo \subseteq job.todo
      BY <1>6, <2>1 DEF ReconcileRecord, ReconcileInboundFailed, PushJob
    <2>. QED
      BY <1>6, <2>2, ManagedByJob DEF ReconcileRecord, ReconcileInboundFailed, Managed
  <1>7. CASE ReconcileSwept
    <2>1. job \in PushJob
      BY <1>7, JobShapes DEF ReconcileSwept, TypeInv
    <2>2. job'.pc \in {"fetch", "clear"} /\ job'.selected = job.selected
      BY <1>7, <2>1 DEF ReconcileSwept, PushJob
    <2>3. job.selected \subseteq selected
      BY <1>7 DEF ReconcileSwept, Managed
    <2>4. Sweepable \subseteq selected
      BY <2>3 DEF Sweepable
    <2>5. \A t \in Tags \ selected : node'[t] = node[t]
      BY <1>7, <2>4 DEF ReconcileSwept
    <2>. QED
      BY <1>7, <2>2, <2>3, <2>5 DEF ReconcileSwept, Managed, UnmanagedLeftAlone
  <1>8. CASE ClearNodeDirty
    <2>1. job \in PushJob
      BY <1>8, JobShapes DEF ClearNodeDirty, TypeInv
    <2>2. job'.pc = "fetch" /\ job'.selected = job.selected
      BY <1>8, <2>1 DEF ClearNodeDirty, PushJob
    <2>. QED
      BY <1>8, <2>2, ManagedByJob DEF ClearNodeDirty, Managed
  <1>. QED
    BY <1>1, <1>2, <1>3, <1>4, <1>5, <1>6, <1>7, <1>8 DEF Reconcile

\* The snapshot is filtered by the selected tags, and so is what a merge imports.
LEMMA ManagedMerge == ASSUME TypeInv, Managed, Merge PROVE Managed'
  <1> USE DEF nodeRow, rest, Reconciling
  <1>1. ASSUME NEW empty \in BOOLEAN, FetchSnapshot(empty) PROVE Managed'
    <2>1. job.selected \subseteq selected
      BY <1>1 DEF FetchSnapshot, Managed
    <2>2. Present(job'.snap) \subseteq selected
      BY <1>1, <2>1 DEF FetchSnapshot, Present
    <2>3. job'.pc = "sample"
      BY <1>1 DEF FetchSnapshot
    <2>. QED
      BY <1>1, <2>2, <2>3, ManagedByJob DEF FetchSnapshot
  <1>2. CASE FetchFailed \/ MergeFailed
    BY <1>2, ManagedByJob DEF FetchFailed, MergeFailed, Idle
  <1>3. CASE SampleDirty
    BY <1>3, ManagedByJob DEF SampleDirty, Managed
  <1>4. CASE MergeBegin
    BY <1>4, ManagedByJob DEF MergeBegin, Managed
  <1>5. CASE MergeCommit
    <2>1. \A t \in Tags : Merged(t) # None => central[t] # None \/ job.snap[t] # None
      BY DEF Merged
    <2>2. Present(central') \subseteq selected
      BY <1>5, <2>1 DEF MergeCommit, Managed, Present
    <2>3. job'.pc = "adopt" /\ UNCHANGED <<node, selected, pushes, toggle, setup>>
      BY <1>5 DEF MergeCommit
    <2>. QED
      BY <2>2, <2>3 DEF Managed, UnmanagedLeftAlone
  <1>6. CASE MarkNodeInboundsAdopted
    BY <1>6, ManagedByJob DEF MarkNodeInboundsAdopted, Idle
  <1>. QED
    BY <1>1, <1>2, <1>3, <1>4, <1>5, <1>6 DEF Merge

LEMMA ManagedStep == TypeInv /\ Managed /\ [Next]_vars => Managed'
  <1> SUFFICES ASSUME TypeInv, Managed, [Next]_vars PROVE Managed'
    OBVIOUS
  <1>1. ASSUME NEW up \in BOOLEAN, Heartbeat(up) PROVE Managed'
    BY <1>1 DEF Heartbeat, nodeRow, rest, Managed, Reconciling, UnmanagedLeftAlone
  <1>2. CASE PanelRestart
    BY <1>2 DEF PanelRestart, nodeRow, Managed, Reconciling, UnmanagedLeftAlone, Idle
  <1>3. CASE UNCHANGED vars
    BY <1>3 DEF vars, Managed, Reconciling, UnmanagedLeftAlone
  <1>. QED
    BY <1>1, <1>2, <1>3, ManagedEdit, ManagedPush, ManagedReconcile, ManagedMerge DEF Next

\* Whatever the faults, the interleaving and the edits: the master changes and
\* removes only inbounds whose tags the node's sync mode manages (ReconcileNode's
\* sweep, FilterNodeSnapshot, EnsureInboundTagAllowedTx).
THEOREM OnlyManagedTouched == Spec => []UnmanagedLeftAlone
  <1>1. Init => TypeInv /\ Managed
    BY TypeInit, ManagedInit
  <1>2. TypeInv /\ Managed /\ [Next]_vars => TypeInv' /\ Managed'
    BY TypeStep, ManagedStep
  <1>3. Managed => UnmanagedLeftAlone
    BY DEF Managed
  <1>. QED
    BY <1>1, <1>2, <1>3, PTL DEF Spec

----------------------------------------------------------------------------
(***************************************************************************)
(* A clean node holds the master's rows.                                   *)
(***************************************************************************)

LEMMA SyncInit == Init /\ Orderly => SyncInv
  <1> SUFFICES ASSUME Init, Orderly PROVE SyncInv
    OBVIOUS
  <1> USE DEF Kept
  <1>1. setup \in Setups /\ central = setup.central /\ node = setup.node
    BY DEF Init
  <1>2. \A t \in Tags : central[t] # None => Delivered(central[t], node[t])
    BY <1>1, NodeSyncAssumption
  <1>3. NodeInStep
    BY <1>2 DEF NodeInStep, Init
  <1>4. Deletions
    BY <1>1 DEF Init, Orderly, Deletions, Reconciling, Idle
  <1>5. Fingerprints
    BY DEF Init, Fingerprints, NoRows
  <1>6. job.pc = "idle"
    BY DEF Init, Idle
  <1>. QED
    BY <1>3, <1>4, <1>5, <1>6 DEF SyncInv, Stamps, Reconciling, CleanInStep, ReadRows,
      Progress, Snapshot, Merging

\* Without the fault of two edits in one millisecond, an edit's stamp is new.
LEMMA NewStamp ==
    ASSUME TypeInv, Orderly, MarkNodeDirty
    PROVE  dirty' = TRUE /\ dirtyAt' = dirtyAt + 1 /\ dirtyAt + 1 > dirtyAt /\ adopted' = adopted
  BY DEF MarkNodeDirty, Orderly, TypeInv

\* After a stamped edit nothing the job holds is current.
LEMMA StampedNotCurrent ==
    ASSUME TypeInv, Orderly, Stamps, MarkNodeDirty, job' = job
    PROVE  ~Current' /\ dirty' /\ (Reconciling => job.at \in Nat /\ job.at <= dirtyAt')
  <1>1. dirty' = TRUE /\ dirtyAt' = dirtyAt + 1 /\ dirtyAt \in Nat
    BY NewStamp DEF TypeInv
  <1>2. ASSUME Reconciling PROVE job.at \in Nat /\ job.at <= dirtyAt
    <2>1. job \in LoadJob \cup ListJob \cup PushJob
      BY <1>2, JobShapes DEF Reconciling, TypeInv
    <2>. QED
      BY <1>2, <2>1 DEF LoadJob, ListJob, PushJob, Stamps
  <1>. QED
    BY <1>1, <1>2 DEF Current, Reconciling

\* An edit that stamps the node and leaves a row under its tag.
LEMMA SyncStamped ==
    ASSUME TypeInv, Managed, Orderly, SyncInv, NEW t \in Tags, MarkNodeDirty,
           UNCHANGED <<node, fp, pushes, toggle, job, gone, missed, setup>>,
           selected \subseteq selected',
           \A u \in Tags : u # t => central'[u] = central[u],
           central'[t] # None, t \in Kept => t \notin gone, job.pc # "merging"
    PROVE  SyncInv'
  <1> USE DEF Kept
  <1>1. ~Current' /\ dirty' /\ (Reconciling => job.at \in Nat /\ job.at <= dirtyAt')
    BY StampedNotCurrent DEF SyncInv
  <1>2. adopted' = adopted
    BY NewStamp
  <1>3. Deletions'
    BY <1>2 DEF SyncInv, Deletions, Reconciling, Present, TypeInv
  <1>4. Fingerprints'
    BY DEF SyncInv, Fingerprints
  <1>5. Stamps'
    BY <1>1 DEF Stamps, Reconciling
  <1>6. CleanInStep' /\ Snapshot' /\ Merging'
    BY <1>1 DEF CleanInStep, Snapshot, Merging
  <1>7. ReadRows'
    BY <1>1 DEF SyncInv, ReadRows
  <1>8. Progress'
    BY <1>1 DEF SyncInv, Progress
  <1>. QED
    BY <1>3, <1>4, <1>5, <1>6, <1>7, <1>8 DEF SyncInv

\* The edits of an orderly behaviour.
LEMMA SyncEdit == ASSUME TypeInv, TypeInv', Managed, Orderly, SyncInv, MasterEdit PROVE SyncInv'
  <1> USE DEF Kept
  <1>0. "client" \notin setup.kinds /\ "enable" \notin setup.kinds /\ toggle = None
        /\ ("del" \in setup.kinds => "add" \notin setup.kinds)
    BY DEF Orderly, SyncInv, Deletions
  <1>1. ASSUME NEW t \in Tags, NEW v \in Vals, UpdateInbound(t, v) PROVE SyncInv'
    <2>1. \A u \in Tags : u # t => central'[u] = central[u]
      BY <1>1 DEF UpdateInbound, TypeInv, Rows
    <2>2. central[t] \in Row /\ (t \in Kept => t \notin gone)
      BY <1>1, RowsGet DEF UpdateInbound, TypeInv, SyncInv, Deletions
    <2>3. central'[t] = [central[t] EXCEPT !.v = v]
      BY <1>1 DEF UpdateInbound, TypeInv, Rows
    <2>4. central'[t] # None
      <3>1. [central[t] EXCEPT !.v = v] \in Row
        BY <2>2, RowParts
      <3>. QED
        BY <2>3, <3>1, NodeSyncAssumption
    <2>. QED
      BY <1>1, <2>1, <2>2, <2>4, SyncStamped
         DEF UpdateInbound, EnsureInboundTagAllowed, WriterFree, rest
  <1>2. ASSUME NEW t \in Tags, NEW cs \in SUBSET Clients, BulkClients(t, cs) PROVE SyncInv'
    <2>1. \A u \in Tags : u # t => central'[u] = central[u]
      BY <1>2 DEF BulkClients, TypeInv, Rows
    <2>2. central[t] \in Row /\ (t \in Kept => t \notin gone)
      BY <1>2, RowsGet DEF BulkClients, TypeInv, SyncInv, Deletions
    <2>3. central'[t] = WithClients(central[t], cs)
      BY <1>2 DEF BulkClients, TypeInv, Rows
    <2>4. central'[t] # None
      BY <2>2, <2>3, RowParts, NodeSyncAssumption
    <2>. QED
      BY <1>2, <2>1, <2>2, <2>4, SyncStamped DEF BulkClients, WriterFree, rest
  <1>3. ASSUME NEW t \in Tags, NEW v \in Vals, NEW enable \in BOOLEAN,
               AddInbound(t, v, enable)
        PROVE  SyncInv'
    <2>1. \A u \in Tags : u # t => central'[u] = central[u]
      BY <1>3 DEF AddInbound, TypeInv, Rows
    <2>2. gone = {} /\ gone' = gone
      BY <1>0, <1>3 DEF AddInbound, Edit, SyncInv, Deletions
    <2>3. central'[t] = [v |-> v, enable |-> enable, clients |-> {}]
      BY <1>3 DEF AddInbound, TypeInv, Rows
    <2>4. central'[t] # None /\ central'[t].enable = enable
      BY <2>3, NodeSyncAssumption DEF Row
    <2>5. CASE enable
      BY <1>3, <2>1, <2>2, <2>4, <2>5, SyncStamped
         DEF AddInbound, EnsureInboundTagAllowed, WriterFree, rest
    <2>6. CASE ~enable
      <3>1. /\ UNCHANGED <<dirty, dirtyAt, adopted, node, fp, pushes, toggle, job, setup>>
            /\ missed' = missed /\ selected \subseteq selected' /\ job.pc # "merging"
        BY <1>3, <2>6 DEF AddInbound, EnsureInboundTagAllowed, WriterFree, rest
      <3>2. ~central'[t].enable /\ central[t] = None /\ node[t] = None
        BY <1>3, <2>4, <2>6 DEF AddInbound, Edit, SyncInv, Deletions, Present
      <3>3. Current' = Current /\ Reconciling' = Reconciling
        BY <3>1 DEF Current, Reconciling
      <3>4. Deletions'
        BY <2>1, <2>2, <2>4, <3>1, <3>3 DEF SyncInv, Deletions, Present
      <3>5. Fingerprints'
        BY <2>1, <2>2, <2>4, <3>1 DEF SyncInv, Fingerprints
      <3>6. Stamps'
        BY <2>1, <2>2, <3>1, <3>2, <3>3 DEF SyncInv, Stamps
      <3>7. CleanInStep'
        <4>1. NodeInStep => NodeInStep'
          BY <2>1, <2>2, <3>1, <3>2 DEF NodeInStep, Delivered
        <4>. QED
          BY <3>1, <3>3, <4>1 DEF SyncInv, CleanInStep
      <3>8. ReadRows'
        BY <2>1, <2>2, <2>4, <3>1, <3>2, <3>3 DEF SyncInv, ReadRows
      <3>9. Progress'
        BY <2>2, <3>1, <3>3 DEF SyncInv, Progress
      <3>10. Snapshot'
        BY <2>1, <3>1, <3>2 DEF SyncInv, Snapshot
      <3>11. Merging'
        BY <3>1 DEF Merging
      <3>. QED
        BY <3>4, <3>5, <3>6, <3>7, <3>8, <3>9, <3>10, <3>11 DEF SyncInv
    <2>. QED
      BY <2>5, <2>6
  <1>4. ASSUME NEW t \in Tags, DelInbound(t) PROVE SyncInv'
    <2>1. /\ \A u \in Tags : u # t => central'[u] = central[u]
          /\ central'[t] = None /\ central[t] # None
      BY <1>4 DEF DelInbound, TypeInv, Rows
    <2>2. /\ UNCHANGED <<selected, node, fp, toggle, job, missed, setup>> /\ gone' = gone \cup {t}
          /\ "del" \in setup.kinds /\ MarkNodeDirty
      BY <1>4 DEF DelInbound, Edit, rest
    <2>3. ~Current' /\ dirty' /\ (Reconciling => job.at \in Nat /\ job.at <= dirtyAt')
      BY <2>2, StampedNotCurrent DEF SyncInv
    <2>4. adopted' = adopted
      BY <2>2, NewStamp
    <2>5. Deletions'
      <3>1. \A p \in pushes' : p.kind = "delInbound" /\ p.t \in gone'
        BY <1>4, <2>2 DEF DelInbound, SyncInv, Deletions
      <3>2. \A u \in gone' : u \in selected' /\ (u \in Kept' => central'[u] = None)
        BY <2>1, <2>2 DEF SyncInv, Deletions, Managed, Present, TypeInv
      <3>. QED
        BY <1>0, <2>2, <2>4, <3>1, <3>2 DEF SyncInv, Deletions, Reconciling
    <2>6. Fingerprints'
      BY <2>1, <2>2 DEF SyncInv, Fingerprints
    <2>7. Stamps'
      BY <2>2, <2>3 DEF Stamps, Reconciling
    <2>8. CleanInStep' /\ Snapshot'
      BY <2>3 DEF CleanInStep, Snapshot
    <2>9. ReadRows'
      BY <2>1, <2>2, <2>3 DEF SyncInv, ReadRows
    <2>10. Progress'
      BY <2>2, <2>3 DEF SyncInv, Progress
    <2>11. Merging'
      BY <2>1, <2>2 DEF SyncInv, Merging
    <2>. QED
      BY <2>5, <2>6, <2>7, <2>8, <2>9, <2>10, <2>11 DEF SyncInv
  <1>5. ASSUME NEW t \in Tags, NEW c \in Clients,
               AddInboundClient(t, c) \/ DelInboundClientByEmail(t, c)
        PROVE  FALSE
    BY <1>0, <1>5 DEF AddInboundClient, DelInboundClientByEmail, EditClient, Edit
  <1>6. ASSUME NEW t \in Tags, SetInboundEnableRead(t) PROVE FALSE
    BY <1>0, <1>6 DEF SetInboundEnableRead, Edit
  <1>7. ~SetInboundEnableCommit
    BY <1>0 DEF SetInboundEnableCommit
  <1>. QED
    BY <1>1, <1>2, <1>3, <1>4, <1>5, <1>6, <1>7 DEF MasterEdit

\* The only pushes outside the job are deletions of inbounds the master dropped.
LEMMA SyncPush == ASSUME TypeInv, Orderly, SyncInv, LivePush PROVE SyncInv'
  <1> PICK p \in pushes : PushApplied(p) \/ PushReturned(p) \/ PushFailed(p)
    BY DEF LivePush
  <1> USE DEF Kept
  <1>1. p.kind = "delInbound" /\ p.t \in gone /\ p.t \in Tags
        /\ (p.t \in Kept => central[p.t] = None)
    BY DEF SyncInv, Deletions, TypeInv
  <1>2. UNCHANGED <<central, dirty, dirtyAt, adopted, selected, toggle, job, gone, missed, setup>>
    BY DEF PushApplied, PushReturned, PushFailed, nodeRow, rest
  <1>3. \A t \in Tags : fp'[t] = fp[t] \/ (t = p.t /\ fp'[t] = None)
    BY <1>1 DEF PushApplied, PushReturned, PushFailed, Recorded, TypeInv, Rows
  <1>4. Applied(p) = None
    BY <1>1 DEF Applied
  <1>5. \A t \in Tags : node'[t] = node[t] \/ (t = p.t /\ node'[t] = None)
    BY <1>4 DEF PushApplied, PushReturned, PushFailed, TypeInv, Rows
  <1>6. \A q \in pushes' : q.kind = "delInbound" /\ q.t \in gone
    <2>1. LET q == [p EXCEPT !.stage = "applied"] IN q.kind = p.kind /\ q.t = p.t
      BY DEF TypeInv, ClientPushes, RowPushes, DelPushes
    <2>. QED
      BY <1>1, <2>1 DEF PushApplied, PushReturned, PushFailed, SyncInv, Deletions
  <1>7. Current' = Current /\ Reconciling' = Reconciling
    BY <1>2 DEF Current, Reconciling
  <1>8. Deletions'
    BY <1>2, <1>5, <1>6, <1>7 DEF SyncInv, Deletions, Present
  <1>9. Fingerprints'
    BY <1>1, <1>2, <1>3, <1>5 DEF SyncInv, Fingerprints
  <1>10. Stamps'
    BY <1>2, <1>7 DEF SyncInv, Stamps
  <1>11. CleanInStep'
    <2>1. NodeInStep => NodeInStep'
      BY <1>1, <1>2, <1>5 DEF NodeInStep
    <2>. QED
      BY <1>2, <1>7, <2>1 DEF SyncInv, CleanInStep
  <1>12. ReadRows'
    BY <1>1, <1>2, <1>3, <1>5, <1>7 DEF SyncInv, ReadRows
  <1>13. Progress'
    BY <1>1, <1>2, <1>5, <1>7 DEF SyncInv, Progress, ReadRows
  <1>14. Snapshot'
    <2>1. ~dirty /\ p.t \in Kept => node[p.t] = None
      BY <1>1 DEF SyncInv, CleanInStep, NodeInStep
    <2>. QED
      BY <1>2, <1>5, <2>1 DEF SyncInv, Snapshot
  <1>15. Merging'
    BY <1>1, <1>2, <1>5 DEF SyncInv, Merging
  <1>. QED
    BY <1>8, <1>9, <1>10, <1>11, <1>12, <1>13, <1>14, <1>15 DEF SyncInv

\* The job loads the node row and reads the rows it will push.
LEMMA SyncLoad ==
    ASSUME TypeInv, Managed, Orderly, SyncInv,
           JobLoad \/ ReconcileRead \/ ReconcileList \/ ReconcileListFailed
    PROVE  SyncInv'
  <1> USE DEF Kept
  <1>1. UNCHANGED <<central, node, fp, dirty, dirtyAt, adopted, selected, pushes, toggle, gone,
                    missed, setup>>
    BY DEF JobLoad, ReconcileRead, ReconcileList, ReconcileListFailed, nodeRow, rest
  <1>2. job.pc # "push" /\ job'.pc # "clear" /\ job'.pc \notin {"sample", "merge", "merging"}
    BY DEF JobLoad, ReconcileRead, ReconcileList, ReconcileListFailed
  <1>3. CleanInStep' /\ Snapshot' /\ Merging'
    BY <1>1, <1>2 DEF SyncInv, CleanInStep, NodeInStep, Snapshot, Merging
  <1>4. Fingerprints'
    <2>1. job'.pc = "push" => job'.sent = {}
      BY DEF JobLoad, ReconcileRead, ReconcileList, ReconcileListFailed
    <2>. QED
      BY <1>1, <1>2, <2>1 DEF SyncInv, Fingerprints
  <1>5. CASE JobLoad
    <2>1. /\ job'.pc = IF dirty THEN "read" ELSE "fetch"
          /\ job'.at = dirtyAt /\ job'.adopted = adopted /\ job'.selected = selected
      BY <1>5 DEF JobLoad
    <2>2. Deletions'
      BY <1>1, <2>1 DEF SyncInv, Deletions
    <2>3. Stamps'
      <3>1. gone \subseteq selected /\ dirtyAt <= dirtyAt
            /\ \A t \in Tags : central[t] # None => t \in selected
        BY DEF SyncInv, Deletions, Managed, Present, TypeInv
      <3>2. Reconciling' => dirty
        BY <2>1 DEF Reconciling
      <3>. QED
        BY <1>1, <2>1, <3>1, <3>2 DEF Stamps
    <2>4. ReadRows' /\ Progress'
      BY <2>1 DEF ReadRows, Progress
    <2>. QED
      BY <1>3, <1>4, <2>2, <2>3, <2>4 DEF SyncInv
  <1>6. CASE ReconcileRead
    <2>1. /\ job.pc = "read" /\ job'.pc = "list" /\ job'.rows = central
          /\ job'.at = job.at /\ job'.adopted = job.adopted /\ job'.selected = job.selected
      BY <1>6 DEF ReconcileRead
    <2>2. Reconciling /\ Reconciling' /\ Current' = Current
      BY <1>1, <2>1 DEF Reconciling, Current
    <2>3. Deletions' /\ Stamps' /\ Progress'
      BY <1>1, <2>1, <2>2 DEF SyncInv, Deletions, Stamps, Progress
    <2>4. ReadRows'
      BY <1>1, <2>1 DEF SyncInv, Deletions, Fingerprints, ReadRows, Present
    <2>. QED
      BY <1>3, <1>4, <2>3, <2>4 DEF SyncInv
  <1>7. CASE ReconcileList
    <2>1. /\ job.pc = "list" /\ job'.pc = "push" /\ job'.rows = job.rows
          /\ job'.at = job.at /\ job'.adopted = job.adopted /\ job'.selected = job.selected
          /\ job'.remote = Present(node) /\ job'.todo = Present(job.rows) /\ job'.sent = {}
      BY <1>7 DEF ReconcileList
    <2>2. Reconciling /\ Reconciling' /\ Current' = Current
      BY <1>1, <2>1 DEF Reconciling, Current
    <2>3. Deletions' /\ Stamps' /\ ReadRows'
      BY <1>1, <2>1, <2>2 DEF SyncInv, Deletions, Stamps, ReadRows
    <2>4. Progress'
      BY <1>1, <2>1 DEF SyncInv, Deletions, ReadRows, Progress, Present, TypeInv
    <2>. QED
      BY <1>3, <1>4, <2>3, <2>4 DEF SyncInv
  <1>8. CASE ReconcileListFailed
    <2>1. /\ job.pc = "list" /\ job'.pc = "fetch"
          /\ job'.adopted = job.adopted /\ job'.selected = job.selected
      BY <1>8 DEF ReconcileListFailed
    <2>2. Reconciling /\ ~Reconciling' /\ dirty
      BY <2>1 DEF SyncInv, Reconciling, Stamps
    <2>3. Deletions' /\ ReadRows' /\ Progress'
      BY <1>1, <2>1, <2>2 DEF SyncInv, Deletions, ReadRows, Progress
    <2>4. Stamps'
      BY <1>1, <2>2 DEF Stamps, Current
    <2>. QED
      BY <1>3, <1>4, <2>3, <2>4 DEF SyncInv
  <1>. QED
    BY <1>5, <1>6, <1>7, <1>8

\* The reconcile delivers, skips or fails to deliver one row.
LEMMA SyncReconcileRow ==
    ASSUME TypeInv, Managed, Orderly, SyncInv, NEW t \in Tags,
           ReconcileInbound(t) \/ ReconcileRecord(t) \/ ReconcileInboundFailed(t)
    PROVE  SyncInv'
  <1> USE DEF Kept
  <1>1. job \in PushJob /\ job.pc = "push"
    BY JobShapes DEF ReconcileInbound, ReconcileRecord, ReconcileInboundFailed, TypeInv
  <1>2. UNCHANGED <<central, dirty, dirtyAt, adopted, selected, pushes, toggle, gone, missed, setup>>
    BY DEF ReconcileInbound, ReconcileRecord, ReconcileInboundFailed, nodeRow, rest
  <1>3. /\ job'.pc = "push" /\ job'.at = job.at /\ job'.adopted = job.adopted
        /\ job'.selected = job.selected /\ job'.rows = job.rows /\ job'.remote = job.remote
    BY <1>1 DEF ReconcileInbound, ReconcileRecord, ReconcileInboundFailed, PushJob
  <1>4. Reconciling /\ Reconciling' /\ Current' = Current
    BY <1>1, <1>2, <1>3 DEF Reconciling, Current
  <1>5. Stamps' /\ Snapshot' /\ Merging' /\ dirty
    BY <1>1, <1>2, <1>3, <1>4 DEF SyncInv, Stamps, Snapshot, Merging
  <1>6. CleanInStep'
    BY <1>2, <1>3, <1>5 DEF CleanInStep
  <1>7. job.todo \subseteq Present(job.rows) /\ job.sent \subseteq Present(job.rows)
    BY <1>1 DEF Managed, SyncInv, Progress
  <1>8. CASE ReconcileInbound(t) /\ Unchanged(t)
    <2>1. /\ node' = node /\ fp' = fp /\ job.sent = {} /\ t \in job.todo
          /\ job' = [job EXCEPT !.todo = @ \ {t}] /\ fp[t] = job.rows[t]
      BY <1>8 DEF ReconcileInbound, Unchanged
    <2>2. job'.todo = job.todo \ {t} /\ job'.sent = {} /\ job'.failed = job.failed
      BY <1>1, <2>1 DEF PushJob
    <2>3. Deletions' /\ Fingerprints' /\ ReadRows'
      BY <1>1, <1>2, <1>3, <1>4, <2>1, <2>2 DEF SyncInv, Deletions, Fingerprints, ReadRows
    <2>4. Current /\ t \in Kept => node[t] = job.rows[t]
      <3>1. job.rows[t] # None
        BY <1>7, <2>1 DEF Present
      <3>2. Current /\ t \in Kept => t \notin gone
        BY <1>1, <3>1 DEF SyncInv, ReadRows, Deletions
      <3>. QED
        BY <2>1, <3>1, <3>2 DEF SyncInv, Fingerprints
    <2>5. Progress'
      BY <1>1, <1>2, <1>3, <1>4, <2>1, <2>2, <2>4 DEF SyncInv, Progress
    <2>. QED
      BY <1>5, <1>6, <2>3, <2>5 DEF SyncInv
  <1>9. CASE ReconcileInbound(t) /\ ~Unchanged(t)
    <2>1. /\ node' = [node EXCEPT ![t] = job.rows[t]] /\ fp' = fp /\ job.sent = {}
          /\ t \in job.todo /\ job' = [job EXCEPT !.todo = @ \ {t}, !.sent = {t}]
      BY <1>9 DEF ReconcileInbound
    <2>2. job'.todo = job.todo \ {t} /\ job'.sent = {t} /\ job'.failed = job.failed
      BY <1>1, <2>1 DEF PushJob
    <2>3. job.rows[t] # None /\ t \in Present(job.rows)
      BY <1>7, <2>1 DEF Present
    <2>4. node'[t] = job.rows[t] /\ \A u \in Tags : u # t => node'[u] = node[u]
      BY <2>1 DEF TypeInv, Rows
    <2>5. Deletions'
      <3>1. "add" \in setup.kinds => gone = {}
        BY DEF SyncInv, Deletions, Orderly
      <3>2. "add" \in setup.kinds => central[t] # None
        BY <1>1, <2>3, <3>1 DEF SyncInv, ReadRows, Deletions
      <3>3. "add" \in setup.kinds => Present(node') \subseteq Present(central)
        BY <2>4, <3>2 DEF SyncInv, Deletions, Present
      <3>. QED
        BY <1>2, <1>3, <1>4, <3>3 DEF SyncInv, Deletions
    <2>6. Fingerprints'
      BY <1>2, <1>3, <2>1, <2>2, <2>4 DEF SyncInv, Fingerprints
    <2>7. ReadRows'
      BY <1>1, <1>2, <1>3, <1>4, <2>1, <2>3, <2>4 DEF SyncInv, ReadRows
    <2>8. Progress'
      BY <1>1, <1>2, <1>3, <1>4, <2>1, <2>2, <2>3, <2>4 DEF SyncInv, Progress
    <2>. QED
      BY <1>5, <1>6, <2>5, <2>6, <2>7, <2>8 DEF SyncInv
  <1>10. CASE ReconcileRecord(t)
    <2>1. /\ fp' = [fp EXCEPT ![t] = job.rows[t]] /\ node' = node
          /\ t \in job.sent /\ job' = [job EXCEPT !.sent = {}]
      BY <1>10 DEF ReconcileRecord
    <2>2. job'.todo = job.todo /\ job'.sent = {} /\ job'.failed = job.failed
      BY <1>1, <2>1 DEF PushJob
    <2>3. fp'[t] = job.rows[t] /\ \A u \in Tags : u # t => fp'[u] = fp[u]
      BY <2>1 DEF TypeInv, Rows
    <2>4. job.rows[t] # None
      BY <1>7, <2>1 DEF Present
    <2>5. Deletions'
      BY <1>2, <1>3, <1>4, <2>1 DEF SyncInv, Deletions
    <2>6. job.sent = {t}
      BY <1>1, <2>1 DEF SyncInv, Progress
    <2>7. Fingerprints'
      BY <1>1, <1>2, <1>3, <2>1, <2>2, <2>3, <2>4, <2>6
         DEF SyncInv, Fingerprints, Progress, ReadRows
    <2>8. ReadRows'
      BY <1>1, <1>2, <1>3, <1>4, <2>1, <2>3, <2>4 DEF SyncInv, ReadRows
    <2>9. Progress'
      BY <1>1, <1>2, <1>3, <1>4, <2>1, <2>2 DEF SyncInv, Progress
    <2>. QED
      BY <1>5, <1>6, <2>5, <2>7, <2>8, <2>9 DEF SyncInv
  <1>11. CASE ReconcileInboundFailed(t)
    <2>1. /\ fp' = fp /\ node' = node /\ job.sent = {}
          /\ job' = [job EXCEPT !.todo = @ \ {t}, !.sent = {}, !.failed = TRUE]
      BY <1>11 DEF ReconcileInboundFailed, Orderly
    <2>2. job'.sent = {} /\ job'.failed
      BY <1>1, <2>1 DEF PushJob
    <2>3. Deletions' /\ Fingerprints' /\ ReadRows'
      BY <1>1, <1>2, <1>3, <1>4, <2>1, <2>2 DEF SyncInv, Deletions, Fingerprints, ReadRows
    <2>4. Progress'
      BY <1>1, <1>2, <1>3, <1>4, <2>1, <2>2 DEF SyncInv, Progress
    <2>. QED
      BY <1>5, <1>6, <2>3, <2>4 DEF SyncInv
  <1>. QED
    BY <1>8, <1>9, <1>10, <1>11

\* The sweep removes what the master deleted; after a whole reconcile with no
\* edit in between the node holds the master's rows.
LEMMA SyncSwept == ASSUME TypeInv, Managed, Orderly, SyncInv, ReconcileSwept PROVE SyncInv'
  <1> USE DEF Kept
  <1>1. job \in PushJob /\ job.pc = "push" /\ job.todo = {} /\ job.sent = {}
    BY JobShapes DEF ReconcileSwept, TypeInv
  <1>2. UNCHANGED <<central, dirty, dirtyAt, adopted, selected, pushes, toggle, gone, setup>>
    BY DEF ReconcileSwept, nodeRow
  <1>3. PICK swept \in SUBSET Sweepable, skipped \in SUBSET Sweepable :
           /\ node' = [t \in Tags |-> IF t \in swept THEN None ELSE node[t]]
           /\ fp' = [t \in Tags |-> IF t \in swept THEN None ELSE fp[t]]
           /\ job' = [job EXCEPT !.pc = IF job.failed \/ swept \cup skipped # Sweepable
                                          THEN "fetch" ELSE "clear"]
           /\ missed' = IF job'.pc = "clear" THEN missed \cup skipped ELSE missed
    BY DEF ReconcileSwept, Orderly
  <1>4. /\ job'.pc = IF job.failed \/ swept \cup skipped # Sweepable THEN "fetch" ELSE "clear"
        /\ job'.at = job.at /\ job'.adopted = job.adopted /\ job'.selected = job.selected
        /\ missed \subseteq missed' /\ (job'.pc = "clear" => skipped \subseteq missed')
        /\ missed' \subseteq missed \cup Sweepable
    BY <1>1, <1>3 DEF PushJob
  <1>5. \A t \in Tags : t \in swept => job.rows[t] = None
    BY DEF Sweepable, Present
  <1>6. \A t \in Tags : /\ node'[t] = IF t \in swept THEN None ELSE node[t]
                       /\ fp'[t] = IF t \in swept THEN None ELSE fp[t]
    BY <1>3
  <1>7. Reconciling /\ dirty /\ job'.pc \in {"fetch", "clear"}
    BY <1>1, <1>4 DEF SyncInv, Stamps, Reconciling
  <1>8. Current' => Current /\ job'.pc = "clear"
    BY <1>2, <1>4, <1>7 DEF Current, Reconciling
  <1>9. Deletions'
    <2>1. "add" \in setup.kinds => Sweepable = {}
      BY <1>1 DEF SyncInv, Progress, Sweepable
    <2>. QED
      BY <1>2, <1>4, <1>6, <1>7, <2>1 DEF SyncInv, Deletions, Present, Reconciling
  <1>10. Fingerprints'
    BY <1>1, <1>2, <1>4, <1>5, <1>6, <1>7 DEF SyncInv, Fingerprints, ReadRows
  <1>11. Stamps'
    <2>1. Reconciling' => dirty' /\ job'.at <= dirtyAt'
      BY <1>2, <1>4, <1>7 DEF SyncInv, Stamps
    <2>. QED
      BY <1>2, <1>4, <1>7, <1>8, <2>1 DEF SyncInv, Stamps
  <1>12. ReadRows' /\ Progress' /\ Snapshot' /\ Merging'
    BY <1>7 DEF ReadRows, Progress, Snapshot, Merging
  <1>13. CleanInStep'
    <2> SUFFICES ASSUME job'.pc = "clear", Current, NEW t \in Tags, t \notin missed'
                 PROVE  /\ central[t] # None => Delivered(central[t], node'[t])
                        /\ t \in gone => node'[t] = None
      BY <1>2, <1>7, <1>8 DEF CleanInStep, NodeInStep
    <2>1. ~job.failed /\ swept \cup skipped = Sweepable /\ t \notin skipped /\ t \in Kept
      BY <1>4
    <2>2. CASE job.rows[t] # None
      <3>1. central[t] = job.rows[t] /\ node[t] = job.rows[t] /\ t \notin swept
        BY <1>1, <1>5, <2>1, <2>2 DEF SyncInv, ReadRows, Progress
      <3>. QED
        BY <1>6, <2>1, <2>2, <3>1 DEF Delivered, SyncInv, Deletions
    <2>3. CASE job.rows[t] = None
      <3>1. central[t] # None => Delivered(central[t], node'[t])
        BY <1>1, <1>6, <2>1, <2>3 DEF SyncInv, ReadRows, Delivered
      <3>2. ASSUME t \in gone PROVE node'[t] = None
        <4>1. job.adopted
          BY <1>7, <3>2 DEF SyncInv, Deletions, Orderly
        <4>2. t \in job.selected
          BY <1>7, <3>2 DEF SyncInv, Stamps
        <4>3. t \in job.remote => t \in Sweepable
          BY <2>3, <4>1, <4>2 DEF Sweepable, Present
        <4>4. t \notin job.remote => node[t] = None
          BY <1>1, <2>1, <2>3 DEF SyncInv, Progress
        <4>. QED
          BY <1>6, <2>1, <4>3, <4>4
      <3>. QED
        BY <3>1, <3>2
    <2>. QED
      BY <2>2, <2>3
  <1>. QED
    BY <1>9, <1>10, <1>11, <1>12, <1>13 DEF SyncInv

\* The flag goes down only if no edit stamped the node since it was loaded.
LEMMA SyncClear == ASSUME TypeInv, Orderly, SyncInv, ClearNodeDirty PROVE SyncInv'
  <1> USE DEF Kept
  <1>1. job \in PushJob /\ job.pc = "clear"
    BY JobShapes DEF ClearNodeDirty, TypeInv
  <1>2. UNCHANGED <<central, node, fp, dirtyAt, adopted, selected, pushes, toggle, gone, missed, setup>>
    BY DEF ClearNodeDirty, rest
  <1>3. /\ job'.pc = "fetch" /\ job'.adopted = job.adopted /\ job'.selected = job.selected
    BY <1>1 DEF ClearNodeDirty, PushJob
  <1>4. Reconciling /\ ~Reconciling' /\ dirty
    BY <1>1, <1>3 DEF SyncInv, Stamps, Reconciling
  <1>5. ~dirty' => Current
    BY <1>4 DEF ClearNodeDirty, Current
  <1>6. Current' => Current
    BY <1>4, <1>5 DEF Current
  <1>7. Deletions' /\ Fingerprints'
    BY <1>1, <1>2, <1>3, <1>4 DEF SyncInv, Deletions, Fingerprints
  <1>8. Stamps'
    BY <1>1, <1>2, <1>3, <1>4, <1>6 DEF SyncInv, Stamps
  <1>9. CleanInStep'
    BY <1>1, <1>2, <1>3, <1>5 DEF SyncInv, CleanInStep, NodeInStep
  <1>10. ReadRows' /\ Progress' /\ Snapshot' /\ Merging'
    BY <1>3 DEF ReadRows, Progress, Snapshot, Merging
  <1>. QED
    BY <1>7, <1>8, <1>9, <1>10 DEF SyncInv

\* The commit of a merge leaves every row the master holds as it is, and brings
\* back none it deleted; what it imports is what the node has.
LEMMA MergeKeeps ==
    ASSUME TypeInv, Orderly, SyncInv, MergeCommit, NEW t \in Kept
    PROVE  /\ central[t] # None => central'[t] = central[t]
           /\ t \in gone => central'[t] = None
           /\ central[t] = None /\ central'[t] # None => ~job.dirty /\ node[t] = central'[t]
           /\ fp'[t] = fp[t]
  <1>1. job \in MergingJob /\ job.pc = "merging" /\ t \in Tags
    BY JobShapes DEF MergeCommit, TypeInv, Kept
  <1>2. central'[t] = Merged(t) /\ fp'[t] = AdoptedFP(t)
    BY <1>1 DEF MergeCommit
  <1>3. t \in gone => central[t] = None
    BY DEF SyncInv, Deletions
  <1>4. CASE job.dirty
    <2>1. Merged(t) = central[t]
      BY <1>4 DEF Merged
    <2>2. AdoptedFP(t) = fp[t]
      BY <1>4 DEF AdoptedFP
    <2>. QED
      BY <1>2, <1>3, <2>1, <2>2
  <1>5. CASE ~job.dirty
    <2>1. /\ job.rows[t] # None => central[t] = job.rows[t] \/ (central[t] = None /\ t \in gone)
          /\ job.rows[t] = None => central[t] = None
          /\ job.snap[t] # None /\ job.rows[t] # None => job.snap[t] = job.rows[t]
          /\ job.snap[t] # None /\ job.rows[t] = None => t \notin gone
          /\ job.snap[t] # None /\ t \notin gone => node[t] = job.snap[t]
          /\ Present(job.snap) # {} /\ job.rows[t] # None /\ job.rows[t].enable =>
               job.snap[t] # None
      BY <1>1, <1>5 DEF SyncInv, Merging
    <2>2. fp'[t] = fp[t]
      BY <1>2, <2>1 DEF AdoptedFP
    <2>3. CASE job.snap[t] # None /\ job.rows[t] = None
      <3>1. Merged(t) = job.snap[t]
        BY <1>5, <2>1, <2>3 DEF Merged
      <3>. QED
        BY <1>2, <1>5, <2>1, <2>2, <2>3, <3>1
    <2>4. CASE ~(job.snap[t] # None /\ job.rows[t] = None)
      <3>1. Merged(t) = central[t]
        BY <1>5, <2>1, <2>4 DEF Merged
      <3>. QED
        BY <1>2, <1>3, <2>2, <3>1
    <2>. QED
      BY <2>3, <2>4
  <1>. QED
    BY <1>4, <1>5

\* The snapshot merge.
LEMMA SyncMerge == ASSUME TypeInv, TypeInv', Managed, Orderly, SyncInv, Merge PROVE SyncInv'
  <1> USE DEF nodeRow, rest
  <1> USE DEF Kept
  <1>1. ASSUME NEW empty \in BOOLEAN, FetchSnapshot(empty) PROVE SyncInv'
    <2>1. /\ UNCHANGED <<central, node, fp, dirty, dirtyAt, adopted, pushes, toggle, gone, missed, setup>>
          /\ selected' = selected
          /\ job.pc = "fetch" /\ job'.pc = "sample"
          /\ job'.snap = [t \in Tags |-> IF empty \/ t \notin job.selected THEN None ELSE node[t]]
      BY <1>1 DEF FetchSnapshot
    <2>2. Deletions' /\ Fingerprints' /\ Stamps' /\ CleanInStep' /\ ReadRows' /\ Progress'
          /\ Merging'
      BY <2>1 DEF SyncInv, Deletions, Fingerprints, Stamps, CleanInStep, NodeInStep, ReadRows,
        Progress, Merging, Reconciling
    <2>3. Snapshot'
      <3> SUFFICES ASSUME ~dirty, NEW t \in Kept
                   PROVE  /\ job'.snap[t] # None => node[t] = job'.snap[t]
                          /\ Present(job'.snap) # {} /\ central[t] # None /\ central[t].enable =>
                               job'.snap[t] # None
        BY <2>1 DEF Snapshot
      <3>1. job'.snap[t] # None => node[t] = job'.snap[t]
        BY <2>1
      <3>2. ASSUME Present(job'.snap) # {}, central[t] # None, central[t].enable
            PROVE  job'.snap[t] # None
        <4>1. ~empty
          BY <2>1, <3>2 DEF Present
        <4>2. t \in job.selected
          BY <2>1, <3>2 DEF SyncInv, Stamps, Current, Reconciling
        <4>3. node[t] = central[t]
          BY <3>2 DEF SyncInv, CleanInStep, NodeInStep, Delivered
        <4>. QED
          BY <2>1, <3>2, <4>1, <4>2, <4>3
      <3>. QED
        BY <3>1, <3>2
    <2>. QED
      BY <2>2, <2>3 DEF SyncInv
  <1>2. CASE FetchFailed \/ MergeFailed
    <2>1. /\ UNCHANGED <<central, node, fp, dirty, dirtyAt, adopted, selected, pushes, toggle,
                         gone, missed, setup>>
          /\ job'.pc = "idle" /\ job.pc # "push"
      BY <1>2 DEF FetchFailed, MergeFailed, Idle
    <2>. QED
      BY <2>1 DEF SyncInv, Deletions, Fingerprints, Stamps, CleanInStep, NodeInStep, ReadRows,
        Progress, Snapshot, Merging, Reconciling
  <1>3. CASE SampleDirty
    <2>1. /\ UNCHANGED <<central, node, fp, dirty, dirtyAt, adopted, selected, pushes, toggle,
                         gone, missed, setup>>
          /\ job.pc = "sample" /\ job'.pc = "merge" /\ job'.snap = job.snap
      BY <1>3 DEF SampleDirty
    <2>. QED
      BY <2>1 DEF SyncInv, Deletions, Fingerprints, Stamps, CleanInStep, NodeInStep, ReadRows,
        Progress, Snapshot, Merging, Reconciling
  <1>4. CASE MergeBegin
    <2>1. /\ UNCHANGED <<central, node, fp, dirty, dirtyAt, adopted, selected, pushes, toggle,
                         gone, missed, setup>>
          /\ job.pc = "merge" /\ job'.pc = "merging" /\ job'.snap = job.snap
          /\ job'.rows = central /\ job'.dirty = (job.dirty \/ dirty)
      BY <1>4 DEF MergeBegin
    <2>2. Deletions' /\ Fingerprints' /\ Stamps' /\ CleanInStep' /\ ReadRows' /\ Progress'
          /\ Snapshot'
      BY <2>1 DEF SyncInv, Deletions, Fingerprints, Stamps, CleanInStep, NodeInStep, ReadRows,
        Progress, Snapshot, Reconciling
    <2>3. Merging'
      <3> SUFFICES ASSUME ~dirty, NEW t \in Kept
                   PROVE  /\ job.snap[t] # None /\ central[t] # None => job.snap[t] = central[t]
                          /\ job.snap[t] # None => t \notin gone /\ node[t] = job.snap[t]
                          /\ Present(job.snap) # {} /\ central[t] # None /\ central[t].enable =>
                               job.snap[t] # None
        BY <2>1 DEF Merging
      <3>1. /\ job.snap[t] # None => node[t] = job.snap[t]
            /\ Present(job.snap) # {} /\ central[t] # None /\ central[t].enable =>
                 job.snap[t] # None
        BY <2>1 DEF SyncInv, Snapshot
      <3>2. /\ central[t] # None => node[t] = central[t] \/ node[t] = None
            /\ t \in gone => node[t] = None
        BY DEF SyncInv, CleanInStep, NodeInStep, Delivered
      <3>. QED
        BY <3>1, <3>2
    <2>. QED
      BY <2>2, <2>3 DEF SyncInv
  <1>5. CASE MergeCommit
    <2>1. /\ UNCHANGED <<node, dirty, dirtyAt, adopted, selected, pushes, toggle, gone, missed, setup>>
          /\ job.pc = "merging" /\ job'.pc = "adopt"
      BY <1>5 DEF MergeCommit
    <2>2. \A t \in Kept :
            /\ central[t] # None => central'[t] = central[t]
            /\ t \in gone => central'[t] = None
            /\ central[t] = None /\ central'[t] # None => ~job.dirty /\ node[t] = central'[t]
            /\ fp'[t] = fp[t]
      BY <1>5, MergeKeeps
    <2>3. Deletions'
      BY <2>1, <2>2 DEF SyncInv, Deletions, Present, Reconciling, TypeInv
    <2>4. Fingerprints'
      BY <2>1, <2>2 DEF SyncInv, Fingerprints
    <2>5. CleanInStep'
      <3>1. NodeInStep => NodeInStep'
        BY <2>1, <2>2 DEF NodeInStep, Delivered
      <3>. QED
        BY <2>1, <3>1 DEF SyncInv, CleanInStep
    <2>6. Stamps' /\ ReadRows' /\ Progress' /\ Snapshot' /\ Merging'
      BY <2>1 DEF Stamps, ReadRows, Progress, Snapshot, Merging, Reconciling
    <2>. QED
      BY <2>3, <2>4, <2>5, <2>6 DEF SyncInv
  <1>6. CASE MarkNodeInboundsAdopted
    <2>1. /\ UNCHANGED <<central, node, fp, dirty, dirtyAt, selected, pushes, toggle, gone, missed, setup>>
          /\ job.pc = "adopt" /\ job'.pc = "idle" /\ (adopted => adopted')
      BY <1>6 DEF MarkNodeInboundsAdopted, Idle
    <2>. QED
      BY <2>1 DEF SyncInv, Deletions, Fingerprints, Stamps, CleanInStep, NodeInStep, ReadRows,
        Progress, Snapshot, Merging, Reconciling
  <1>. QED
    BY <1>1, <1>2, <1>3, <1>4, <1>5, <1>6 DEF Merge

LEMMA SetupFixed == [Next]_vars => setup' = setup
  BY DEF Next, vars, rest, MasterEdit, UpdateInbound, AddInbound, BulkClients, AddInboundClient,
    DelInboundClientByEmail, EditClient, SetInboundEnableRead, SetInboundEnableCommit, DelInbound,
    LivePush, PushApplied, PushReturned, PushFailed, JobLoad, Reconcile, ReconcileRead,
    ReconcileList, ReconcileListFailed, ReconcileInbound, ReconcileRecord,
    ReconcileInboundFailed, ReconcileSwept, ClearNodeDirty, Merge, FetchSnapshot, FetchFailed,
    SampleDirty, MergeBegin, MergeCommit, MergeFailed, MarkNodeInboundsAdopted, Heartbeat,
    PanelRestart

LEMMA SyncStep == TypeInv /\ TypeInv' /\ Managed /\ Orderly /\ SyncInv /\ [Next]_vars => SyncInv'
  <1> SUFFICES ASSUME TypeInv, TypeInv', Managed, Orderly, SyncInv, [Next]_vars PROVE SyncInv'
    OBVIOUS
  <1> USE DEF nodeRow, rest, Kept, SyncInv, Deletions, Fingerprints, Stamps, Current, CleanInStep,
              NodeInStep, ReadRows, Progress, Snapshot, Merging, Reconciling
  <1>1. ASSUME NEW up \in BOOLEAN, Heartbeat(up) PROVE SyncInv'
    BY <1>1 DEF Heartbeat
  <1>2. CASE PanelRestart
    BY <1>2 DEF PanelRestart, NoRows, Idle
  <1>3. CASE UNCHANGED vars
    BY <1>3 DEF vars
  <1> HIDE DEF nodeRow, rest, Kept, SyncInv, Deletions, Fingerprints, Stamps, Current, CleanInStep,
              NodeInStep, ReadRows, Progress, Snapshot, Merging, Reconciling
  <1>4. CASE Reconcile
    BY <1>4, SyncLoad, SyncReconcileRow, SyncSwept, SyncClear DEF Reconcile
  <1>. QED
    BY <1>1, <1>2, <1>3, <1>4, SyncEdit, SyncPush, SyncLoad, SyncMerge DEF Next

\* The inductive invariant of the three results.
THEOREM Invariance == Spec => []Inv
  <1>1. Init => Inv
    BY TypeInit, ManagedInit, SyncInit DEF Inv
  <1>2. Inv /\ [Next]_vars => Inv'
    <2> SUFFICES ASSUME Inv, [Next]_vars PROVE Inv'
      OBVIOUS
    <2>1. TypeInv' /\ Managed'
      BY TypeStep, ManagedStep DEF Inv
    <2>2. Orderly' => Orderly
      BY SetupFixed DEF Orderly
    <2>3. Orderly' => SyncInv'
      BY <2>1, <2>2, SyncStep DEF Inv
    <2>. QED
      BY <2>1, <2>3 DEF Inv
  <1>. QED
    BY <1>1, <1>2, PTL DEF Spec

\* Once the flag is down and no call is in flight, the node holds every enabled
\* row of the master and none it deleted, for any number of tags, edits, restarts
\* and failed calls (MarkNodeDirtyTx, ReconcileNode, the fingerprint skip of
\* ReconcileInbound and ClearNodeDirty's compare together).  Excepted is an inbound
\* whose id the sweep could not look up, which DelInbound reports as deleted.
THEOREM CleanNodeHoldsRows == Spec => []CleanIsPushed
  <1>1. Inv => CleanIsPushed
    <2> SUFFICES ASSUME Inv, Orderly, ~dirty, NEW t \in selected \ missed
                 PROVE  /\ central[t] # None /\ central[t].enable => node[t] = central[t]
                        /\ t \in gone => node[t] = None
      BY DEF CleanIsPushed
    <2>1. t \in Kept /\ NodeInStep
      BY DEF Inv, TypeInv, SyncInv, CleanInStep, Kept
    <2>. QED
      BY <2>1 DEF NodeInStep, Delivered
  <1>. QED
    BY <1>1, Invariance, PTL

\* A merge changes or drops no row the master holds and revives none it deleted,
\* even when a delete commits between the merge's reads and its commit
\* (setRemoteTrafficLocked under config_dirty); excepted are the inbounds whose
\* deletion a reconcile skipped for want of an id.
THEOREM MergeNeverReverts == Spec => NoRevert
  <1>1. Inv /\ [Next]_vars =>
          [MergeCommit /\ Orderly =>
             \A t \in Tags \ missed : /\ central[t] # None => central'[t] = central[t]
                                      /\ t \in gone => central'[t] = None]_vars
    BY MergeKeeps DEF Inv, Kept
  <1>. QED
    BY <1>1, Invariance, PTL DEF Spec, NoRevert
=============================================================================
