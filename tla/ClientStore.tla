---------------------------- MODULE ClientStore ----------------------------
(***************************************************************************)
(* Where a client is written, and the operations that write it.            *)
(*                                                                         *)
(* One client lives in four places: an entry in the settings JSON of every *)
(* inbound it is attached to, a row in clients, one row in client_inbounds *)
(* per attachment and a row in client_traffics.  An operation on a client  *)
(* fans out over its inbounds.  The share of one inbound reads the         *)
(* settings under that inbound's lock, computes the edited list and        *)
(* commits it in one transaction of the serial writer, merged onto what    *)
(* the settings hold by then: the traffic tick and the inbound editor      *)
(* write without the lock.  The operation ends with a transaction of its   *)
(* own.                                                                    *)
(*                                                                         *)
(* A client's subId and credentials are one value.  The wire order of the  *)
(* entries, node pushes (see NodeSync), runtime calls, tunnel addresses,   *)
(* groups (see GroupQuota) and devices are left out.                       *)
(***************************************************************************)
EXTENDS Naturals, FiniteSets, SequencesExt

CONSTANTS
    Inbounds,
    Emails,
    Creds,      \* subIds
    Procs,      \* requests served at a time
    None,
    Workloads   \* what may happen: see the assumption

\* The operations and how many, the requests served at a time, the inbounds
\* there are, the clients at the start and where they are attached, the limits
\* an edit may set (total_gb, 0: unlimited) and the traffic of a client.
\* None, which stands for a deleted inbound's settings, is no list of clients.
ASSUME ClientStoreAssumption ==
    /\ None \notin Nat \cup Inbounds \cup Emails \cup Creds /\ IsFiniteSet(Emails)
    /\ \A E \in SUBSET Emails : None \notin [E -> [cred : Creds, on : BOOLEAN, lim : Nat]]
    /\ \A w \in Workloads :
         /\ w.procs \subseteq Procs /\ w.inbounds \subseteq Inbounds /\ w.home \subseteq w.inbounds
         /\ w.seeded \subseteq Emails /\ w.limits \subseteq Nat
         /\ w.ops \in Nat /\ w.used \in Nat

VARIABLES
    db,     \* the committed rows (see Init)
    op,     \* the request each process serves
    ops,    \* operations begun
    workload \* what happens in this behaviour

vars == <<db, op, ops, workload>>

\* No entries; also no request and no share of one.
Empty == [e \in {} |-> None]

Just(x, v) == [y \in {x} |-> v]

\* f where it is defined, g elsewhere.
Over(f, g) ==
    [x \in DOMAIN f \cup DOMAIN g |-> IF x \in DOMAIN f THEN f[x] ELSE g[x]]

\* settings: the clients of each inbound by e-mail, None once it is deleted;
\* rec: clients by id; link: client_inbounds; stat: client_traffics by e-mail.
Init ==
    /\ workload \in Workloads
    /\ LET seeded == workload.seeded
           home == workload.home
           seed == SetToSeq(seeded)
           ids == DOMAIN seed
       IN  \E cred \in [ids -> Creds], lim \in workload.limits :
             /\ \A m, n \in ids : m # n => cred[m] # cred[n]
             /\ LET entry(n) == [cred |-> cred[n], on |-> TRUE, lim |-> lim]
                    idOf(e) == CHOOSE n \in ids : seed[n] = e
                IN  db = [settings |-> [i \in Inbounds |->
                                 IF i \in workload.inbounds
                                 THEN [e \in IF i \in home THEN seeded ELSE {} |-> entry(idOf(e))]
                                 ELSE None],
                          rec |-> [n \in ids |-> Over([email |-> seed[n]], entry(n))],
                          link |-> ids \X home,
                          stat |-> [e \in seeded |-> [on |-> TRUE, lim |-> lim, used |-> 0]],
                          next |-> Cardinality(seeded) + 1]
    /\ op = [p \in Procs |-> Empty]
    /\ ops = 0

Op(kind) ==
    /\ kind \in workload.kinds
    /\ ops < workload.ops
    /\ ops' = ops + 1
    /\ UNCHANGED workload

Without(f, S) == [x \in DOMAIN f \ S |-> f[x]]

----------------------------------------------------------------------------
(***************************************************************************)
(* Reads of the database.                                                  *)
(***************************************************************************)

IdsOf(d, E) == {n \in DOMAIN d.rec : d.rec[n].email \in E}

HasRecord(d, e) == IdsOf(d, {e}) # {}

EntryOf(d, n) == [cred |-> d.rec[n].cred, on |-> d.rec[n].on, lim |-> d.rec[n].lim]

LinkedInbounds(d, n) == {i \in Inbounds : <<n, i>> \in d.link}

Live(d) == {i \in Inbounds : d.settings[i] # None}

\* emailUsedByOtherInbounds goes through the links.
UsedElsewhere(d, e, i) ==
    \E n \in IdsOf(d, {e}) : \E j \in Inbounds \ {i} : <<n, j>> \in d.link

\* checkEmailsExistForClients: an e-mail recorded under another identity.
EmailsExist(d, new) ==
    \E e \in DOMAIN new : \E n \in IdsOf(d, {e}) : d.rec[n].cred # new[e].cred

Depleted(row) == row.lim > 0 /\ row.used >= row.lim

----------------------------------------------------------------------------
(***************************************************************************)
(* The three-way merge of an edit onto the settings committed meanwhile.   *)
(***************************************************************************)

MergeFields(base, ours, current) ==
    [f \in DOMAIN ours |-> IF ours[f] = base[f] THEN current[f] ELSE ours[f]]

\* Mutant: the edit's copy of an entry wins.
RebaseOurs(base, ours, current) ==
    [e \in DOMAIN ours \cup (DOMAIN current \ DOMAIN base) |->
        IF e \in DOMAIN ours THEN ours[e] ELSE current[e]]

\* rebaseClientSettings with mergeClientLists.
Rebase(base, ours, current) ==
    LET B == DOMAIN base
        O == DOMAIN ours
        C == DOMAIN current
        ownEdit == {e \in O \cap B : e \notin C /\ ours[e] # base[e]}
    IN  [e \in (O \ B) \cup (O \cap B \cap C) \cup ownEdit \cup (C \ (O \cup B)) |->
            IF e \notin O THEN current[e]
            ELSE IF e \in B \cap C THEN MergeFields(base[e], ours[e], current[e])
            ELSE ours[e]]

\* Mutant: compaction takes a client that is switched off for an orphan.
CompactDisabled(d, s) ==
    Without(s, {e \in DOMAIN s : ~HasRecord(d, e) \/ ~s[e].on})

\* compactOrphans drops the entries without a record.
CompactOrphans(d, s) ==
    Without(s, {e \in DOMAIN s : ~HasRecord(d, e)})

----------------------------------------------------------------------------
(***************************************************************************)
(* Records and links after a commit on inbound i: entries is the changed   *)
(* part or, when links are pruned, the whole list.                         *)
(***************************************************************************)

\* applyClientRecordMerge on every record of an entry; an entry without one
\* gets a record.
MergeRecords(d, entries) ==
    LET new == SetToSeq({e \in DOMAIN entries : ~HasRecord(d, e)})
        row(e) == Over([email |-> e], entries[e])
    IN  [d EXCEPT
           !.rec = Over([n \in DOMAIN d.rec |-> IF d.rec[n].email \in DOMAIN entries
                                               THEN row(d.rec[n].email) ELSE d.rec[n]],
                        [n \in d.next .. d.next + Len(new) - 1 |-> row(new[n - d.next + 1])]),
           !.next = d.next + Len(new)]

\* Mutant: the links of removed clients stay.
SyncNoDetach(d, i, entries, detach, prune) ==
    LET m == MergeRecords(d, entries)
    IN  [m EXCEPT !.link = m.link \cup (IdsOf(m, DOMAIN entries) \X {i})]

\* syncInboundClients with reconcileInboundLinks.
SyncClients(d, i, entries, detach, prune) ==
    LET m == MergeRecords(d, entries)
        wanted == IdsOf(m, DOMAIN entries)
        gone == IF prune THEN DOMAIN m.rec ELSE IdsOf(m, detach)
    IN  [m EXCEPT !.link = (m.link \ ((gone \ wanted) \X {i})) \cup (wanted \X {i})]

SyncInbound(d, i, entries) == SyncClients(d, i, entries, {}, TRUE)

ApplyDelta(d, i, changed, detach) == SyncClients(d, i, changed, detach, FALSE)

----------------------------------------------------------------------------
(***************************************************************************)
(* Rows of client_traffics.                                                *)
(***************************************************************************)

DelStats(d, E) == [d EXCEPT !.stat = Without(d.stat, E)]

\* AddClientStat: an existing row keeps its counters.
AddStats(d, new) ==
    [d EXCEPT !.stat =
        Over([e \in DOMAIN new |-> [on |-> new[e].on, lim |-> new[e].lim,
                  used |-> IF e \in DOMAIN d.stat THEN d.stat[e].used ELSE 0]], d.stat)]

\* Mutant: the row keeps its limit.
UpdateStatKeepsLimit(d, e, f, entry) ==
    IF e \notin DOMAIN d.stat THEN d
    ELSE [d EXCEPT !.stat = Over(Just(f, [d.stat[e] EXCEPT !.on = entry.on]), Without(d.stat, {e}))]

\* UpdateClientStat: the row of e, if there is one, takes the entry and the
\* name f.
UpdateStat(d, e, f, entry) ==
    IF e \notin DOMAIN d.stat THEN d
    ELSE [d EXCEPT !.stat =
             Over(Just(f, [on |-> entry.on, lim |-> entry.lim, used |-> d.stat[e].used]),
                  Without(d.stat, {e}))]

\* The row of a renamed client; the new name may have a row already.
RenameStat(d, i, e, f, entry) ==
    IF e = f \/ f \notin DOMAIN d.stat THEN UpdateStat(d, e, f, entry)
    ELSE UpdateStat(IF UsedElsewhere(d, e, i) THEN d ELSE DelStats(d, {e}), f, f, entry)

\* The rename of the record, refused when the new name is taken.
RenameRecord(d, e, f) ==
    IF e = f \/ HasRecord(d, f) THEN d
    ELSE [d EXCEPT !.rec = [n \in DOMAIN d.rec |->
             IF d.rec[n].email = e THEN [d.rec[n] EXCEPT !.email = f] ELSE d.rec[n]]]

SetOn(d, E, on) ==
    [d EXCEPT !.rec = [n \in DOMAIN d.rec |->
                          IF d.rec[n].email \in E THEN [d.rec[n] EXCEPT !.on = on] ELSE d.rec[n]],
              !.stat = [e \in DOMAIN d.stat |->
                          IF e \in E THEN [d.stat[e] EXCEPT !.on = on] ELSE d.stat[e]]]

----------------------------------------------------------------------------
(***************************************************************************)
(* One inbound's share of an operation.                                    *)
(***************************************************************************)

Adds == {"create", "attach"}
Updates == {"update", "field"}
Deletes == {"detach", "delete", "ghost"}
Edits == {"enable", "adjust"}

\* load: per inbound, the e-mails concerned with their new entry (adds and
\* updates) or the new value of the edited field (edits).
Request(kind, ids, load) ==
    [kind |-> kind, ids |-> ids, load |-> load,
     names |-> [n \in ids |-> db.rec[n].email],
     emails |-> {db.rec[n].email : n \in ids},
     keep |-> TRUE, field |-> "on", payload |-> None,
     todo |-> {i \in Inbounds : DOMAIN load[i] # {}},
     run |-> [i \in Inbounds |-> Empty],
     failed |-> {},
     depleted |-> None]

\* The name an update looks its client up by.
From(o) == CHOOSE e \in o.emails : TRUE

Unlocked(i) ==
    \A p \in Procs : op[p] # Empty => op[p].run[i] = Empty

\* The list an operation writes, from the settings and records it reads.
Ours(d, o, i) ==
    LET base == d.settings[i]
        E == DOMAIN o.load[i]
    IN  CASE o.kind \in Adds -> Over(CompactOrphans(d, base), Without(o.load[i], DOMAIN base))
          [] o.kind \in Updates -> Over(o.load[i], Without(base, {From(o)}))
          [] o.kind \in Edits -> [e \in DOMAIN base |->
                                    IF e \in E THEN [base[e] EXCEPT ![o.field] = o.load[i][e]]
                                    ELSE base[e]]
          [] OTHER -> CompactOrphans(d, Without(base, E))

\* The early error returns before anything is written.
Refused(d, o, i) ==
    \/ i \notin Live(d)
    \/ o.kind \in Adds /\ EmailsExist(d, o.load[i])
    \/ /\ o.kind \in Updates
       /\ \/ From(o) \notin DOMAIN d.settings[i]
          \/ From(o) \notin DOMAIN o.load[i] /\ EmailsExist(d, o.load[i])

\* The early returns with nothing to write.
NothingToDo(d, o, i) ==
    LET base == d.settings[i]
        found == DOMAIN o.load[i] \cap DOMAIN base
    IN  CASE o.kind \in Adds -> DOMAIN o.load[i] \subseteq DOMAIN base
          [] o.kind \in Deletes \cup {"adjust"} -> found = {}
          [] o.kind \in Updates \cup {"enable"} -> Ours(d, o, i) = base
          [] OTHER -> FALSE

\* What an edit does not find it reports as failed.
Missing(d, o, i) ==
    IF o.kind \in Edits THEN DOMAIN o.load[i] \ DOMAIN d.settings[i] ELSE {}

\* The traffic rows a delete takes along, decided before its transaction.
Dropped(d, o, i) ==
    IF o.keep \/ o.kind \notin Deletes \cup {"bulkdelete"} THEN {}
    ELSE {e \in DOMAIN o.load[i] \cap DOMAIN d.settings[i] :
             ~UsedElsewhere(d, e, i) /\ (e \in DOMAIN d.stat \/ o.kind = "bulkdelete")}

\* An add skips the clients already there, a delete those already gone.
Changed(d, o, i) ==
    CASE o.kind \in Adds -> Without(o.load[i], DOMAIN d.settings[i])
      [] o.kind \in Deletes -> Without(o.load[i], Emails \ DOMAIN d.settings[i])
      [] OTHER -> o.load[i]

\* The request after a share has read its inbound.
AfterRead(d, o, i) ==
    LET rest == [o EXCEPT !.todo = @ \ {i}]
    IN  IF Refused(d, o, i) THEN [rest EXCEPT !.failed = @ \cup DOMAIN o.load[i]]
        ELSE [rest EXCEPT
                !.failed = @ \cup Missing(d, o, i),
                !.run[i] = IF NothingToDo(d, o, i) THEN Empty
                           ELSE [base |-> d.settings[i], ours |-> Ours(d, o, i),
                                 new |-> Changed(d, o, i), drop |-> Dropped(d, o, i)]]

\* The start of a share, under lockInbound.
ApplyRead(p, i) ==
    /\ op[p] # Empty
    /\ i \in op[p].todo
    /\ Unlocked(i)
    /\ op' = [op EXCEPT ![p] = AfterRead(db, op[p], i)]
    /\ UNCHANGED <<db, ops, workload>>

\* bulkDelInboundClients purges the traffic rows in a transaction of its own;
\* an e-mail whose purge fails is not deleted, yet leaves the settings.
BulkPurge(p, i) ==
    /\ op[p] # Empty
    /\ op[p].kind = "bulkdelete"
    /\ op[p].run[i] # Empty
    /\ op[p].run[i].drop # {}
    /\ LET purged == [op[p] EXCEPT !.run[i].drop = {}]
       IN  \/ /\ db' = DelStats(db, op[p].run[i].drop)
              /\ op' = [op EXCEPT ![p] = purged]
           \/ /\ "fail" \in workload.kinds
              /\ op' = [op EXCEPT ![p] = [purged EXCEPT !.failed = @ \cup op[p].run[i].drop]]
              /\ UNCHANGED db
    /\ UNCHANGED <<ops, workload>>

\* The transaction of a share: traffic rows, settings, records and links.
Committed(d, o, i) ==
    LET r == o.run[i]
        to == CHOOSE e \in DOMAIN r.new : TRUE
        s == Rebase(r.base, r.ours, d.settings[i])
        w == [d EXCEPT !.settings[i] = s]
    IN  CASE o.kind \in Adds -> ApplyDelta(AddStats(w, r.new), i, r.new, {})
          [] o.kind \in Updates ->
               ApplyDelta(RenameRecord(RenameStat(w, i, From(o), to, r.new[to]), From(o), to),
                          i, r.new, {From(o)} \ {to})
          [] o.kind \in Deletes -> ApplyDelta(DelStats(w, r.drop), i, Empty, DOMAIN r.new)
          [] OTHER -> SyncInbound(w, i, s)

ApplyCommit(p, i) ==
    /\ op[p] # Empty
    /\ op[p].run[i] # Empty
    /\ i \in Live(db)
    /\ op[p].kind = "bulkdelete" => op[p].run[i].drop = {}
    /\ db' = Committed(db, op[p], i)
    /\ op' = [op EXCEPT ![p].run[i] = Empty]
    /\ UNCHANGED <<ops, workload>>

\* Whom a failing share reports: BulkSetEnable only those it was to change.
FailedBy(o, i) ==
    {e \in DOMAIN o.load[i] :
        o.kind = "enable" => /\ e \in DOMAIN o.run[i].base
                             /\ o.run[i].base[e] # o.run[i].ours[e]}

\* The transaction, or a lookup before it, fails.  It always does on an inbound
\* deleted since the read: validateTuicIdentities no longer finds it.
ApplyFails(p, i) ==
    /\ op[p] # Empty
    /\ op[p].run[i] # Empty
    /\ \/ "fail" \in workload.kinds
       \/ i \notin Live(db) /\ (op[p].kind = "bulkdelete" => op[p].run[i].drop = {})
    /\ op' = [op EXCEPT ![p].run[i] = Empty, ![p].failed = @ \cup FailedBy(op[p], i)]
    /\ UNCHANGED <<db, ops, workload>>

----------------------------------------------------------------------------
(***************************************************************************)
(* The operations.                                                         *)
(***************************************************************************)

Serve(p, request) == op' = [op EXCEPT ![p] = request]

Idle(p, kind) == op[p] = Empty /\ Op(kind)

\* The clients in ids on each of their inbounds in S.
Attached(ids, S, value) ==
    [i \in Inbounds |-> [e \in {db.rec[n].email : n \in {n \in ids : i \in S /\ <<n, i>> \in db.link}}
                           |-> value[e]]]

Nothing == [e \in Emails |-> None]

Taken(cred, E) == \E n \in DOMAIN db.rec : db.rec[n].cred = cred /\ db.rec[n].email \notin E

\* Create and, for several clients, BulkCreate.
Create(p) ==
    /\ Idle(p, "create")
    /\ \E E \in (SUBSET Emails) \ {{}}, S \in (SUBSET Live(db)) \ {{}} :
       \E new \in [E -> [cred : Creds, on : {TRUE}, lim : workload.limits]] :
         /\ Cardinality(E) > 1 => "bulkcreate" \in workload.kinds
         /\ \A e, f \in E : e # f => new[e].cred # new[f].cred
         /\ \A e \in E : ~Taken(new[e].cred, {e})
         /\ ~EmailsExist(db, new)
         /\ "readd" \in workload.kinds \/ \A e \in E : ~HasRecord(db, e)
         /\ Serve(p, Request("create", {}, [i \in Inbounds |-> IF i \in S THEN new ELSE Empty]))
    /\ UNCHANGED db

\* Attach copies the record as it is now.
Attach(p) ==
    /\ Idle(p, "attach")
    /\ \E n \in DOMAIN db.rec, S \in SUBSET Inbounds :
         /\ S # {}
         /\ S \subseteq Live(db) \ LinkedInbounds(db, n)
         /\ Serve(p, Request("attach", {n},
              [i \in Inbounds |-> IF i \in S THEN Just(db.rec[n].email, EntryOf(db, n)) ELSE Empty]))
    /\ UNCHANGED db

\* BulkAttach looks for the clients in the settings, not in the links.
BulkAttach(p) ==
    /\ Idle(p, "bulkattach")
    /\ \E ids \in SUBSET DOMAIN db.rec, S \in SUBSET Live(db) :
         /\ ids # {} /\ S # {}
         /\ LET E == {db.rec[n].email : n \in ids}
                entry(e) == EntryOf(db, CHOOSE n \in ids : db.rec[n].email = e)
            IN  Serve(p, Request("attach", ids,
                  [i \in Inbounds |-> IF i \in S THEN [e \in E \ DOMAIN db.settings[i] |-> entry(e)]
                                      ELSE Empty]))
    /\ UNCHANGED db

\* Detach and BulkDetach, which keep the traffic rows.
Detach(p) ==
    /\ Idle(p, "detach")
    /\ \E ids \in SUBSET DOMAIN db.rec, S \in SUBSET Inbounds :
         /\ ids # {}
         /\ Cardinality(ids) > 1 => "bulkdetach" \in workload.kinds
         /\ Serve(p, Request("detach", ids, Attached(ids, S, Nothing)))
    /\ UNCHANGED db

Delete(p) ==
    /\ Idle(p, "delete")
    /\ \E n \in DOMAIN db.rec, keep \in BOOLEAN :
         Serve(p, [Request("delete", {n}, Attached({n}, Live(db), Nothing)) EXCEPT !.keep = keep])
    /\ UNCHANGED db

BulkDelete(p) ==
    /\ Idle(p, "bulkdelete")
    /\ \E ids \in SUBSET DOMAIN db.rec, keep \in BOOLEAN :
         /\ ids # {}
         /\ Serve(p, [Request("bulkdelete", ids, Attached(ids, Inbounds, Nothing))
                        EXCEPT !.keep = keep])
    /\ UNCHANGED db

\* DeleteByEmail of a client that has entries and no record.
DeleteByEmail(p) ==
    /\ Idle(p, "ghost")
    /\ \E e \in Emails, keep \in BOOLEAN :
         LET S == {i \in Live(db) : e \in DOMAIN db.settings[i]}
         IN  /\ ~HasRecord(db, e)
             /\ S # {}
             /\ Serve(p, [Request("ghost", {}, [i \in Inbounds |-> IF i \in S THEN Just(e, None) ELSE Empty])
                            EXCEPT !.keep = keep, !.emails = {e}])
    /\ UNCHANGED db

\* Update drops the links to inbounds that are gone.
Update(p) ==
    /\ Idle(p, "update")
    /\ \E n \in DOMAIN db.rec, to \in Emails, new \in [cred : Creds, on : BOOLEAN, lim : workload.limits] :
         LET from == db.rec[n].email
         IN  /\ to = from \/ ("rename" \in workload.kinds /\ ~HasRecord(db, to))
             /\ new.cred = db.rec[n].cred \/ ~Taken(new.cred, {from})
             /\ db' = [db EXCEPT !.link = @ \ ({n} \X (Inbounds \ Live(db)))]
             /\ Serve(p, [Request("update", {n},
                            [i \in Inbounds |-> IF i \in Live(db) \cap LinkedInbounds(db, n)
                                                  THEN Just(to, new) ELSE Empty])
                            EXCEPT !.payload = [to |-> to, entry |-> new]])

\* applyClientFieldByEmail: every inbound's own entry with one field changed.
ApplyField(p) ==
    /\ Idle(p, "field")
    /\ \E n \in DOMAIN db.rec, new \in [on : BOOLEAN] \cup [lim : workload.limits] :
         LET e == db.rec[n].email
             S == {i \in LinkedInbounds(db, n) : i \in Live(db) /\ e \in DOMAIN db.settings[i]}
         IN  /\ LinkedInbounds(db, n) \subseteq Live(db)
             /\ S # {}
             /\ Serve(p, Request("field", {n},
                  [i \in Inbounds |-> IF i \in S THEN Just(e, Over(new, db.settings[i][e]))
                                      ELSE Empty]))
    /\ UNCHANGED db

EnableRequest(ids, on) ==
    [Request("enable", ids, Attached(ids, Inbounds, [e \in Emails |-> on])) EXCEPT !.payload = on]

BulkSetEnable(p) ==
    /\ Idle(p, "enable")
    /\ \E ids \in SUBSET DOMAIN db.rec, on \in BOOLEAN :
         /\ ids # {}
         /\ Serve(p, EnableRequest(ids, on))
    /\ UNCHANGED db

\* BulkAdjust raises the limit of the records as they are now.
BulkAdjust(p) ==
    /\ Idle(p, "adjust")
    /\ \E ids \in SUBSET {n \in DOMAIN db.rec : db.rec[n].lim > 0} :
         LET plan == [e \in {db.rec[n].email : n \in ids} |->
                         1 + db.rec[CHOOSE n \in ids : db.rec[n].email = e].lim]
         IN  /\ ids # {}
             /\ Serve(p, [Request("adjust", ids, Attached(ids, Inbounds, plan))
                            EXCEPT !.field = "lim", !.payload = plan])
    /\ UNCHANGED db

\* DeleteOrphans finds the clients without an inbound.
DeleteOrphans(p) ==
    /\ Idle(p, "orphans")
    /\ LET ids == {n \in DOMAIN db.rec : LinkedInbounds(db, n) = {}}
       IN  /\ ids # {}
           /\ Serve(p, Request("orphans", ids, [i \in Inbounds |-> Empty]))
    /\ UNCHANGED db

----------------------------------------------------------------------------
(***************************************************************************)
(* The end of an operation, once every share has returned.                 *)
(***************************************************************************)

Returned(p) ==
    /\ op[p] # Empty
    /\ op[p].todo = {}
    /\ \A i \in Inbounds : op[p].run[i] = Empty

End(p) == op' = [op EXCEPT ![p] = Empty]

\* The deletion of records, their links and, unless kept, their traffic rows.
Erased(d, ids, E) ==
    [d EXCEPT !.rec = Without(d.rec, ids),
              !.link = {l \in d.link : l[1] \notin ids},
              !.stat = Without(d.stat, E)]

\* After an update: the name, which may be taken, the fields of a record
\* without an inbound, and enable in any case.
Updated(d, o, n) ==
    LET new == o.payload.entry
        to == o.payload.to
        row == d.rec[n]
        renames == to # From(o) /\ row.email = From(o)
        alone == \A i \in Inbounds : DOMAIN o.load[i] = {}
    IN  IF renames /\ HasRecord(d, to) THEN d
        ELSE [d EXCEPT !.rec[n] =
                Over([email |-> IF renames THEN to ELSE row.email, on |-> new.on],
                     IF alone THEN new ELSE row)]

\* The last writes of an operation.
Finished(d, o) ==
    LET n == CHOOSE n \in o.ids : TRUE
        good == o.emails \ o.failed
        goodIds == {m \in o.ids : o.names[m] \notin o.failed}
    IN  CASE o.kind = "update" /\ o.failed = {} /\ n \in DOMAIN d.rec ->
               Updated(d, o, n)
          [] o.kind = "delete" /\ o.failed = {} -> Erased(d, o.ids, IF o.keep THEN {} ELSE o.emails)
          [] o.kind = "bulkdelete" -> Erased(d, goodIds, IF o.keep THEN {} ELSE good)
          [] o.kind = "ghost" /\ o.failed = {} -> IF o.keep THEN d ELSE DelStats(d, o.emails)
          [] o.kind = "orphans" -> Erased(d, o.ids, o.emails)
          [] o.kind = "enable" -> SetOn(d, good, o.payload)
          [] OTHER -> d

Finish(p) ==
    /\ Returned(p)
    /\ op[p].kind # "adjust"
    /\ db' = Finished(db, op[p])
    /\ End(p)
    /\ UNCHANGED <<ops, workload>>

\* BulkAdjust notes which clients their limit has switched off,
AdjustCheck(p) ==
    /\ Returned(p)
    /\ op[p].kind = "adjust"
    /\ op[p].depleted = None
    /\ op' = [op EXCEPT ![p].depleted =
                {e \in op[p].emails \cap DOMAIN db.stat : ~db.stat[e].on /\ Depleted(db.stat[e])}]
    /\ UNCHANGED <<db, ops, workload>>

\* writes the new limits to the traffic rows, each in a statement of its own that
\* may fail,
AdjustWrite(p) ==
    /\ op[p] # Empty
    /\ op[p].kind = "adjust"
    /\ op[p].depleted # None
    /\ LET due == (op[p].emails \ op[p].failed) \cap DOMAIN db.stat
       IN  \E E \in SUBSET due :
             /\ E # due => "fail" \in workload.kinds
             /\ db' = [db EXCEPT !.stat = [e \in DOMAIN db.stat |->
                          IF e \in E THEN [db.stat[e] EXCEPT !.lim = op[p].payload[e]]
                          ELSE db.stat[e]]]
    /\ op' = [op EXCEPT ![p].kind = "adjusted"]
    /\ UNCHANGED <<ops, workload>>

\* and goes on as BulkSetEnable for those that are no longer depleted.
AdjustEnable(p) ==
    /\ op[p] # Empty
    /\ op[p].kind = "adjusted"
    /\ LET E == {e \in op[p].depleted \cap DOMAIN db.stat : ~Depleted(db.stat[e])}
       IN  op' = [op EXCEPT ![p] = IF E = {} THEN Empty ELSE EnableRequest(IdsOf(db, E), TRUE)]
    /\ UNCHANGED <<db, ops, workload>>

----------------------------------------------------------------------------
(***************************************************************************)
(* The writers that take no inbound lock.                                  *)
(***************************************************************************)

\* Traffic is counted against the limit.
Use(e) ==
    /\ e \in DOMAIN db.stat
    /\ db.stat[e].used < workload.used
    /\ db' = [db EXCEPT !.stat[e].used = @ + 1]
    /\ UNCHANGED <<op, ops, workload>>

DepletedNow(d) == {e \in DOMAIN d.stat : d.stat[e].on /\ Depleted(d.stat[e])}

\* disableInvalidClients finds the inbounds of a client through its links.
Tick ==
    LET E == DepletedNow(db)
        off(i) == {e \in E : \E n \in IdsOf(db, {e}) : <<n, i>> \in db.link}
    IN  /\ E # {}
        /\ db' = [SetOn(db, E, FALSE) EXCEPT !.settings =
                    [i \in Inbounds |-> IF i \notin Live(db) THEN None
                       ELSE [e \in DOMAIN db.settings[i] |->
                               IF e \in off(i) THEN [db.settings[i][e] EXCEPT !.on = FALSE]
                               ELSE db.settings[i][e]]]]
        /\ UNCHANGED <<op, ops, workload>>

\* updateClientTraffics: the traffic rows of the stored client list.
SavedStats(d, s) ==
    [e \in DOMAIN d.stat |->
        IF e \in DOMAIN s THEN [d.stat[e] EXCEPT !.on = s[e].on, !.lim = s[e].lim] ELSE d.stat[e]]

\* updateClientTraffics and SyncInbound with the stored client list.
Saved(d, i) ==
    SyncInbound([d EXCEPT !.stat = SavedStats(d, d.settings[i])], i, d.settings[i])

\* UpdateInbound keeps the stored clients, whatever the form posts back.  (The
\* push of a master, which does bring the clients, is NodeSync's.)
UpdateInbound(i) ==
    /\ Op("inbound")
    /\ i \in Live(db)
    /\ db' = Saved(db, i)
    /\ UNCHANGED op

DelInbound(i) ==
    /\ Op("delinbound")
    /\ i \in Live(db)
    /\ db' = [db EXCEPT !.settings[i] = None, !.link = {l \in db.link : l[2] # i}]
    /\ UNCHANGED op

\* The panel stops between two transactions.
Crash ==
    /\ Op("crash")
    /\ \E p \in Procs : op[p] # Empty
    /\ op' = [p \in Procs |-> Empty]
    /\ UNCHANGED db

Next ==
    \/ \E p \in workload.procs :
         \/ Create(p) \/ Attach(p) \/ BulkAttach(p) \/ Detach(p)
         \/ Delete(p) \/ BulkDelete(p) \/ DeleteByEmail(p) \/ DeleteOrphans(p)
         \/ Update(p) \/ ApplyField(p) \/ BulkSetEnable(p) \/ BulkAdjust(p)
         \/ Finish(p) \/ AdjustCheck(p) \/ AdjustWrite(p) \/ AdjustEnable(p)
         \/ \E i \in Inbounds :
              ApplyRead(p, i) \/ BulkPurge(p, i) \/ ApplyCommit(p, i) \/ ApplyFails(p, i)
    \/ \E e \in Emails : Use(e)
    \/ Tick
    \/ \E i \in Inbounds : UpdateInbound(i) \/ DelInbound(i)
    \/ Crash

Spec == Init /\ [][Next]_vars

----------------------------------------------------------------------------
(***************************************************************************)
(* Properties.                                                             *)
(***************************************************************************)

\* Nothing runs and no limit waits to be enforced.
Settled == (\A p \in Procs : op[p] = Empty) /\ DepletedNow(db) = {}

\* Requests at a time that neither delete nor rename clients; or one request at a
\* time, and no failure between the transactions of a bulk delete or a rename.
Careful ==
    \/ workload.kinds \cap {"delete", "bulkdelete", "orphans", "rename"} = {}
    \/ /\ \A p, q \in workload.procs : p = q
       /\ workload.kinds \cap {"bulkdelete", "rename"} # {} => workload.kinds \cap {"fail", "crash"} = {}

\* One request at a time, or attachments and edits of one field on one inbound; no
\* failure, tick or editor of the inbound between the transactions of a request,
\* and no client created again.
Undisturbed ==
    /\ workload.used = 0
    /\ workload.kinds \cap {"fail", "crash", "inbound", "delinbound", "readd"} = {}
    /\ \/ \A p, q \in workload.procs : p = q
       \/ /\ \A i, j \in workload.inbounds : i = j
          /\ workload.kinds \subseteq {"attach", "detach", "field"}

\* Membership.  Once everything has settled, the entries of an inbound are the
\* clients linked to it, each with its record and with the traffic row without
\* which no limit of it would be enforced.
Membership ==
    Careful /\ Settled => \A i \in Live(db) :
        /\ \A e \in DOMAIN db.settings[i] : \E n \in IdsOf(db, {e}) : <<n, i>> \in db.link
        /\ \A n \in DOMAIN db.rec : <<n, i>> \in db.link => db.rec[n].email \in DOMAIN db.settings[i]
        /\ DOMAIN db.settings[i] \subseteq DOMAIN db.stat

\* One identity.  No two records carry the same credentials, and a client has the
\* same identity, limit and enable on all its inbounds, in its record and in its
\* traffic row.
Agreement ==
    Undisturbed /\ Settled => \A n \in DOMAIN db.rec :
        /\ \A m \in DOMAIN db.rec \ {n} : db.rec[m].cred # db.rec[n].cred
        /\ \A i \in Live(db) \cap LinkedInbounds(db, n) :
             LET e == db.rec[n].email
             IN  e \in DOMAIN db.settings[i] =>
                   /\ db.settings[i][e] = EntryOf(db, n)
                   /\ e \in DOMAIN db.stat
                   /\ db.stat[e].on = db.rec[n].on /\ db.stat[e].lim = db.rec[n].lim

\* The request of a share on inbound i has the client e switched on: BulkSetEnable
\* and Update ask for it; an edit of one field brings its copy of the entry along,
\* taken before the lock, whatever field it edits.
BringsOn(o, i, e) ==
    /\ e \in DOMAIN o.load[i]
    /\ \/ o.kind = "enable" /\ o.load[i][e]
       \/ o.kind \in Updates /\ o.load[i][e].on

\* A tick after a share's read survives its commit, whatever the share edits: a
\* client switched off in the settings of an inbound is on again only through a
\* share about that client that read it as off, of a request that has it switched
\* on.  For an edit of another field that is its copy of the entry: such an edit
\* undoes a tick that fell between the copy and the share's read.
TickSurvives ==
    [][\A i \in Live(db) : i \in Live(db)' => \A e \in DOMAIN db.settings[i] :
         (/\ ~db.settings[i][e].on
          /\ e \in DOMAIN db'.settings[i]
          /\ db'.settings[i][e].on)
         => \E p \in Procs : /\ op[p] # Empty
                             /\ op[p].run[i] # Empty
                             /\ ~op[p].run[i].base[e].on
                             /\ BringsOn(op[p], i, e)]_vars

\* A commit on an inbound leaves the clients alone it is not about.
OthersUntouched ==
    [][\A p \in Procs, i \in Live(db) :
         (Careful /\ op[p] # Empty /\ op[p].run[i] # Empty /\ op'[p] # Empty /\ op'[p].run[i] = Empty
          /\ i \in Live(db)')
         => \A e \in Emails \ (op[p].emails \cup DOMAIN op[p].load[i]) :
              e \in DOMAIN db.settings[i] <=> e \in DOMAIN db'.settings[i]]_vars
============================================================================
