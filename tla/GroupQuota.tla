----------------------------- MODULE GroupQuota -----------------------------
(***************************************************************************)
(* The shared quota of a client group: what the members are charged, and   *)
(* whom the quota switches off and on again.                               *)
(*                                                                         *)
(* The group keeps no counter.  Its usage is a carry plus, for every       *)
(* membership row, the client's counter minus a baseline; whatever lowers  *)
(* a counter or ends a membership must move the difference into the carry  *)
(* first.  A membership row also records that the group disabled the       *)
(* client, so that a reset of the group enables those clients and no other.*)
(*                                                                         *)
(* db is the database; every step on it is a transaction.  A traffic tick  *)
(* and the resets of clients run on the serial writer, the operations on   *)
(* groups do not.  Up and down are one counter, multipliers are 1.  Of the *)
(* client's switch the module has the traffic row, which the quota reads;  *)
(* the settings, the record and the core are not here.                     *)
(***************************************************************************)
EXTENDS Naturals, FiniteSets, Functions

CONSTANTS
    Clients,    \* client e-mails
    Groups,     \* group names
    None,       \* no row, no group
    Quotas,     \* quota_bytes (0: no limit)
    Workloads,  \* what may happen: see the assumption
    MaxBytes    \* bound on the bytes a client carries in all

\* The operations, the groups in use (each has a quota row from the start, and
\* clients move between them), their quotas, and how many operations.
ASSUME GroupQuotaAssumption ==
    /\ \A w \in Workloads :
         /\ w.kinds \subseteq {"reset", "delete", "move", "group", "fail", "expire", "update",
                            "enable", "config", "renew", "rename"}
         /\ w.groups \subseteq Groups /\ w.quotas \subseteq Quotas /\ w.ops \in Nat
    /\ Quotas \subseteq Nat
    /\ IsFiniteSet(Clients)
    /\ None \notin Nat \cup Groups
    /\ MaxBytes \in Nat

VARIABLES
    db,        \* the rows (see Init)
    tick,      \* addTrafficLocked between its two transactions
    renaming,  \* replaceGroupValue between its two transactions
    updating,  \* ClientService.Update between its transactions
    consumed,  \* bytes a group's members carried since it was configured or
               \* last reset (history)
    reason,    \* what switched the client off (history)
    apart,     \* groups in which a counter moved under the row of a client that
               \* is in another group, since the group's last reset (history)
    carried,   \* bytes of each client
    ops,       \* operations used of workload.ops
    workload   \* what happens in this behaviour

vars == <<db, tick, renaming, updating, consumed, reason, apart, carried, ops, workload>>

\* client_traffics.up + down and enable, an expiry date that has passed,
\* clients.group_name, the membership rows (baseline and disabled_by_group),
\* the quota rows.
Init ==
    /\ workload \in Workloads
    /\ \E group \in [Clients -> workload.groups \cup {None}],
          quota \in [workload.groups -> workload.quotas] :
         db = [used |-> [c \in Clients |-> 0],
               enable |-> [c \in Clients |-> TRUE],
               expired |-> [c \in Clients |-> FALSE],
               group |-> group,
               base |-> [g \in Groups |-> [c \in Clients |-> None]],
               owned |-> [g \in Groups |-> [c \in Clients |-> FALSE]],
               quota |-> [g \in Groups |-> IF g \in DOMAIN quota THEN quota[g] ELSE None],
               carry |-> [g \in Groups |-> 0]]
    /\ tick = FALSE
    /\ renaming = None
    /\ updating = None
    /\ apart = {}
    /\ consumed = [g \in Groups |-> 0]
    /\ reason = [c \in Clients |-> None]
    /\ carried = [c \in Clients |-> 0]
    /\ ops = 0

Op(kind) ==
    /\ kind \in workload.kinds
    /\ ops < workload.ops
    /\ ops' = ops + 1
    /\ UNCHANGED workload

Live(d) == {c \in Clients : d.used[c] # None}

Members(d, g) == {c \in Clients : d.base[g][c] # None}

\* max(ct - base, 0) of a membership row whose client still has a counter.
Share(d, g, c) ==
    IF c \in Members(d, g) /\ c \in Live(d) /\ d.used[c] > d.base[g][c]
      THEN d.used[c] - d.base[g][c] ELSE 0

\* memberTotals plus the carry.
Used(d, g) == d.carry[g] + SumFunctionOnSet([c \in Clients |-> Share(d, g, c)], Clients)

Depleted(d, g) == d.quota[g] # None /\ d.quota[g] > 0 /\ Used(d, g) >= d.quota[g]

----------------------------------------------------------------------------
(***************************************************************************)
(* The operations of the quota package, each on a database value.          *)
(***************************************************************************)

\* ensureMembership: an existing row keeps its baseline.
EnsureMembership(d, g, c, b) ==
    IF g = None \/ d.base[g][c] # None THEN d
    ELSE [d EXCEPT !.base[g][c] = b, !.owned[g][c] = FALSE]

\* Mutant: the baseline is the counter after the poll.
ApplyClientDeltasLate(d, c, n) == EnsureMembership(d, d.group[c], c, d.used[c])

\* ApplyClientDeltas, after the counter was raised by n.
ApplyClientDeltas(d, c, n) ==
    EnsureMembership(d, d.group[c], c, d.used[c] - n)

\* DepletedEmails: the enabled members of depleted groups, now owned by them.
DepletedEmails(d) ==
    {c \in Live(d) : d.enable[c] /\ \E g \in Groups : Depleted(d, g) /\ c \in Members(d, g)}

MarkOwned(d) ==
    [d EXCEPT !.owned = [g \in Groups |-> [c \in Clients |->
         d.owned[g][c] \/ (Depleted(d, g) /\ c \in Members(d, g) \cap DepletedEmails(d))]]]

\* ClearOwnership, and the deletion of rows, for the clients in C.
ClearOwnership(d, C) ==
    [d EXCEPT !.owned = [g \in Groups |-> [c \in Clients |-> d.owned[g][c] /\ c \notin C]]]

Switch(d, C, e) ==
    [d EXCEPT !.enable = [c \in Clients |-> IF c \in C THEN e ELSE d.enable[c]]]

Expired(d) == {c \in Live(d) : d.enable[c] /\ d.expired[c]}

\* disableInvalidClients: a client with a reason of its own loses its owner.
DisableInvalidClients(d, emails) ==
    Switch(ClearOwnership(d, Expired(d)), emails \cup Expired(d), FALSE)

\* Mutant: the clients are switched off without being marked.
EnforceUnmarked(d) == DisableInvalidClients(d, DepletedEmails(d))

\* DepletedEmails followed by disableInvalidClients (reconcileGroupQuotaRuntime).
Enforce(d) ==
    DisableInvalidClients(MarkOwned(d), DepletedEmails(d))

\* Mutant: whoever is a member is enabled.
RecoverGroupAll(d, g) ==
    IF Depleted(d, g) THEN d ELSE Switch(ClearOwnership(d, Members(d, g)), Members(d, g), TRUE)

\* recoverGroup: a group below its quota releases the clients it owns.
RecoverGroup(d, g) ==
    LET owned == {c \in Members(d, g) : d.owned[g][c]}
    IN  IF Depleted(d, g) THEN d
        ELSE Switch([d EXCEPT !.owned[g] = [c \in Clients |-> FALSE]], owned, TRUE)

\* ReconcileEnabled: enforce, then release every group that is not depleted.
ReconcileEnabled(d) ==
    LET free == {g \in Groups : d.quota[g] # None /\ ~Depleted(d, g)}
        off == Switch(MarkOwned(d), DepletedEmails(d), FALSE)
    IN  Switch([off EXCEPT !.owned = [g \in Groups |-> [c \in Clients |->
                                          off.owned[g][c] /\ g \notin free]]],
               {c \in Clients : \E g \in free : c \in Members(d, g) /\ off.owned[g][c]}, TRUE)

\* PreserveReset, before the counter becomes new; without a quota row or a
\* membership nothing happens.
PreserveReset(d, c, new) ==
    LET g == d.group[c]
    IN  IF g = None \/ d.quota[g] = None \/ d.base[g][c] = None THEN d
        ELSE [d EXCEPT !.carry[g] = @ + Share(d, g, c), !.base[g][c] = new]

\* A membership row ends: its share stays in the carry of a configured group.
EndMembership(d, g, c) ==
    [d EXCEPT !.carry[g] = IF d.quota[g] = None THEN @ ELSE @ + Share(d, g, c),
              !.base[g][c] = None, !.owned[g][c] = FALSE]

\* RemoveMembershipByEmail.
RemoveMembership(d, c) ==
    [d EXCEPT !.carry = [g \in Groups |->
                            IF d.quota[g] = None THEN @[g] ELSE @[g] + Share(d, g, c)],
              !.base = [g \in Groups |-> [@[g] EXCEPT ![c] = None]],
              !.owned = [g \in Groups |-> [@[g] EXCEPT ![c] = FALSE]]]

\* ChangeMembership: the row in the old group ends, one in the new group begins.
ChangeMembership(d, c, old, new) ==
    LET left == IF old = None THEN d ELSE EndMembership(d, old, c)
    IN  IF new = old THEN d
        ELSE IF c \in Live(d) THEN EnsureMembership(left, new, c, d.used[c]) ELSE left

\* The update of clients.group_name; a deleted client has no record.
SetGroup(d, c, g) == [d EXCEPT !.group[c] = IF c \in Live(d) THEN g ELSE @]

\* syncMemberships: every client of the group gets a row.
SyncMemberships(d, g) ==
    LET joining == {c \in Live(d) \ Members(d, g) : d.group[c] = g}
    IN  [d EXCEPT !.base[g] = [c \in Clients |-> IF c \in joining THEN d.used[c] ELSE @[c]],
                  !.owned[g] = [c \in Clients |-> @[c] /\ c \notin joining]]

----------------------------------------------------------------------------
(***************************************************************************)
(* History: who was switched off, and by what.                             *)
(***************************************************************************)

\* A client that goes off without a reason of its own was switched off by a
\* group, unless the operator did it (C).  One that leaves the group that owns
\* it stays off: no later reset of a group is to enable it.
Reasons(old, new, C) ==
    [c \in Clients |->
        IF new.enable[c] THEN None
        ELSE IF c \in C THEN "manual"
        ELSE IF old.enable[c] THEN IF new.expired[c] THEN "own" ELSE "group"
        ELSE IF /\ \E g \in Groups : old.owned[g][c] /\ c \notin Members(new, g)
                /\ \A g \in Groups : ~new.owned[g][c]
             THEN "left"
        ELSE reason[c]]

Commit(new) ==
    /\ db' = new
    /\ reason' = Reasons(db, new, {})

\* The groups that charge the client although it is in another one, or in none.
Astray(c) == {g \in Groups : c \in Members(db, g) /\ db.group[c] # g}

----------------------------------------------------------------------------
(***************************************************************************)
(* The traffic tick.                                                       *)
(***************************************************************************)

\* The durable transaction: the counter, then the membership.
AddTraffic(c, n) ==
    /\ ~tick
    /\ c \in Live(db)
    /\ carried[c] + n <= MaxBytes
    /\ LET d == [db EXCEPT !.used[c] = @ + n]
       IN  Commit(ApplyClientDeltas(d, c, n))
    /\ carried' = [carried EXCEPT ![c] = @ + n]
    /\ consumed' = [g \in Groups |->
                      IF g = db.group[c] /\ db.quota[g] # None THEN consumed[g] + n ELSE consumed[g]]
    /\ apart' = apart \cup Astray(c)
    /\ tick' = TRUE
    /\ UNCHANGED <<renaming, updating, ops, workload>>

\* autoRenewClients: the expired clients in R start a new period, counters at 0.
Renew(d, R) ==
    [d EXCEPT !.used = [c \in Clients |-> IF c \in R THEN 0 ELSE d.used[c]],
              !.expired = [c \in Clients |-> d.expired[c] /\ c \notin R],
              !.enable = [c \in Clients |-> d.enable[c] \/ c \in R]]

\* Mutant: the groups are judged before the renewals.
MaintainRenewsLast(R) ==
    /\ tick
    /\ R \subseteq {c \in Live(db) : db.expired[c]}
    /\ R # {} => "renew" \in workload.kinds
    /\ Commit(Renew(Enforce(db), R))
    /\ tick' = FALSE
    /\ UNCHANGED <<renaming, updating, consumed, apart, carried, ops, workload>>

\* Lifecycle maintenance: renewals, then the groups are judged.
Maintain(R) ==
    /\ tick
    /\ R \subseteq {c \in Live(db) : db.expired[c]}
    /\ R # {} => "renew" \in workload.kinds
    /\ Commit(Enforce(Renew(db, R)))
    /\ tick' = FALSE
    /\ UNCHANGED <<renaming, updating, consumed, apart, carried, ops, workload>>

\* The maintenance transaction fails; the error is logged, the tick is over.
MaintainFails ==
    /\ tick
    /\ "fail" \in workload.kinds
    /\ tick' = FALSE
    /\ UNCHANGED <<db, renaming, updating, consumed, reason, apart, carried, ops, workload>>

\* A client's expiry date passes.
Expire(c) ==
    /\ Op("expire")
    /\ c \in Live(db)
    /\ ~db.expired[c]
    /\ db' = [db EXCEPT !.expired[c] = TRUE]
    /\ UNCHANGED <<tick, renaming, updating, consumed, reason, apart, carried>>

----------------------------------------------------------------------------
(***************************************************************************)
(* Operations on clients.                                                  *)
(***************************************************************************)

Zeroed(c) == [PreserveReset(db, c, 0) EXCEPT !.used[c] = 0, !.enable[c] = TRUE]

\* BulkResetTraffic, ResetAllClientTraffics, ResetAllTraffics and
\* ResetClientTrafficByEmail.
ResetTraffic(c) ==
    /\ Op("reset")
    /\ ~tick
    /\ c \in Live(db)
    /\ db' = ReconcileEnabled(Zeroed(c))
    /\ reason' = Reasons(Switch(db, {c}, TRUE), db', {})
    /\ apart' = apart \cup Astray(c)
    /\ UNCHANGED <<tick, renaming, updating, consumed, carried>>

\* resetClientTrafficLocked records the owners, then applies the disable when
\* the client is blocked.
ResetClientTraffic(c) ==
    /\ Op("reset")
    /\ ~tick
    /\ c \in Live(db)
    /\ LET d == MarkOwned(Zeroed(c))
           blocked == \E g \in Groups : d.owned[g][c]
       IN  db' = IF blocked THEN Enforce(d) ELSE d
    /\ reason' = Reasons(Switch(db, {c}, TRUE), db', {})
    /\ apart' = apart \cup Astray(c)
    /\ UNCHANGED <<tick, renaming, updating, consumed, carried>>

\* IsBlocked: owned by a group, or in a depleted one.
Blocked(d, c) ==
    \/ \E g \in Groups : d.owned[g][c]
    \/ d.group[c] # None /\ Depleted(d, d.group[c])

\* BulkSetEnable.  A blocked client is reported as skipped: its traffic row stays
\* off (its settings and its record are switched on all the same, see the README).
SetEnable(c, e) ==
    /\ Op("enable")
    /\ ~tick
    /\ c \in Live(db)
    /\ IF e THEN /\ ~Blocked(db, c)
                 /\ db' = Enforce(Switch(db, {c}, TRUE))
                 /\ reason' = Reasons(Switch(db, {c}, TRUE), db', {})
            ELSE /\ db' = Switch(ClearOwnership(db, {c}), {c}, FALSE)
                 /\ reason' = Reasons(db, db', {c})
    /\ UNCHANGED <<tick, renaming, updating, consumed, apart, carried>>

\* ClientService.Update with the switch e and the group g reads the client and
\* asks for its block; the rest of the call uses what was read.
UpdateClient(c, e, g) ==
    /\ Op("update")
    /\ updating = None
    /\ c \in Live(db)
    /\ e => ~Blocked(db, c)
    /\ updating' = [pc |-> "shares", client |-> c, enable |-> e, group |-> g,
                    was |-> db.enable[c], from |-> db.group[c]]
    /\ UNCHANGED <<db, tick, renaming, consumed, reason, apart, carried>>

\* The transactions of the inbounds' shares, which write the same: the switch and,
\* when there is one, the name of the new group.
UpdateShares ==
    LET c == updating.client
        e == updating.enable
        d == Switch(db, {c}, e)
    IN  /\ updating # None /\ updating.pc = "shares"
        /\ ~tick
        /\ c \in Live(db)
        /\ db' = IF updating.group = None THEN d ELSE SetGroup(d, c, updating.group)
        /\ reason' = Reasons(IF e THEN d ELSE db, db', IF e THEN {} ELSE {c})
        /\ updating' = [updating EXCEPT !.pc = "group"]
        /\ UNCHANGED <<tick, renaming, consumed, apart, carried, ops, workload>>

\* The memberships follow in a transaction of their own, from the group read at
\* the start.
UpdateGroup ==
    LET c == updating.client
    IN  /\ updating # None /\ updating.pc = "group"
        /\ Commit(SetGroup(ChangeMembership(db, c, updating.from, updating.group),
                           c, updating.group))
        /\ updating' = [updating EXCEPT !.pc = "judge"]
        /\ UNCHANGED <<tick, renaming, consumed, apart, carried, ops, workload>>

\* The groups are judged, and a changed switch clears the ownership.
UpdateEnds ==
    LET u == updating
        d == IF u.group # u.from \/ u.enable THEN Enforce(db) ELSE db
    IN  /\ updating # None /\ updating.pc = "judge"
        /\ Commit(IF u.enable # u.was THEN ClearOwnership(d, {u.client}) ELSE d)
        /\ updating' = None
        /\ UNCHANGED <<tick, renaming, consumed, apart, carried, ops, workload>>

\* A share or a transaction fails, or the client is gone: Update returns at once.
UpdateFails ==
    /\ updating # None
    /\ "fail" \in workload.kinds \/ updating.client \notin Live(db)
    /\ updating' = None
    /\ UNCHANGED <<db, tick, renaming, consumed, reason, apart, carried, ops, workload>>

\* DelClientStat: the memberships end before the counter goes.
DeleteClient(c) ==
    /\ Op("delete")
    /\ ~tick
    /\ c \in Live(db)
    /\ LET d == RemoveMembership(db, c)
       IN  Commit([d EXCEPT !.used[c] = None, !.group[c] = None, !.expired[c] = FALSE])
    /\ UNCHANGED <<tick, renaming, updating, consumed, apart, carried>>

----------------------------------------------------------------------------
(***************************************************************************)
(* Operations on groups.                                                   *)
(***************************************************************************)

\* UpsertConfig and ReconcileEnabled in one transaction.
UpsertConfig(g, q) ==
    /\ Op("config")
    /\ db.quota[g] # q
    /\ LET d == SyncMemberships([db EXCEPT !.quota[g] = q,
                                           !.carry[g] = IF db.quota[g] = None THEN 0 ELSE @], g)
       IN  Commit(ReconcileEnabled(IF db.quota[g] = None THEN d ELSE RecoverGroup(d, g)))
    /\ consumed' = IF db.quota[g] = None THEN [consumed EXCEPT ![g] = 0] ELSE consumed
    /\ UNCHANGED <<tick, renaming, updating, apart, carried>>

\* Reset by the API, by ResetGroupTraffic or by the periodic job: new
\* baselines, no carry, and the clients the group owns are enabled.
ResetGroup(g) ==
    /\ Op("group")
    /\ db.quota[g] # None
    /\ LET owned == {c \in Members(db, g) \cap Live(db) : db.owned[g][c]}
           d == [db EXCEPT !.base[g] = [c \in Clients |->
                              IF c \in Members(db, g) \cap Live(db) THEN db.used[c] ELSE @[c]],
                           !.owned[g] = [c \in Clients |-> @[c] /\ c \notin Live(db)],
                           !.carry[g] = 0]
       IN  Commit(Switch(d, owned, TRUE))
    /\ consumed' = [consumed EXCEPT ![g] = 0]
    /\ apart' = apart \ {g}
    /\ UNCHANGED <<tick, renaming, updating, carried>>

\* AddToGroup and RemoveFromGroup.
AddToGroup(c, g) ==
    /\ Op("move")
    /\ c \in Live(db)
    /\ db.group[c] # g
    /\ Commit(Enforce(SetGroup(ChangeMembership(db, c, db.group[c], g), c, g)))
    /\ UNCHANGED <<tick, renaming, updating, consumed, apart, carried>>

\* RenameGroup of the quota package: the quota row and the memberships.
RenameQuota(d, g, new) ==
    IF new = None
      THEN [d EXCEPT !.quota[g] = None, !.carry[g] = 0,
                     !.base[g] = [c \in Clients |-> None],
                     !.owned[g] = [c \in Clients |-> FALSE]]
      ELSE [d EXCEPT !.quota[new] = d.quota[g], !.quota[g] = None,
                     !.carry[new] = d.carry[g], !.carry[g] = 0,
                     !.base[new] = d.base[g], !.base[g] = [c \in Clients |-> None],
                     !.owned[new] = d.owned[g], !.owned[g] = [c \in Clients |-> FALSE]]

\* replaceGroupValue renames (or deletes) the quota in one transaction ...
RenameGroup(g, new) ==
    /\ Op("rename")
    /\ renaming = None
    /\ g # new
    /\ db.quota[g] # None
    /\ new # None => db.quota[new] = None /\ Members(db, new) = {}
                     /\ \A c \in Clients : db.group[c] # new
    /\ Commit(RenameQuota(db, g, new))
    /\ consumed' = [h \in Groups |-> CASE h = g -> 0
                                       [] h = new -> consumed[g]
                                       [] OTHER -> consumed[h]]
    /\ renaming' = [from |-> g, to |-> new]
    /\ UNCHANGED <<tick, updating, apart, carried>>

\* ... and the clients' group name in another.
RenameClients ==
    /\ renaming # None
    /\ db' = [db EXCEPT !.group = [c \in Clients |-> IF @[c] = renaming.from THEN renaming.to
                                                     ELSE @[c]]]
    /\ renaming' = None
    /\ UNCHANGED <<tick, updating, consumed, reason, apart, carried, ops, workload>>

----------------------------------------------------------------------------
ClientStep(c) ==
    \/ AddTraffic(c, 1) \/ Expire(c) \/ ResetTraffic(c) \/ ResetClientTraffic(c)
    \/ DeleteClient(c)
    \/ \E e \in BOOLEAN : SetEnable(c, e)
    \/ \E e \in BOOLEAN, g \in workload.groups \cup {None} : UpdateClient(c, e, g)
    \/ \E g \in workload.groups \cup {None} : AddToGroup(c, g)

GroupStep(g) ==
    \/ \E q \in workload.quotas : UpsertConfig(g, q)
    \/ ResetGroup(g)
    \/ \E new \in workload.groups \cup {None} : RenameGroup(g, new)

Next ==
    \/ \E c \in Clients : ClientStep(c)
    \/ \E g \in workload.groups : GroupStep(g)
    \/ \E R \in SUBSET Clients : Maintain(R)
    \/ MaintainFails
    \/ RenameClients
    \/ UpdateShares \/ UpdateGroup \/ UpdateEnds \/ UpdateFails

Spec == Init /\ [][Next]_vars

----------------------------------------------------------------------------
(***************************************************************************)
(* Properties.                                                             *)
(***************************************************************************)

\* ApplyClientDeltas, comment at groupquota.go:152: "the current poll is charged
\* exactly once", and PreserveReset, at groupquota.go:589: "the consumed amount
\* now held in carry cannot be counted again or disappear".  A configured group
\* is charged exactly the bytes its members carried since its last reset,
\* through resets, deletions, moves and interrupted edits of clients.  The one
\* exception among these: ClientService.Update names the new group before it moves
\* the membership, and never moves it when a share fails; a group whose row the
\* client kept is off from the moment the client's counter moves (apart) to the
\* group's next reset.  (A renewal, a rename and a quota row made after the
\* counters break it too: see the README.)
ChargedOnce ==
    workload.kinds \cap {"renew", "config", "rename"} = {} =>
        \A g \in Groups \ apart : db.quota[g] # None => Used(db, g) = consumed[g]

\* addTrafficLocked, comment at inbound_traffic.go:81: "a renewal may set
\* enable=true, but a depleted group must still own and immediately re-disable
\* that client".  After the maintenance no member of a depleted group is on.
EnforcedAfterTick ==
    [][tick /\ ~tick' /\ db # db'
         => \A g \in Groups : Depleted(db', g)
              => \A c \in Members(db', g) \cap Live(db') : ~db'.enable[c]]_vars

\* The operations after which the mark of a group and the reason a client is off
\* may part: ClientService.Update clears the mark it has just set, an expiry that
\* passes while the client is off leaves it, and a renewal enables within a tick.
OwnershipExact == workload.kinds \cap {"update", "expire", "renew"} = {}

\* DepletedEmails, comment at groupquota.go:355: it "records ownership but leaves
\* lifecycle/runtime application to the upstream disable/reconcile path".  A
\* client a group switched off is owned by a group as long as it stays in it, so
\* that the group's reset does enable it again.
ReleasedByReset ==
    OwnershipExact =>
        \A c \in Live(db) :
            ~db.enable[c] /\ reason[c] = "group" => \E g \in Groups : db.owned[g][c]

\* recoverGroup, comment at groupquota.go:406: "It deliberately does not
\* touch clients lacking the marker, so unrelated manual, individual-quota,
\* expiry, policy, or quarantine disables remain disabled."  A step on a group
\* enables only clients a group switched off.
RevivesOnlyOwn ==
    [][\A g \in Groups :
         /\ OwnershipExact
         /\ (\E q \in Quotas : UpsertConfig(g, q)) \/ ResetGroup(g)
         => \A c \in Clients : ~db.enable[c] /\ db'.enable[c] => reason[c] = "group"]_vars
=============================================================================
