------------------------- MODULE ClientStoreProofs --------------------------
(***************************************************************************)
(* Proofs about ClientStore, for any inbounds, e-mails, requests and       *)
(* workloads.                                                              *)
(***************************************************************************)
EXTENDS ClientStore, FiniteSetTheorems, TLAPS

Fields == {"settings", "rec", "link", "stat", "next"}

\* The operations on rows leave the settings of all inbounds alone.
SameSettings(d, m) == Fields \subseteq DOMAIN m /\ m.settings = d.settings

LEMMA MergeSettings ==
  ASSUME NEW d, Fields \subseteq DOMAIN d, NEW entries
  PROVE  SameSettings(d, MergeRecords(d, entries))
  BY DEF SameSettings, Fields, MergeRecords

LEMMA SyncSettings ==
  ASSUME NEW d, Fields \subseteq DOMAIN d, NEW i, NEW entries, NEW detach, NEW prune
  PROVE  SameSettings(d, SyncClients(d, i, entries, detach, prune))
<1>1. PICK m : m = MergeRecords(d, entries) /\ SameSettings(d, m)
  BY MergeSettings
<1> QED BY <1>1 DEF SameSettings, Fields, SyncClients

LEMMA StatSettings ==
  ASSUME NEW d, Fields \subseteq DOMAIN d, NEW i, NEW e, NEW f, NEW E, NEW entry, NEW new
  PROVE  /\ SameSettings(d, DelStats(d, E)) /\ SameSettings(d, AddStats(d, new))
         /\ SameSettings(d, UpdateStat(d, e, f, entry))
         /\ SameSettings(d, RenameStat(d, i, e, f, entry))
<1>1. SameSettings(d, DelStats(d, E)) /\ SameSettings(d, AddStats(d, new))
  BY DEF SameSettings, Fields, DelStats, AddStats
<1>2. ASSUME NEW k, Fields \subseteq DOMAIN k, NEW x PROVE SameSettings(k, UpdateStat(k, x, f, entry))
  BY <1>2 DEF SameSettings, Fields, UpdateStat
<1>3. SameSettings(d, DelStats(d, {e}))
  BY DEF SameSettings, Fields, DelStats
<1>4. SameSettings(d, RenameStat(d, i, e, f, entry))
  <2>1. CASE e = f \/ f \notin DOMAIN d.stat
    BY <1>2, <2>1 DEF RenameStat
  <2>2. CASE ~(e = f \/ f \notin DOMAIN d.stat)
    <3>1. PICK k : /\ k = IF UsedElsewhere(d, e, i) THEN d ELSE DelStats(d, {e})
                   /\ SameSettings(d, k)
      BY <1>3 DEF SameSettings
    <3>2. RenameStat(d, i, e, f, entry) = UpdateStat(k, f, f, entry)
      BY <2>2, <3>1 DEF RenameStat
    <3> QED BY <1>2, <3>1, <3>2 DEF SameSettings
  <2> QED BY <2>1, <2>2
<1> QED BY <1>1, <1>2, <1>4

LEMMA RecordSettings ==
  ASSUME NEW d, Fields \subseteq DOMAIN d, NEW e, NEW f, NEW E, NEW on, NEW ids
  PROVE  /\ SameSettings(d, RenameRecord(d, e, f)) /\ SameSettings(d, SetOn(d, E, on))
         /\ SameSettings(d, Erased(d, ids, E))
<1>1. SameSettings(d, RenameRecord(d, e, f))
  BY DEF SameSettings, Fields, RenameRecord
<1>2. SameSettings(d, SetOn(d, E, on))
  BY DEF SameSettings, Fields, SetOn
<1>3. SameSettings(d, Erased(d, ids, E))
  BY DEF SameSettings, Fields, Erased
<1> QED BY <1>1, <1>2, <1>3

LEMMA FinishSettings ==
  ASSUME NEW d, Fields \subseteq DOMAIN d, NEW o
  PROVE  SameSettings(d, Finished(d, o))
<1>1. ASSUME NEW n PROVE SameSettings(d, Updated(d, o, n))
  BY DEF SameSettings, Fields, Updated
<1>2. SameSettings(d, d)
  BY DEF SameSettings
<1>3. ASSUME NEW E, NEW ids, NEW on
      PROVE  /\ SameSettings(d, Erased(d, ids, E)) /\ SameSettings(d, SetOn(d, E, on))
             /\ SameSettings(d, DelStats(d, E))
  BY RecordSettings, StatSettings
<1> QED BY <1>1, <1>2, <1>3 DEF Finished

LEMMA SaveSettings ==
  ASSUME NEW d, Fields \subseteq DOMAIN d, NEW i
  PROVE  SameSettings(d, Saved(d, i))
<1> DEFINE k == [d EXCEPT !.stat = SavedStats(d, d.settings[i])]
<1>1. SameSettings(d, k)
  BY DEF SameSettings, Fields
<1>2. PICK yes : yes = TRUE
  OBVIOUS
<1>3. Saved(d, i) = SyncClients(k, i, d.settings[i], {}, yes)
  BY <1>2 DEF Saved, SyncInbound
<1> HIDE DEF k
<1>4. SameSettings(k, SyncClients(k, i, d.settings[i], {}, yes))
  BY <1>1, SyncSettings DEF SameSettings
<1> QED BY <1>1, <1>3, <1>4 DEF SameSettings

----------------------------------------------------------------------------
(***************************************************************************)
(* Requests and their shares.                                              *)
(***************************************************************************)

\* Entries of a client list.
Full(s) == \A e \in DOMAIN s : {"cred", "on", "lim"} \subseteq DOMAIN s[e]

Shape(d) ==
    /\ Fields \subseteq DOMAIN d /\ DOMAIN d.settings = Inbounds
    /\ \A i \in Live(d) : Full(d.settings[i])

ReqShape(o) ==
    /\ {"kind", "ids", "load", "names", "emails", "keep", "field", "payload", "todo", "run",
        "failed", "depleted"} \subseteq DOMAIN o
    /\ DOMAIN o.run = Inbounds /\ o.todo \subseteq Inbounds
    /\ o.kind \in Adds \cup Updates => \A i \in Inbounds : Full(o.load[i])
    /\ o.kind = "adjust" => o.field = "lim"
    /\ o.kind = "enable" => o.field = "on"

\* The enable a request brings for client e of inbound i.
Brings(o, i, e, on) ==
    /\ e \in DOMAIN o.load[i]
    /\ \/ o.kind = "enable" /\ on = o.load[i][e]
       \/ o.kind \in Updates /\ on = o.load[i][e].on

\* A share that has read its inbound holds the inbound's lock: the clients are the
\* ones it read, and only the enable it was asked to set differs.
Holds(d, o, i, r) ==
    /\ {"base", "ours", "new", "drop"} \subseteq DOMAIN r
    /\ i \in Live(d) => DOMAIN d.settings[i] = DOMAIN r.base
    /\ Full(r.base) /\ Full(r.ours)
    /\ \A e \in DOMAIN r.ours \cap DOMAIN r.base :
         r.ours[e].on # r.base[e].on => Brings(o, i, e, r.ours[e].on)

Serves(d, o) ==
    /\ ReqShape(o)
    /\ \A i \in Inbounds : o.run[i] # Empty => Holds(d, o, i, o.run[i])

Busy(o, i) == o # Empty /\ o.run[i] # Empty

LockInv ==
    /\ Shape(db) /\ workload \in Workloads /\ DOMAIN op = Procs
    /\ \A p \in Procs : op[p] # Empty => Serves(db, op[p])
    /\ \A p, q \in Procs, i \in Inbounds : Busy(op[p], i) /\ Busy(op[q], i) => p = q

\* What a share computes: the entries it leaves, adds and drops, and whose enable
\* it changes.
OursTo(d, o, i, s) ==
    LET base == d.settings[i]
        E == DOMAIN o.load[i]
    IN  /\ Full(s)
        /\ o.kind \in Adds => DOMAIN s = {e \in DOMAIN base : HasRecord(d, e)} \cup (E \ DOMAIN base)
        /\ o.kind \in Updates => DOMAIN s = E \cup (DOMAIN base \ {From(o)})
        /\ o.kind \in Edits => DOMAIN s = DOMAIN base
        /\ o.kind \notin Adds \cup Updates \cup Edits
             => DOMAIN s = {e \in DOMAIN base \ E : HasRecord(d, e)}
        /\ \A e \in DOMAIN s \cap DOMAIN base :
             s[e].on # base[e].on => Brings(o, i, e, s[e].on)

LEMMA OursFacts ==
  ASSUME NEW d, NEW o, NEW i \in Live(d), Shape(d), ReqShape(o)
  PROVE  OursTo(d, o, i, Ours(d, o, i))
<1> DEFINE base == d.settings[i]
           load == o.load[i]
           E == DOMAIN load
<1>1. Full(base) /\ i \in Inbounds
  BY DEF Shape, Live
<1>2. CASE o.kind \in Adds
  <2>1. PICK a : a = CompactOrphans(d, base)
    OBVIOUS
  <2>2. PICK b : b = Without(load, DOMAIN base)
    OBVIOUS
  <2>3. Ours(d, o, i) = Over(a, b)
    BY <1>2, <2>1, <2>2 DEF Ours, Adds, Updates, Edits
  <2>4. /\ DOMAIN a = {e \in DOMAIN base : HasRecord(d, e)}
        /\ \A e \in DOMAIN a : a[e] = base[e]
    BY <2>1 DEF CompactOrphans, Without
  <2>5. DOMAIN b = E \ DOMAIN base /\ \A e \in DOMAIN b : b[e] = load[e]
    BY <2>2 DEF Without
  <2>6. Full(load)
    BY <1>1, <1>2 DEF ReqShape
  <2>7. PICK s : s = Over(a, b)
    OBVIOUS
  <2>8. /\ DOMAIN s = DOMAIN a \cup DOMAIN b
        /\ \A e \in DOMAIN a : s[e] = base[e]
        /\ \A e \in DOMAIN b : s[e] = load[e] /\ e \notin DOMAIN base
    BY <2>4, <2>5, <2>7 DEF Over
  <2>9. OursTo(d, o, i, s)
    BY <1>1, <1>2, <2>4, <2>5, <2>6, <2>8 DEF OursTo, Full, Adds, Updates, Edits
  <2> QED BY <2>3, <2>7, <2>9
<1>3. CASE o.kind \in Updates
  <2>2. PICK b : b = Without(base, {From(o)})
    OBVIOUS
  <2>3. PICK s : s = Ours(d, o, i) /\ s = Over(load, b)
    BY <1>3, <2>2 DEF Ours, Adds, Updates, Edits
  <2>5. DOMAIN b = DOMAIN base \ {From(o)} /\ \A e \in DOMAIN b : b[e] = base[e]
    BY <2>2 DEF Without
  <2>6. Full(load)
    BY <1>1, <1>3 DEF ReqShape
  <2>8. /\ DOMAIN s = E \cup DOMAIN b
        /\ \A e \in E : s[e] = load[e]
        /\ \A e \in DOMAIN b \ E : s[e] = base[e]
    BY <2>3, <2>5 DEF Over
  <2>9. OursTo(d, o, i, s)
    BY <1>1, <1>3, <2>5, <2>6, <2>8 DEF OursTo, Full, Brings, Adds, Updates, Edits
  <2> QED BY <2>3, <2>9
<1>4. CASE o.kind \in Edits
  <2>1. PICK s : s = Ours(d, o, i)
    OBVIOUS
  <2>2. s = [e \in DOMAIN base |-> IF e \in E THEN [base[e] EXCEPT ![o.field] = load[e]] ELSE base[e]]
    BY <1>4, <2>1 DEF Ours, Adds, Updates, Edits
  <2>3. DOMAIN s = DOMAIN base /\ Full(s)
    BY <1>1, <2>2 DEF Full
  <2>4. ASSUME NEW e \in DOMAIN base, s[e].on # base[e].on PROVE Brings(o, i, e, s[e].on)
    <3>1. e \in E
      BY <2>2, <2>4
    <3>2. o.kind # "adjust"
      <4>1. SUFFICES ASSUME o.kind = "adjust" PROVE FALSE
        OBVIOUS
      <4>2. o.field = "lim"
        BY <4>1 DEF ReqShape
      <4>3. s[e] = [base[e] EXCEPT !["lim"] = load[e]] /\ "on" \in DOMAIN base[e]
        BY <1>1, <2>2, <3>1, <4>2 DEF Full
      <4> QED BY <2>4, <4>3
    <3>3. o.kind = "enable" /\ o.field = "on"
      BY <1>4, <3>2 DEF Edits, ReqShape
    <3>4. s[e] = [base[e] EXCEPT !["on"] = load[e]] /\ "on" \in DOMAIN base[e]
      BY <1>1, <2>2, <3>1, <3>3 DEF Full
    <3>5. s[e].on = load[e]
      BY <3>4
    <3> QED BY <3>1, <3>3, <3>5 DEF Brings
  <2>5. OursTo(d, o, i, s)
    BY <1>4, <2>3, <2>4 DEF OursTo, Adds, Updates, Edits
  <2> QED BY <2>1, <2>5
<1>5. CASE o.kind \notin Adds \cup Updates \cup Edits
  <2>1. PICK b : b = Without(base, E)
    OBVIOUS
  <2>2. PICK s : s = Ours(d, o, i) /\ s = CompactOrphans(d, b)
    BY <1>5, <2>1 DEF Ours
  <2>3. /\ DOMAIN s = {e \in DOMAIN b : HasRecord(d, e)}
        /\ \A e \in DOMAIN s : s[e] = b[e]
    BY <2>2 DEF CompactOrphans, Without
  <2>4. DOMAIN b = DOMAIN base \ E /\ \A e \in DOMAIN b : b[e] = base[e]
    BY <2>1 DEF Without
  <2>5. OursTo(d, o, i, s)
    BY <1>1, <1>5, <2>3, <2>4 DEF OursTo, Full
  <2> QED BY <2>2, <2>5
<1> QED BY <1>2, <1>3, <1>4, <1>5

----------------------------------------------------------------------------
(***************************************************************************)
(* The lock of an inbound.                                                 *)
(***************************************************************************)

\* A share that has read its inbound.
LEMMA ReadServes ==
  ASSUME NEW d, NEW o, NEW i \in o.todo, Shape(d), Serves(d, o)
  PROVE  /\ Serves(d, AfterRead(d, o, i))
         /\ \A j \in Inbounds \ {i} : AfterRead(d, o, i).run[j] = o.run[j]
<1> DEFINE rest == [o EXCEPT !.todo = @ \ {i}]
<1>0. i \in Inbounds /\ ReqShape(o)
  BY DEF Serves, ReqShape
<1>1. /\ ReqShape(rest) /\ rest.run = o.run /\ rest.kind = o.kind /\ rest.load = o.load
  BY <1>0 DEF ReqShape
<1>2. CASE Refused(d, o, i)
  <2>1. PICK k : k = AfterRead(d, o, i) /\ k = [rest EXCEPT !.failed = @ \cup DOMAIN o.load[i]]
    BY <1>2 DEF AfterRead
  <2>2. ReqShape(k) /\ k.run = o.run /\ k.kind = o.kind /\ k.load = o.load
    BY <1>1, <2>1 DEF ReqShape
  <2> QED BY <2>1, <2>2 DEF Serves, Holds, Brings
<1>3. CASE ~Refused(d, o, i)
  <2> DEFINE r == [base |-> d.settings[i], ours |-> Ours(d, o, i),
                   new |-> Changed(d, o, i), drop |-> Dropped(d, o, i)]
             x == IF NothingToDo(d, o, i) THEN Empty ELSE r
  <2>1. PICK k : /\ k = AfterRead(d, o, i)
                 /\ k = [rest EXCEPT !.failed = @ \cup Missing(d, o, i), !.run[i] = x]
    BY <1>3 DEF AfterRead
  <2>2. i \in Live(d)
    BY <1>3 DEF Refused
  <2>3. OursTo(d, o, i, Ours(d, o, i))
    BY <1>0, <2>2, OursFacts
  <2>4. Full(d.settings[i])
    BY <2>2 DEF Shape
  <2>5. Holds(d, o, i, r)
    BY <2>3, <2>4 DEF OursTo, Holds
  <2> HIDE DEF r, x
  <2>6. ReqShape(k) /\ k.run = [o.run EXCEPT ![i] = x] /\ k.kind = o.kind /\ k.load = o.load
    BY <1>1, <2>1 DEF ReqShape
  <2>7. ASSUME NEW j \in Inbounds, k.run[j] # Empty PROVE Holds(d, k, j, k.run[j])
    <3>1. CASE j = i
      <4>1. k.run[j] = r
        BY <1>0, <2>6, <2>7, <3>1 DEF x, ReqShape
      <4> QED BY <2>5, <2>6, <3>1, <4>1 DEF Holds, Brings
    <3>2. CASE j # i
      <4>1. k.run[j] = o.run[j]
        BY <1>0, <2>6, <3>2 DEF ReqShape
      <4>2. Holds(d, o, j, o.run[j])
        BY <2>7, <4>1 DEF Serves
      <4> QED BY <2>6, <4>1, <4>2 DEF Holds, Brings
    <3> QED BY <3>1, <3>2
  <2> QED BY <1>0, <2>1, <2>6, <2>7 DEF Serves, ReqShape
<1> QED BY <1>2, <1>3

\* Others' shares stay as they are as long as the clients of their inbounds do.
LEMMA ServesOn ==
  ASSUME NEW d, NEW m, NEW o, Serves(d, o), Shape(m), Live(m) \subseteq Live(d),
         \A i \in Live(m) : o.run[i] # Empty => DOMAIN m.settings[i] = DOMAIN d.settings[i]
  PROVE  Serves(m, o)
<1> SUFFICES ASSUME NEW i \in Inbounds, o.run[i] # Empty PROVE Holds(m, o, i, o.run[i])
  BY DEF Serves
<1>1. Holds(d, o, i, o.run[i])
  BY DEF Serves
<1> QED BY <1>1 DEF Holds

\* A request that has given up the share of i, or whose share has gone on.
LEMMA ServesLess ==
  ASSUME NEW d, NEW o, NEW k, NEW i \in Inbounds, Serves(d, o), ReqShape(k),
         k.kind = o.kind, k.load = o.load, k.run = [o.run EXCEPT ![i] = Empty]
  PROVE  Serves(d, k)
<1>1. DOMAIN o.run = Inbounds
  BY DEF Serves, ReqShape
<1>2. \A j \in Inbounds : k.run[j] # Empty => o.run[j] # Empty /\ k.run[j] = o.run[j]
  BY <1>1
<1> QED BY <1>2 DEF Serves, Holds, Brings

----------------------------------------------------------------------------
(***************************************************************************)
(* The commit of a share.                                                  *)
(***************************************************************************)

\* What the merge writes while the lock is held: the clients of the edit, and
\* the stored enable unless the edit set it.
MergedTo(r, current, s) ==
    /\ DOMAIN s = DOMAIN r.ours /\ Full(s)
    /\ \A e \in DOMAIN s \ DOMAIN current : s[e] = r.ours[e]
    /\ \A e \in DOMAIN s \cap DOMAIN current :
         s[e].on = IF r.ours[e].on = r.base[e].on THEN current[e].on ELSE r.ours[e].on

LEMMA RebaseFacts ==
  ASSUME NEW r, NEW current, Full(r.base), Full(r.ours), Full(current), DOMAIN r.base = DOMAIN current
  PROVE  MergedTo(r, current, Rebase(r.base, r.ours, current))
<1> DEFINE base == r.base
           ours == r.ours
<1>1. PICK s : s = Rebase(base, ours, current)
  OBVIOUS
<1>2. DOMAIN s = DOMAIN ours
  BY <1>1 DEF Rebase
<1>3. ASSUME NEW e \in DOMAIN s \cap DOMAIN current
      PROVE  s[e] = MergeFields(base[e], ours[e], current[e])
  BY <1>1, <1>2 DEF Rebase
<1>4. ASSUME NEW e \in DOMAIN s \ DOMAIN current PROVE s[e] = ours[e]
  BY <1>1, <1>2 DEF Rebase
<1>5. ASSUME NEW e \in DOMAIN s \cap DOMAIN current
      PROVE  /\ DOMAIN s[e] = DOMAIN ours[e]
             /\ s[e].on = IF ours[e].on = base[e].on THEN current[e].on ELSE ours[e].on
  <2>1. {"cred", "on", "lim"} \subseteq DOMAIN ours[e]
    BY <1>2 DEF Full
  <2> QED BY <1>3, <2>1 DEF MergeFields
<1>6. Full(s)
  BY <1>2, <1>4, <1>5 DEF Full
<1> QED BY <1>1, <1>2, <1>4, <1>5, <1>6 DEF MergedTo

\* The settings after a commit.
CommitTo(d, o, i, m) ==
    /\ Fields \subseteq DOMAIN m
    /\ m.settings = [d.settings EXCEPT ![i] = Rebase(o.run[i].base, o.run[i].ours, d.settings[i])]

LEMMA CommitFacts ==
  ASSUME NEW d, Fields \subseteq DOMAIN d, NEW o, NEW i
  PROVE  CommitTo(d, o, i, Committed(d, o, i))
<1> DEFINE r == o.run[i]
           to == CHOOSE e \in DOMAIN r.new : TRUE
           s == Rebase(r.base, r.ours, d.settings[i])
           w == [d EXCEPT !.settings[i] = s]
           m == Committed(d, o, i)
<1>1. CommitTo(d, o, i, w)
  BY DEF CommitTo, Fields
<1>2. m = CASE o.kind \in Adds -> ApplyDelta(AddStats(w, r.new), i, r.new, {})
            [] o.kind \in Updates ->
                 ApplyDelta(RenameRecord(RenameStat(w, i, From(o), to, r.new[to]), From(o), to),
                            i, r.new, {From(o)} \ {to})
            [] o.kind \in Deletes -> ApplyDelta(DelStats(w, r.drop), i, Empty, DOMAIN r.new)
            [] OTHER -> SyncInbound(w, i, s)
  BY DEF Committed
<1> HIDE DEF r, s, w, m, to
<1>3. Fields \subseteq DOMAIN w
  BY <1>1 DEF CommitTo
<1>4. PICK yes, no : yes = TRUE /\ no = FALSE
  OBVIOUS
<1>5. SameSettings(w, m)
  <2>1. CASE o.kind \in Adds
    <3>1. PICK a : a = AddStats(w, r.new) /\ SameSettings(w, a)
      BY <1>3, StatSettings
    <3>2. m = SyncClients(a, i, r.new, {}, no)
      BY <1>2, <1>4, <2>1, <3>1 DEF ApplyDelta, Adds, Updates, Deletes
    <3>3. SameSettings(a, SyncClients(a, i, r.new, {}, no))
      BY <3>1, SyncSettings DEF SameSettings
    <3> QED BY <3>1, <3>2, <3>3 DEF SameSettings
  <2>2. CASE o.kind \in Updates
    <3>1. PICK a : a = RenameStat(w, i, From(o), to, r.new[to]) /\ SameSettings(w, a)
      BY <1>3, StatSettings
    <3>2. PICK b : b = RenameRecord(a, From(o), to) /\ SameSettings(a, b)
      BY <3>1, RecordSettings DEF SameSettings
    <3>3. m = SyncClients(b, i, r.new, {From(o)} \ {to}, no)
      BY <1>2, <1>4, <2>2, <3>1, <3>2 DEF ApplyDelta, Adds, Updates, Deletes
    <3>4. SameSettings(b, SyncClients(b, i, r.new, {From(o)} \ {to}, no))
      BY <3>2, SyncSettings DEF SameSettings
    <3> QED BY <3>1, <3>2, <3>3, <3>4 DEF SameSettings
  <2>3. CASE o.kind \in Deletes
    <3>1. PICK a : a = DelStats(w, r.drop) /\ SameSettings(w, a)
      BY <1>3, StatSettings
    <3>2. m = SyncClients(a, i, Empty, DOMAIN r.new, no)
      BY <1>2, <1>4, <2>3, <3>1 DEF ApplyDelta, Adds, Updates, Deletes
    <3>3. SameSettings(a, SyncClients(a, i, Empty, DOMAIN r.new, no))
      BY <3>1, SyncSettings DEF SameSettings
    <3> QED BY <3>1, <3>2, <3>3 DEF SameSettings
  <2>4. CASE o.kind \notin Adds \cup Updates \cup Deletes
    <3>1. m = SyncClients(w, i, s, {}, yes)
      BY <1>2, <1>4, <2>4 DEF SyncInbound
    <3> QED BY <1>3, <3>1, SyncSettings
  <2> QED BY <2>1, <2>2, <2>3, <2>4
<1>6. CommitTo(d, o, i, m)
  BY <1>1, <1>5 DEF CommitTo, SameSettings
<1> QED BY <1>6 DEF m

\* A commit of the share that holds the lock keeps the lists well formed and the
\* other inbounds as they are.
CommitKeeps(d, o, i, m) ==
    /\ Shape(m) /\ Live(m) \subseteq Live(d)
    /\ \A j \in Live(m) \ {i} : m.settings[j] = d.settings[j]
    /\ i \in Live(m) => MergedTo(o.run[i], d.settings[i], m.settings[i])

LEMMA CommitShape ==
  ASSUME NEW d, NEW o, NEW i \in Live(d), Shape(d), Serves(d, o), o.run[i] # Empty
  PROVE  CommitKeeps(d, o, i, Committed(d, o, i))
<1>0. i \in Inbounds
  BY DEF Live
<1>1. PICK m : m = Committed(d, o, i) /\ CommitTo(d, o, i, m)
  BY CommitFacts DEF Shape
<1>2. Holds(d, o, i, o.run[i])
  BY <1>0 DEF Serves
<1>3. PICK s : /\ s = Rebase(o.run[i].base, o.run[i].ours, d.settings[i])
               /\ MergedTo(o.run[i], d.settings[i], s)
  BY <1>2, RebaseFacts DEF Holds, Shape
<1>4. m.settings = [d.settings EXCEPT ![i] = s] /\ DOMAIN d.settings = Inbounds
  BY <1>1, <1>3 DEF CommitTo, Shape
<1>5. /\ DOMAIN m.settings = Inbounds /\ m.settings[i] = s
      /\ \A j \in Inbounds \ {i} : m.settings[j] = d.settings[j]
  BY <1>0, <1>4
<1>6. Live(m) \subseteq Live(d)
  BY <1>5 DEF Live
<1>7. Full(s)
  BY <1>3 DEF MergedTo
<1>8. \A j \in Live(m) : Full(m.settings[j])
  BY <1>5, <1>6, <1>7 DEF Shape, Live
<1> QED BY <1>1, <1>3, <1>5, <1>6, <1>8 DEF CommitKeeps, Shape, CommitTo, Live

----------------------------------------------------------------------------
(***************************************************************************)
(* The steps and the lock.                                                 *)
(***************************************************************************)

\* A step of one request.
LEMMA OneRequest ==
  ASSUME LockInv, NEW p \in Procs, NEW k, op' = [op EXCEPT ![p] = k], workload' = workload,
         Shape(db)', k # Empty => Serves(db', k),
         \A q \in Procs \ {p} : op[q] # Empty => Serves(db', op[q]),
         \A i \in Inbounds : Busy(k, i) => Busy(op[p], i) \/ Unlocked(i)
  PROVE  LockInv'
<1>1. DOMAIN op' = Procs /\ op'[p] = k /\ \A q \in Procs \ {p} : op'[q] = op[q]
  BY DEF LockInv
<1>2. \A q \in Procs : op'[q] # Empty => Serves(db', op'[q])
  BY <1>1
<1>3. ASSUME NEW q \in Procs, NEW r \in Procs, NEW i \in Inbounds, Busy(op'[q], i), Busy(op'[r], i)
      PROVE  q = r
  <2>1. ASSUME NEW t \in Procs \ {p} PROVE ~(Busy(k, i) /\ Busy(op[t], i))
    BY <2>1 DEF LockInv, Unlocked, Busy
  <2> QED BY <1>1, <1>3, <2>1 DEF LockInv
<1> QED BY <1>1, <1>2, <1>3 DEF LockInv

\* A step that leaves the settings alone.
LEMMA SettingsStay ==
  ASSUME NEW d, NEW m, Shape(d), SameSettings(d, m)
  PROVE  /\ Shape(m) /\ Live(m) = Live(d)
         /\ \A o : Serves(d, o) => Serves(m, o)
<1>1. Live(m) = Live(d)
  BY DEF Live, SameSettings
<1>2. Shape(m)
  BY <1>1 DEF Shape, SameSettings
<1> QED BY <1>1, <1>2, ServesOn DEF SameSettings

Fresh(o) == ReqShape(o) /\ \A i \in Inbounds : o.run[i] = Empty

\* A request begins or ends.
LEMMA RequestChanges ==
  ASSUME LockInv, NEW p \in Procs, NEW k, op' = [op EXCEPT ![p] = k], workload' = workload,
         SameSettings(db, db'), k # Empty => Fresh(k)
  PROVE  LockInv'
<1>1. Shape(db)' /\ \A o : Serves(db, o) => Serves(db', o)
  BY SettingsStay DEF LockInv
<1>2. k # Empty => Serves(db', k)
  BY DEF Fresh, Serves
<1>3. \A i \in Inbounds : ~Busy(k, i)
  BY DEF Fresh, Busy
<1> QED BY <1>1, <1>2, <1>3, OneRequest DEF LockInv

\* A request goes on, with the shares it has.
LEMMA RequestGoesOn ==
  ASSUME LockInv, NEW p \in Procs, op[p] # Empty, NEW k, op' = [op EXCEPT ![p] = k],
         workload' = workload, SameSettings(db, db'), ReqShape(k), k.run = op[p].run,
         k.load = op[p].load, k.kind = op[p].kind \/ op[p].kind \notin Updates \cup {"enable"}
  PROVE  LockInv'
<1>1. Shape(db)' /\ \A o : Serves(db, o) => Serves(db', o)
  BY SettingsStay DEF LockInv
<1>2. Serves(db', op[p])
  BY <1>1 DEF LockInv
<1>3. Serves(db', k)
  BY <1>2 DEF Serves, Holds, Brings
<1>4. \A i \in Inbounds : Busy(k, i) => Busy(op[p], i)
  BY DEF Busy
<1> QED BY <1>1, <1>3, <1>4, OneRequest DEF LockInv

\* The rows change and no request does.
LEMMA RowsChange ==
  ASSUME LockInv, UNCHANGED <<op, workload>>, SameSettings(db, db')
  PROVE  LockInv'
<1>1. Shape(db)' /\ \A o : Serves(db, o) => Serves(db', o)
  BY SettingsStay DEF LockInv
<1> QED BY <1>1 DEF LockInv

LEMMA SameDb ==
  ASSUME LockInv, UNCHANGED db
  PROVE  SameSettings(db, db')
  BY DEF LockInv, Shape, SameSettings

LEMMA ReadLock ==
  ASSUME LockInv, NEW p \in Procs, NEW i \in Inbounds, ApplyRead(p, i)
  PROVE  LockInv'
<1>1. /\ op[p] # Empty /\ i \in op[p].todo /\ Unlocked(i) /\ UNCHANGED <<db, workload>>
      /\ op' = [op EXCEPT ![p] = AfterRead(db, op[p], i)]
  BY DEF ApplyRead
<1>2. Serves(db, op[p]) /\ Shape(db)
  BY <1>1 DEF LockInv
<1>3. PICK k : /\ k = AfterRead(db, op[p], i) /\ Serves(db, k)
               /\ \A j \in Inbounds \ {i} : k.run[j] = op[p].run[j]
  BY <1>1, <1>2, ReadServes
<1>4. \A j \in Inbounds : Busy(k, j) => Busy(op[p], j) \/ Unlocked(j)
  BY <1>1, <1>3 DEF Busy
<1>5. \A q \in Procs \ {p} : op[q] # Empty => Serves(db, op[q])
  BY DEF LockInv
<1> QED BY <1>1, <1>2, <1>3, <1>4, <1>5, OneRequest

LEMMA PurgeLock ==
  ASSUME LockInv, NEW p \in Procs, NEW i \in Inbounds, BulkPurge(p, i)
  PROVE  LockInv'
<1> DEFINE o == op[p]
           purged == [o EXCEPT !.run[i].drop = {}]
<1>1. op[p] # Empty /\ o.run[i] # Empty /\ workload' = workload /\ o.kind = "bulkdelete"
  BY DEF BulkPurge
<1>2. Serves(db, o) /\ ReqShape(o) /\ Shape(db)
  BY <1>1 DEF LockInv, Serves
<1>3. PICK k : /\ op' = [op EXCEPT ![p] = k] /\ SameSettings(db, db')
               /\ k = purged \/ k = [purged EXCEPT !.failed = @ \cup o.run[i].drop]
  BY <1>2, StatSettings, SameDb DEF BulkPurge, Shape
<1>4. ReqShape(purged) /\ ReqShape(k)
  BY <1>2, <1>3 DEF ReqShape
<1>5. k.run = purged.run /\ k.kind = o.kind /\ k.load = o.load
  BY <1>2, <1>3 DEF ReqShape
<1>6. purged.run = [o.run EXCEPT ![i] = [o.run[i] EXCEPT !.drop = {}]]
  BY <1>2 DEF ReqShape
<1>7. Serves(db, k)
  <2> SUFFICES ASSUME NEW j \in Inbounds, k.run[j] # Empty PROVE Holds(db, k, j, k.run[j])
    BY <1>4 DEF Serves
  <2>1. CASE j = i
    <3>1. Holds(db, o, i, o.run[i])
      BY <1>1, <1>2 DEF Serves
    <3>2. PICK r : r = [o.run[i] EXCEPT !.drop = {}] /\ k.run[j] = r
      BY <1>2, <1>5, <1>6, <2>1 DEF ReqShape
    <3>3. /\ DOMAIN r = DOMAIN o.run[i] /\ r.base = o.run[i].base /\ r.ours = o.run[i].ours
      BY <3>1, <3>2 DEF Holds
    <3> QED BY <1>5, <2>1, <3>1, <3>2, <3>3 DEF Holds, Brings
  <2>2. CASE j # i
    <3>1. k.run[j] = o.run[j]
      BY <1>2, <1>5, <1>6, <2>2 DEF ReqShape
    <3>2. Holds(db, o, j, o.run[j])
      BY <1>2, <3>1 DEF Serves
    <3> QED BY <1>5, <3>1, <3>2 DEF Holds, Brings
  <2> QED BY <2>1, <2>2
<1>8. \A j \in Inbounds : Busy(k, j) => Busy(op[p], j)
  BY <1>1, <1>2, <1>5, <1>6 DEF Busy, ReqShape
<1>9. Shape(db)' /\ \A x : Serves(db, x) => Serves(db', x)
  BY <1>2, <1>3, SettingsStay
<1> QED BY <1>1, <1>3, <1>7, <1>8, <1>9, OneRequest DEF LockInv

LEMMA CommitLock ==
  ASSUME LockInv, NEW p \in Procs, NEW i \in Inbounds, ApplyCommit(p, i)
  PROVE  LockInv'
<1>1. /\ op[p] # Empty /\ op[p].run[i] # Empty /\ workload' = workload
      /\ db' = Committed(db, op[p], i) /\ i \in Live(db)
  BY DEF ApplyCommit
<1>2. Serves(db, op[p]) /\ ReqShape(op[p]) /\ Shape(db)
  BY <1>1 DEF LockInv, Serves
<1>3. CommitKeeps(db, op[p], i, db')
  BY <1>1, <1>2, CommitShape
<1>4. PICK k : k = [op[p] EXCEPT !.run[i] = Empty] /\ op' = [op EXCEPT ![p] = k]
  BY DEF ApplyCommit
<1>5. ReqShape(k) /\ k.run = [op[p].run EXCEPT ![i] = Empty] /\ k.kind = op[p].kind /\ k.load = op[p].load
  BY <1>2, <1>4 DEF ReqShape
<1>6. Serves(db, k) /\ k.run[i] = Empty
  BY <1>2, <1>5, ServesLess DEF ReqShape
<1>7. ASSUME NEW o, Serves(db, o), o.run[i] = Empty PROVE Serves(db', o)
  BY <1>3, <1>7, ServesOn DEF CommitKeeps
<1>8. ASSUME NEW q \in Procs \ {p}, op[q] # Empty PROVE Serves(db', op[q])
  BY <1>1, <1>7, <1>8 DEF LockInv, Busy
<1>9. \A j \in Inbounds : Busy(k, j) => Busy(op[p], j)
  BY <1>1, <1>2, <1>5 DEF Busy, ReqShape
<1> QED BY <1>1, <1>3, <1>4, <1>6, <1>7, <1>8, <1>9, OneRequest DEF CommitKeeps

LEMMA FailLock ==
  ASSUME LockInv, NEW p \in Procs, NEW i \in Inbounds, ApplyFails(p, i)
  PROVE  LockInv'
<1>1. /\ op[p] # Empty /\ op[p].run[i] # Empty /\ workload' = workload /\ db' = db
  BY DEF ApplyFails
<1>2. Serves(db, op[p]) /\ ReqShape(op[p]) /\ Shape(db)
  BY <1>1 DEF LockInv, Serves
<1>4. PICK k : /\ k = [op[p] EXCEPT !.run[i] = Empty, !.failed = @ \cup FailedBy(op[p], i)]
               /\ op' = [op EXCEPT ![p] = k]
  BY DEF ApplyFails
<1>5. ReqShape(k) /\ k.run = [op[p].run EXCEPT ![i] = Empty] /\ k.kind = op[p].kind /\ k.load = op[p].load
  BY <1>2, <1>4 DEF ReqShape
<1>6. Serves(db, k) /\ k.run[i] = Empty
  BY <1>2, <1>5, ServesLess DEF ReqShape
<1>8. ASSUME NEW q \in Procs \ {p}, op[q] # Empty PROVE Serves(db', op[q])
  BY <1>1, <1>8 DEF LockInv
<1>9. \A j \in Inbounds : Busy(k, j) => Busy(op[p], j)
  BY <1>1, <1>2, <1>5 DEF Busy, ReqShape
<1> QED BY <1>1, <1>2, <1>4, <1>6, <1>8, <1>9, OneRequest

\* The tick switches clients off and moves none.
TickTo(d, m) ==
    /\ Shape(m) /\ Live(m) \subseteq Live(d)
    /\ \A i \in Live(m) :
         /\ DOMAIN m.settings[i] = DOMAIN d.settings[i]
         /\ \A e \in DOMAIN d.settings[i] :
              m.settings[i][e].on => d.settings[i][e].on

LEMMA TickFacts ==
  ASSUME LockInv, Tick
  PROVE  TickTo(db, db')
<1> DEFINE E == DepletedNow(db)
           off(i) == {e \in E : \E n \in IdsOf(db, {e}) : <<n, i>> \in db.link}
           s == [i \in Inbounds |-> IF i \notin Live(db) THEN None
                       ELSE [e \in DOMAIN db.settings[i] |->
                               IF e \in off(i) THEN [db.settings[i][e] EXCEPT !.on = FALSE]
                               ELSE db.settings[i][e]]]
<1>1. Shape(db) /\ Fields \subseteq DOMAIN db
  BY DEF LockInv, Shape
<1>2. PICK no : no = FALSE
  OBVIOUS
<1>3. db' = [SetOn(db, E, no) EXCEPT !.settings = s]
  BY <1>2 DEF Tick
<1>4. SameSettings(db, SetOn(db, E, no))
  BY <1>1, RecordSettings
<1>5. Fields \subseteq DOMAIN db' /\ db'.settings = s
  BY <1>3, <1>4 DEF SameSettings, Fields
<1>6. Live(db') \subseteq Live(db)
  BY <1>5 DEF Live
<1>7. ASSUME NEW i \in Live(db)
      PROVE  /\ DOMAIN s[i] = DOMAIN db.settings[i] /\ Full(s[i])
             /\ \A e \in DOMAIN db.settings[i] : s[i][e].on => db.settings[i][e].on
  <2>1. Full(db.settings[i]) /\ i \in Inbounds
    BY <1>1 DEF Shape, Live
  <2>2. s[i] = [e \in DOMAIN db.settings[i] |->
                  IF e \in off(i) THEN [db.settings[i][e] EXCEPT !.on = FALSE]
                  ELSE db.settings[i][e]]
    BY <2>1
  <2> HIDE DEF s, off
  <2> QED BY <2>1, <2>2 DEF Full
<1> HIDE DEF s
<1>8. Shape(db')
  BY <1>5, <1>6, <1>7 DEF Shape, s
<1> QED BY <1>5, <1>6, <1>7, <1>8 DEF TickTo

LEMMA TickLock ==
  ASSUME LockInv, Tick
  PROVE  LockInv'
<1>1. TickTo(db, db') /\ UNCHANGED <<op, workload>>
  BY TickFacts DEF Tick
<1>2. \A p \in Procs : op[p] # Empty => Serves(db', op[p])
  BY <1>1, ServesOn DEF LockInv, TickTo
<1> QED BY <1>1, <1>2 DEF LockInv, TickTo

LEMMA DelInboundLock ==
  ASSUME LockInv, NEW i \in Inbounds, DelInbound(i)
  PROVE  /\ LockInv' /\ Live(db') = Live(db) \ {i}
         /\ \A j \in Live(db') : db'.settings[j] = db.settings[j]
<1>1. Shape(db) /\ UNCHANGED <<op, workload>>
      /\ db' = [db EXCEPT !.settings[i] = None, !.link = {l \in db.link : l[2] # i}]
  BY DEF LockInv, DelInbound, Op
<1>2. Fields \subseteq DOMAIN db' /\ db'.settings = [db.settings EXCEPT ![i] = None]
  BY <1>1 DEF Shape, Fields
<1>3. /\ DOMAIN db'.settings = Inbounds /\ db'.settings[i] = None
      /\ \A j \in Inbounds \ {i} : db'.settings[j] = db.settings[j]
  BY <1>1, <1>2 DEF Shape
<1>4. Live(db') = Live(db) \ {i}
  BY <1>3 DEF Live
<1>5. Shape(db')
  BY <1>1, <1>2, <1>3, <1>4 DEF Shape, Live
<1>6. \A p \in Procs : op[p] # Empty => Serves(db', op[p])
  BY <1>3, <1>4, <1>5, ServesOn DEF LockInv, Live
<1> QED BY <1>1, <1>3, <1>4, <1>5, <1>6 DEF LockInv, Live

\* A request as it is made.
LEMMA RequestFresh ==
  ASSUME NEW kind, NEW ids, NEW load, kind # "adjust",
         kind \in Adds \cup Updates => \A i \in Inbounds : Full(load[i])
  PROVE  Fresh(Request(kind, ids, load))
  BY DEF Fresh, Request, ReqShape

LEMMA EmptyFull == Full(Empty)
  BY DEF Full, Empty

LEMMA JustFull ==
  ASSUME NEW x, NEW v, {"cred", "on", "lim"} \subseteq DOMAIN v
  PROVE  Full(Just(x, v))
  BY DEF Full, Just

LEMMA RequestVaries ==
  ASSUME NEW o, Fresh(o), NEW x
  PROVE  /\ Fresh([o EXCEPT !.keep = x]) /\ Fresh([o EXCEPT !.emails = x])
         /\ Fresh([o EXCEPT !.payload = x])
<1>1. Fresh([o EXCEPT !.keep = x])
  BY DEF Fresh, ReqShape
<1>2. Fresh([o EXCEPT !.emails = x])
  BY DEF Fresh, ReqShape
<1>3. Fresh([o EXCEPT !.payload = x])
  BY DEF Fresh, ReqShape
<1> QED BY <1>1, <1>2, <1>3

\* The requests that add to inbounds or change entries carry whole entries.
LEMMA AddLock ==
  ASSUME LockInv, NEW p \in Procs, Create(p) \/ Attach(p) \/ BulkAttach(p)
  PROVE  LockInv'
<1>0. SameSettings(db, db') /\ workload' = workload
  BY SameDb DEF Create, Attach, BulkAttach, Idle, Op
<1>1. CASE Create(p)
  <2>1. PICK E \in SUBSET Emails, S \in SUBSET Live(db) :
        \E new \in [E -> [cred : Creds, on : {TRUE}, lim : workload.limits]] :
          Serve(p, Request("create", {}, [i \in Inbounds |-> IF i \in S THEN new ELSE Empty]))
    BY <1>1 DEF Create
  <2>2. PICK new \in [E -> [cred : Creds, on : {TRUE}, lim : workload.limits]] :
          Serve(p, Request("create", {}, [i \in Inbounds |-> IF i \in S THEN new ELSE Empty]))
    BY <2>1
  <2>3. Full(new)
    BY DEF Full
  <2> DEFINE load == [i \in Inbounds |-> IF i \in S THEN new ELSE Empty]
  <2>4. \A i \in Inbounds : Full(load[i])
    BY <2>3, EmptyFull
  <2> HIDE DEF load
  <2>5. Fresh(Request("create", {}, load))
    BY <2>4, RequestFresh
  <2> QED BY <1>0, <2>2, <2>5, RequestChanges DEF Serve, load
<1>2. CASE Attach(p)
  <2>1. PICK n \in DOMAIN db.rec, S \in SUBSET Inbounds :
          Serve(p, Request("attach", {n},
              [i \in Inbounds |-> IF i \in S THEN Just(db.rec[n].email, EntryOf(db, n)) ELSE Empty]))
    BY <1>2 DEF Attach
  <2> DEFINE one == Just(db.rec[n].email, EntryOf(db, n))
  <2>2. Full(one)
    BY JustFull DEF EntryOf
  <2> HIDE DEF one
  <2> DEFINE load == [i \in Inbounds |-> IF i \in S THEN one ELSE Empty]
  <2>3. Serve(p, Request("attach", {n}, load))
    BY <2>1 DEF one
  <2>4. \A i \in Inbounds : Full(load[i])
    BY <2>2, EmptyFull
  <2> HIDE DEF load
  <2>5. Fresh(Request("attach", {n}, load))
    BY <2>4, RequestFresh
  <2> QED BY <1>0, <2>3, <2>5, RequestChanges DEF Serve
<1>3. CASE BulkAttach(p)
  <2>1. PICK ids \in SUBSET DOMAIN db.rec, S \in SUBSET Live(db) :
         LET E == {db.rec[n].email : n \in ids}
             entry(e) == EntryOf(db, CHOOSE n \in ids : db.rec[n].email = e)
         IN  Serve(p, Request("attach", ids,
               [i \in Inbounds |-> IF i \in S THEN [e \in E \ DOMAIN db.settings[i] |-> entry(e)]
                                   ELSE Empty]))
    BY <1>3 DEF BulkAttach
  <2> DEFINE E == {db.rec[n].email : n \in ids}
             entry(e) == EntryOf(db, CHOOSE n \in ids : db.rec[n].email = e)
             load == [i \in Inbounds |-> IF i \in S THEN [e \in E \ DOMAIN db.settings[i] |-> entry(e)]
                                         ELSE Empty]
  <2>2. Serve(p, Request("attach", ids, load))
    BY <2>1
  <2>3. \A e : {"cred", "on", "lim"} \subseteq DOMAIN entry(e)
    BY DEF EntryOf
  <2>4. \A i \in Inbounds : Full(load[i])
    <3> HIDE DEF entry, E
    <3> QED BY <2>3, EmptyFull DEF Full
  <2> HIDE DEF load
  <2>5. Fresh(Request("attach", ids, load))
    BY <2>4, RequestFresh
  <2> QED BY <1>0, <2>2, <2>5, RequestChanges DEF Serve
<1> QED BY <1>1, <1>2, <1>3

LEMMA UpdateLock ==
  ASSUME LockInv, NEW p \in Procs, Update(p) \/ ApplyField(p)
  PROVE  LockInv'
<1>0. workload' = workload /\ Shape(db) /\ Fields \subseteq DOMAIN db
  BY DEF Update, ApplyField, Idle, Op, LockInv, Shape
<1>1. CASE Update(p)
  <2>1. PICK n \in DOMAIN db.rec, to \in Emails,
             new \in [cred : Creds, on : BOOLEAN, lim : workload.limits] :
          /\ db' = [db EXCEPT !.link = @ \ ({n} \X (Inbounds \ Live(db)))]
          /\ Serve(p, [Request("update", {n},
                            [i \in Inbounds |-> IF i \in Live(db) \cap LinkedInbounds(db, n)
                                                  THEN Just(to, new) ELSE Empty])
                            EXCEPT !.payload = [to |-> to, entry |-> new]])
    BY <1>1 DEF Update
  <2> DEFINE one == Just(to, new)
             load == [i \in Inbounds |-> IF i \in Live(db) \cap LinkedInbounds(db, n)
                                         THEN one ELSE Empty]
  <2>2. Full(one)
    BY JustFull
  <2>3. Serve(p, [Request("update", {n}, load) EXCEPT !.payload = [to |-> to, entry |-> new]])
    BY <2>1
  <2> HIDE DEF one
  <2>4. \A i \in Inbounds : Full(load[i])
    BY <2>2, EmptyFull
  <2> HIDE DEF load
  <2>5. Fresh(Request("update", {n}, load))
    BY <2>4, RequestFresh
  <2>6. Fresh([Request("update", {n}, load) EXCEPT !.payload = [to |-> to, entry |-> new]])
    BY <2>5, RequestVaries
  <2>7. SameSettings(db, db')
    BY <1>0, <2>1 DEF SameSettings, Fields
  <2> QED BY <1>0, <2>3, <2>6, <2>7, RequestChanges DEF Serve
<1>2. CASE ApplyField(p)
  <2>1. PICK n \in DOMAIN db.rec, new \in [on : BOOLEAN] \cup [lim : workload.limits] :
         LET e == db.rec[n].email
             S == {i \in LinkedInbounds(db, n) : i \in Live(db) /\ e \in DOMAIN db.settings[i]}
         IN  Serve(p, Request("field", {n},
               [i \in Inbounds |-> IF i \in S THEN Just(e, Over(new, db.settings[i][e])) ELSE Empty]))
    BY <1>2 DEF ApplyField
  <2> DEFINE e == db.rec[n].email
             S == {i \in LinkedInbounds(db, n) : i \in Live(db) /\ e \in DOMAIN db.settings[i]}
             one(i) == Just(e, Over(new, db.settings[i][e]))
             load == [i \in Inbounds |-> IF i \in S THEN one(i) ELSE Empty]
  <2>2. Serve(p, Request("field", {n}, load))
    BY <2>1
  <2>3. ASSUME NEW i \in S PROVE Full(one(i))
    <3>1. {"cred", "on", "lim"} \subseteq DOMAIN db.settings[i][e]
      BY <1>0 DEF Shape, Full
    <3>2. {"cred", "on", "lim"} \subseteq DOMAIN Over(new, db.settings[i][e])
      BY <3>1 DEF Over
    <3> QED BY <3>2, JustFull
  <2> HIDE DEF one, S
  <2>4. \A i \in Inbounds : Full(load[i])
    BY <2>3, EmptyFull
  <2> HIDE DEF load
  <2>5. Fresh(Request("field", {n}, load))
    BY <2>4, RequestFresh
  <2>6. SameSettings(db, db')
    BY <1>2, SameDb DEF ApplyField
  <2> QED BY <1>0, <2>2, <2>5, <2>6, RequestChanges DEF Serve
<1> QED BY <1>1, <1>2

\* The other requests carry e-mails, or values of one field.
LEMMA PlainFresh ==
  ASSUME NEW kind, NEW ids, NEW load, kind \notin Adds \cup Updates \cup {"adjust"}
  PROVE  /\ Fresh(Request(kind, ids, load))
         /\ \A keep : Fresh([Request(kind, ids, load) EXCEPT !.keep = keep])
         /\ \A on : Fresh([Request(kind, ids, load) EXCEPT !.payload = on])
         /\ \A keep, E : Fresh([Request(kind, ids, load) EXCEPT !.keep = keep, !.emails = E])
<1>1. PICK o : o = Request(kind, ids, load) /\ Fresh(o)
  BY RequestFresh
<1>2. \A keep : Fresh([o EXCEPT !.keep = keep])
  BY <1>1, RequestVaries
<1>3. \A on : Fresh([o EXCEPT !.payload = on])
  BY <1>1, RequestVaries
<1>4. \A keep, E : Fresh([o EXCEPT !.keep = keep, !.emails = E])
  BY <1>1 DEF Fresh, ReqShape
<1> QED BY <1>1, <1>2, <1>3, <1>4

LEMMA RemoveLock ==
  ASSUME LockInv, NEW p \in Procs,
         Detach(p) \/ Delete(p) \/ BulkDelete(p) \/ DeleteByEmail(p) \/ DeleteOrphans(p)
  PROVE  LockInv'
<1>1. PICK k : op' = [op EXCEPT ![p] = k] /\ Fresh(k)
  <2>0. \A kind \in {"detach", "delete", "bulkdelete", "ghost", "orphans"} :
          kind \notin Adds \cup Updates \cup {"adjust"}
    BY DEF Adds, Updates
  <2>1. CASE Detach(p)
    <3>1. PICK ids, load : op' = [op EXCEPT ![p] = Request("detach", ids, load)]
      BY <2>1 DEF Detach, Serve
    <3> QED BY <2>0, <3>1, PlainFresh
  <2>2. CASE Delete(p)
    <3>1. PICK ids, load, keep : op' = [op EXCEPT ![p] = [Request("delete", ids, load) EXCEPT !.keep = keep]]
      BY <2>2 DEF Delete, Serve
    <3> QED BY <2>0, <3>1, PlainFresh
  <2>3. CASE BulkDelete(p)
    <3>1. PICK ids, load, keep :
            op' = [op EXCEPT ![p] = [Request("bulkdelete", ids, load) EXCEPT !.keep = keep]]
      BY <2>3 DEF BulkDelete, Serve
    <3> QED BY <2>0, <3>1, PlainFresh
  <2>4. CASE DeleteByEmail(p)
    <3>1. PICK ids, load, keep, E :
            op' = [op EXCEPT ![p] = [Request("ghost", ids, load) EXCEPT !.keep = keep, !.emails = E]]
      BY <2>4 DEF DeleteByEmail, Serve
    <3> QED BY <2>0, <3>1, PlainFresh
  <2>5. CASE DeleteOrphans(p)
    <3>1. PICK ids, load : op' = [op EXCEPT ![p] = Request("orphans", ids, load)]
      BY <2>5 DEF DeleteOrphans, Serve
    <3> QED BY <2>0, <3>1, PlainFresh
  <2> QED BY <2>1, <2>2, <2>3, <2>4, <2>5
<1>2. SameSettings(db, db') /\ workload' = workload
  BY SameDb DEF Detach, Delete, BulkDelete, DeleteByEmail, DeleteOrphans, Idle, Op
<1> QED BY <1>1, <1>2, RequestChanges

LEMMA EnableFresh ==
  ASSUME NEW ids, NEW on
  PROVE  Fresh(EnableRequest(ids, on))
  BY PlainFresh DEF EnableRequest, Adds, Updates

LEMMA EditLock ==
  ASSUME LockInv, NEW p \in Procs, BulkSetEnable(p) \/ BulkAdjust(p)
  PROVE  LockInv'
<1>0. SameSettings(db, db') /\ workload' = workload
  BY SameDb DEF BulkSetEnable, BulkAdjust, Idle, Op
<1>1. CASE BulkSetEnable(p)
  BY <1>0, <1>1, EnableFresh, RequestChanges DEF BulkSetEnable, Serve
<1>2. CASE BulkAdjust(p)
  <2>1. PICK ids, plan :
          Serve(p, [Request("adjust", ids, Attached(ids, Inbounds, plan))
                      EXCEPT !.field = "lim", !.payload = plan])
    BY <1>2 DEF BulkAdjust
  <2>2. PICK k : /\ k = [Request("adjust", ids, Attached(ids, Inbounds, plan))
                          EXCEPT !.field = "lim", !.payload = plan]
                 /\ op' = [op EXCEPT ![p] = k]
    BY <2>1 DEF Serve
  <2>3. Fresh(k)
    BY <2>2 DEF Request, Fresh, ReqShape, Adds, Updates
  <2> QED BY <1>0, <2>2, <2>3, RequestChanges
<1> QED BY <1>1, <1>2

LEMMA EndLock ==
  ASSUME LockInv, NEW p \in Procs,
         Finish(p) \/ AdjustCheck(p) \/ AdjustWrite(p) \/ AdjustEnable(p)
  PROVE  LockInv'
<1>0. workload' = workload /\ Fields \subseteq DOMAIN db
  BY DEF Finish, AdjustCheck, AdjustWrite, AdjustEnable, LockInv, Shape
<1>1. CASE Finish(p)
  <2>1. SameSettings(db, db')
    BY <1>0, <1>1, FinishSettings DEF Finish
  <2> QED BY <1>0, <1>1, <2>1, RequestChanges DEF Finish, End
<1>2. CASE AdjustCheck(p)
  <2>1. op[p] # Empty /\ ReqShape(op[p]) /\ SameSettings(db, db')
    BY <1>2, SameDb DEF AdjustCheck, Returned, LockInv, Serves
  <2>2. PICK x, k : k = [op[p] EXCEPT !.depleted = x] /\ op' = [op EXCEPT ![p] = k]
    BY <1>2 DEF AdjustCheck
  <2>3. ReqShape(k) /\ k.run = op[p].run /\ k.load = op[p].load /\ k.kind = op[p].kind
    BY <2>1, <2>2 DEF ReqShape
  <2> QED BY <1>0, <2>1, <2>2, <2>3, RequestGoesOn
<1>3. CASE AdjustWrite(p)
  <2>1. op[p] # Empty /\ ReqShape(op[p]) /\ op[p].kind = "adjust"
    BY <1>3 DEF AdjustWrite, LockInv, Serves
  <2>2. PICK x : db' = [db EXCEPT !.stat = x]
    BY <1>3 DEF AdjustWrite
  <2>3. SameSettings(db, db')
    BY <1>0, <2>2 DEF SameSettings, Fields
  <2>4. PICK k : k = [op[p] EXCEPT !.kind = "adjusted"] /\ op' = [op EXCEPT ![p] = k]
    BY <1>3 DEF AdjustWrite
  <2>5. ReqShape(k) /\ k.run = op[p].run /\ k.load = op[p].load
    BY <2>1, <2>4 DEF ReqShape, Adds, Updates
  <2> QED BY <1>0, <2>1, <2>3, <2>4, <2>5, RequestGoesOn DEF Updates
<1>4. CASE AdjustEnable(p)
  <2>1. SameSettings(db, db')
    BY <1>4, SameDb DEF AdjustEnable
  <2>2. PICK yes : yes = TRUE
    OBVIOUS
  <2>3. PICK E : op' = [op EXCEPT ![p] = IF E = {} THEN Empty ELSE EnableRequest(IdsOf(db, E), yes)]
    BY <1>4, <2>2 DEF AdjustEnable
  <2> QED BY <1>0, <2>1, <2>3, EnableFresh, RequestChanges
<1> QED BY <1>1, <1>2, <1>3, <1>4

LEMMA AloneLock ==
  ASSUME LockInv, (\E e \in Emails : Use(e)) \/ (\E i \in Inbounds : UpdateInbound(i)) \/ Crash
  PROVE  LockInv'
<1>0. Fields \subseteq DOMAIN db
  BY DEF LockInv, Shape
<1>1. ASSUME NEW e \in Emails, Use(e) PROVE LockInv'
  <2>1. PICK x : db' = [db EXCEPT !.stat = x]
    BY <1>1 DEF Use
  <2>2. SameSettings(db, db')
    BY <1>0, <2>1 DEF SameSettings, Fields
  <2> QED BY <1>1, <2>2, RowsChange DEF Use
<1>2. ASSUME NEW i \in Inbounds, UpdateInbound(i) PROVE LockInv'
  <2>1. SameSettings(db, db')
    BY <1>0, <1>2, SaveSettings DEF UpdateInbound
  <2> QED BY <1>2, <2>1, RowsChange DEF UpdateInbound, Op
<1>3. CASE Crash
  BY <1>3 DEF Crash, LockInv, Op, Busy
<1> QED BY <1>1, <1>2, <1>3

LEMMA InitLock == Init => LockInv
<1> SUFFICES ASSUME Init PROVE LockInv
  OBVIOUS
<1> DEFINE seed == SetToSeq(workload.seeded)
           ids == DOMAIN seed
<1>1. PICK cred, lim :
        LET entry(n) == [cred |-> cred[n], on |-> TRUE, lim |-> lim]
            idOf(e) == CHOOSE n \in ids : seed[n] = e
        IN  db = [settings |-> [i \in Inbounds |->
                         IF i \in workload.inbounds
                         THEN [e \in IF i \in workload.home THEN workload.seeded ELSE {} |-> entry(idOf(e))]
                         ELSE None],
                  rec |-> [n \in ids |-> Over([email |-> seed[n]], entry(n))],
                  link |-> ids \X workload.home,
                  stat |-> [e \in workload.seeded |-> [on |-> TRUE, lim |-> lim, used |-> 0]],
                  next |-> Cardinality(workload.seeded) + 1]
  BY DEF Init
<1> DEFINE entry(n) == [cred |-> cred[n], on |-> TRUE, lim |-> lim]
           idOf(e) == CHOOSE n \in ids : seed[n] = e
<1>2. Fields \subseteq DOMAIN db
  BY <1>1 DEF Fields
<1>3. db.settings = [i \in Inbounds |->
        IF i \in workload.inbounds
        THEN [e \in IF i \in workload.home THEN workload.seeded ELSE {} |-> entry(idOf(e))]
        ELSE None]
  BY <1>1
<1>4. \A n : {"cred", "on", "lim"} \subseteq DOMAIN entry(n)
  OBVIOUS
<1> HIDE DEF entry, idOf, ids, seed
<1>5. DOMAIN db.settings = Inbounds /\ \A i \in Live(db) : Full(db.settings[i])
  BY <1>3, <1>4 DEF Live, Full
<1> QED BY <1>2, <1>5 DEF Init, LockInv, Shape, Busy

\* At most one request holds an inbound's lock, and while it does only its commit
\* changes who is in the inbound's settings.
LEMMA LockInvInductive == LockInv /\ [Next]_vars => LockInv'
<1> SUFFICES ASSUME LockInv, [Next]_vars PROVE LockInv'
  OBVIOUS
<1>0. workload.procs \subseteq Procs
  BY ClientStoreAssumption DEF LockInv
<1>1. ASSUME NEW p \in workload.procs, NEW i \in Inbounds,
             ApplyRead(p, i) \/ BulkPurge(p, i) \/ ApplyCommit(p, i) \/ ApplyFails(p, i)
      PROVE  LockInv'
  BY <1>0, <1>1, ReadLock, PurgeLock, CommitLock, FailLock
<1>2. ASSUME NEW p \in workload.procs,
             \/ Create(p) \/ Attach(p) \/ BulkAttach(p) \/ Detach(p)
             \/ Delete(p) \/ BulkDelete(p) \/ DeleteByEmail(p) \/ DeleteOrphans(p)
             \/ Update(p) \/ ApplyField(p) \/ BulkSetEnable(p) \/ BulkAdjust(p)
             \/ Finish(p) \/ AdjustCheck(p) \/ AdjustWrite(p) \/ AdjustEnable(p)
      PROVE  LockInv'
  BY <1>0, <1>2, AddLock, RemoveLock, UpdateLock, EditLock, EndLock
<1>3. CASE UNCHANGED vars
  BY <1>3 DEF vars, LockInv
<1> QED BY <1>1, <1>2, <1>3, TickLock, DelInboundLock, AloneLock DEF Next

-----------------------------------------------------------------------------
\* Who writes settings.
LEMMA WhoWrites ==
  ASSUME LockInv, Next, db'.settings # db.settings
  PROVE  \/ Tick \/ \E j \in Inbounds : DelInbound(j)
         \/ \E p \in workload.procs, j \in Inbounds : ApplyCommit(p, j)
<1>0. Fields \subseteq DOMAIN db
  BY DEF LockInv, Shape
<1>4. ASSUME SameSettings(db, db') PROVE FALSE
  BY <1>4 DEF SameSettings
<1>5. ASSUME UNCHANGED db PROVE FALSE
  BY <1>5
<1>6. ASSUME NEW p \in workload.procs, NEW j \in Inbounds, BulkPurge(p, j) PROVE FALSE
  BY <1>0, <1>4, <1>5, <1>6, StatSettings DEF BulkPurge
<1>7. ASSUME NEW p \in workload.procs, Update(p) \/ Finish(p) \/ AdjustWrite(p) PROVE FALSE
  <2>1. CASE Update(p)
    <3>1. PICK n : db' = [db EXCEPT !.link = @ \ ({n} \X (Inbounds \ Live(db)))]
      BY <2>1 DEF Update
    <3> QED BY <1>0, <1>4, <3>1 DEF SameSettings, Fields
  <2>2. CASE Finish(p)
    BY <1>0, <1>4, <2>2, FinishSettings DEF Finish
  <2>3. CASE AdjustWrite(p)
    <3>1. PICK x : db' = [db EXCEPT !.stat = x]
      BY <2>3 DEF AdjustWrite
    <3> QED BY <1>0, <1>4, <3>1 DEF SameSettings, Fields
  <2> QED BY <1>7, <2>1, <2>2, <2>3
<1>8. ASSUME NEW x \in Emails, Use(x) PROVE FALSE
  <2>1. PICK y : db' = [db EXCEPT !.stat = y]
    BY <1>8 DEF Use
  <2> QED BY <1>0, <1>4, <2>1 DEF SameSettings, Fields
<1>9. ASSUME NEW j \in Inbounds, UpdateInbound(j) PROVE FALSE
  BY <1>0, <1>4, <1>9, SaveSettings DEF UpdateInbound
<1>10. ASSUME NEW p \in workload.procs,
              \/ Create(p) \/ Attach(p) \/ BulkAttach(p) \/ Detach(p)
              \/ Delete(p) \/ BulkDelete(p) \/ DeleteByEmail(p) \/ DeleteOrphans(p)
              \/ ApplyField(p) \/ BulkSetEnable(p) \/ BulkAdjust(p)
              \/ AdjustCheck(p) \/ AdjustEnable(p)
              \/ \E j \in Inbounds : ApplyRead(p, j) \/ ApplyFails(p, j)
       PROVE  FALSE
  BY <1>5, <1>10 DEF Create, Attach, BulkAttach, Detach, Delete, BulkDelete, DeleteByEmail,
       DeleteOrphans, ApplyField, BulkSetEnable, BulkAdjust, AdjustCheck, AdjustEnable, ApplyRead,
       ApplyFails
<1>11. ~Crash
  BY <1>5 DEF Crash
<1> QED BY <1>6, <1>7, <1>8, <1>9, <1>10, <1>11 DEF Next

\* TickSurvives for every workload: a tick after a share's read survives its
\* commit.  A client that is off in the settings of an inbound is on again only
\* through a share about it that read it as off, of a request that has it switched
\* on: one that asks for it, or an edit of a field that copied the entry earlier.
THEOREM EditsKeepTheTick == Spec => TickSurvives
<1> DEFINE Kept == \A i \in Live(db) : i \in Live(db)' => \A e \in DOMAIN db.settings[i] :
         (/\ ~db.settings[i][e].on
          /\ e \in DOMAIN db'.settings[i]
          /\ db'.settings[i][e].on)
         => \E p \in Procs : /\ op[p] # Empty
                             /\ op[p].run[i] # Empty
                             /\ ~op[p].run[i].base[e].on
                             /\ BringsOn(op[p], i, e)
<1>1. LockInv /\ Next => Kept
  <2> SUFFICES ASSUME LockInv, Next, NEW i \in Live(db), i \in Live(db'),
                      NEW e \in DOMAIN db.settings[i], ~db.settings[i][e].on,
                      e \in DOMAIN db'.settings[i], db'.settings[i][e].on
               PROVE  \E p \in Procs : /\ op[p] # Empty /\ op[p].run[i] # Empty
                                       /\ ~op[p].run[i].base[e].on
                                       /\ BringsOn(op[p], i, e)
    BY DEF Live
  <2>0. /\ workload.procs \subseteq Procs /\ db'.settings # db.settings
        /\ i \in Inbounds /\ Fields \subseteq DOMAIN db
    BY ClientStoreAssumption DEF LockInv, Live, Shape
  <2>1. ASSUME NEW p \in workload.procs, NEW j \in Inbounds, ApplyCommit(p, j)
        PROVE  /\ op[p] # Empty /\ op[p].run[i] # Empty
               /\ ~op[p].run[i].base[e].on /\ BringsOn(op[p], i, e)
    <3>1. /\ op[p] # Empty /\ op[p].run[j] # Empty /\ db' = Committed(db, op[p], j) /\ Serves(db, op[p])
          /\ j \in Live(db)
      BY <2>0, <2>1 DEF ApplyCommit, LockInv
    <3>2. CommitKeeps(db, op[p], j, db')
      BY <3>1, CommitShape DEF LockInv
    <3>3. j = i
      BY <3>2 DEF CommitKeeps
    <3>4. MergedTo(op[p].run[i], db.settings[i], db'.settings[i]) /\ Holds(db, op[p], i, op[p].run[i])
      BY <3>1, <3>2, <3>3 DEF CommitKeeps, Serves
    <3>5. PICK o, r : o = op[p] /\ r = o.run[i]
      OBVIOUS
    <3>6. e \in DOMAIN r.ours \cap DOMAIN r.base
      BY <3>4, <3>5 DEF MergedTo, Holds
    <3>7. r.ours[e].on # r.base[e].on /\ db'.settings[i][e].on = r.ours[e].on
      BY <3>4, <3>5, <3>6 DEF MergedTo
    <3>8. Brings(o, i, e, r.ours[e].on)
      BY <3>4, <3>5, <3>6, <3>7 DEF Holds
    <3>9. r.ours[e].on
      BY <3>7
    <3>10. ~r.base[e].on
      BY <3>7, <3>9
    <3>11. BringsOn(o, i, e)
      BY <3>8, <3>9 DEF Brings, BringsOn
    <3> QED BY <3>1, <3>3, <3>5, <3>10, <3>11
  <2>2. CASE Tick
    BY <2>2, TickFacts DEF TickTo
  <2>3. ASSUME NEW j \in Inbounds, DelInbound(j) PROVE FALSE
    BY <2>3, DelInboundLock
  <2> QED BY <2>0, <2>1, <2>2, <2>3, WhoWrites
<1>2. LockInv /\ [Next]_vars => [Kept]_vars
  BY <1>1
<1> QED BY <1>2, InitLock, LockInvInductive, PTL DEF Spec, TickSurvives

----------------------------------------------------------------------------
(***************************************************************************)
(* Records and links.                                                      *)
(***************************************************************************)

\* A finite set as a sequence.
LEMMA ListFacts ==
  ASSUME NEW S, IsFiniteSet(S)
  PROVE  /\ Len(SetToSeq(S)) \in Nat
         /\ \A k \in 1..Len(SetToSeq(S)) : SetToSeq(S)[k] \in S
         /\ \A k, l \in 1..Len(SetToSeq(S)) : SetToSeq(S)[k] = SetToSeq(S)[l] => k = l
         /\ \A e \in S : \E k \in 1..Len(SetToSeq(S)) : SetToSeq(S)[k] = e
<1> DEFINE n == Cardinality(S)
           q == SetToSeq(S)
<1>1. n \in Nat /\ ExistsBijection(1..n, S)
  BY FS_CardinalityType
<1>2. \E f \in [1..n -> S] : IsInjective(f)
  BY <1>1 DEF ExistsBijection, Bijection, Injection
<1>3. q \in [1..n -> S] /\ IsInjective(q)
  BY <1>2 DEF SetToSeq
<1>4. q \in Surjection(1..n, S)
  <2>1. q \in Injection(1..n, S)
    BY <1>3 DEF Injection
  <2>2. Cardinality(1..n) = n
    BY <1>1, FS_Interval
  <2> QED BY <2>1, <2>2, FS_Injection
<1> HIDE DEF q, n
<1>5. Len(q) = n
  BY <1>1, <1>3
<1>6. \A e \in S : \E k \in 1..n : q[k] = e
  BY <1>4 DEF Surjection
<1> QED BY <1>1, <1>3, <1>5, <1>6 DEF IsInjective, q

LEMMA CountFacts ==
  ASSUME NEW S, IsFiniteSet(S)
  PROVE  Len(SetToSeq(S)) = Cardinality(S) /\ DOMAIN SetToSeq(S) = 1..Len(SetToSeq(S))
<1> DEFINE n == Cardinality(S)
           q == SetToSeq(S)
<1>1. n \in Nat /\ ExistsBijection(1..n, S)
  BY FS_CardinalityType
<1>2. \E f \in [1..n -> S] : IsInjective(f)
  BY <1>1 DEF ExistsBijection, Bijection, Injection
<1>3. q \in [1..n -> S]
  BY <1>2 DEF SetToSeq
<1> HIDE DEF q, n
<1>4. DOMAIN q = 1..n /\ Len(q) = n
  BY <1>1, <1>3
<1> QED BY <1>4 DEF q, n

RecInv(d) ==
    /\ d.next \in Nat
    /\ \A n \in DOMAIN d.rec : /\ n \in Nat /\ n < d.next /\ d.rec[n].email \in Emails
                              /\ {"email", "cred", "on", "lim"} \subseteq DOMAIN d.rec[n]
    /\ \A m, n \in DOMAIN d.rec : d.rec[m].email = d.rec[n].email => m = n
    /\ \A l \in d.link : l = <<l[1], l[2]>> /\ l[1] \in DOMAIN d.rec /\ l[2] \in Inbounds

\* What mergeRecords does: records keep their ids and names, and every entry has
\* one.
MergeTo(d, entries, m) ==
    /\ Fields \subseteq DOMAIN m /\ m.settings = d.settings /\ m.link = d.link /\ m.stat = d.stat
    /\ RecInv(m) /\ DOMAIN d.rec \subseteq DOMAIN m.rec
    /\ \A n \in DOMAIN d.rec :
         /\ m.rec[n].email = d.rec[n].email
         /\ m.rec[n].cred = IF d.rec[n].email \in DOMAIN entries THEN entries[d.rec[n].email].cred
                            ELSE d.rec[n].cred
    /\ \A n \in DOMAIN m.rec \ DOMAIN d.rec :
         /\ m.rec[n].email \in DOMAIN entries /\ ~HasRecord(d, m.rec[n].email)
         /\ m.rec[n].cred = entries[m.rec[n].email].cred
    /\ \A e \in DOMAIN entries : \E n \in DOMAIN m.rec : m.rec[n].email = e

LEMMA MergeFacts ==
  ASSUME NEW d, Fields \subseteq DOMAIN d, RecInv(d), NEW entries, Full(entries),
         DOMAIN entries \subseteq Emails
  PROVE  MergeTo(d, entries, MergeRecords(d, entries))
<1> DEFINE S == {e \in DOMAIN entries : ~HasRecord(d, e)}
           new == SetToSeq(S)
           row(e) == Over([email |-> e], entries[e])
           old == [n \in DOMAIN d.rec |-> IF d.rec[n].email \in DOMAIN entries
                                          THEN row(d.rec[n].email) ELSE d.rec[n]]
           fresh == [n \in d.next .. d.next + Len(new) - 1 |-> row(new[n - d.next + 1])]
           m == MergeRecords(d, entries)
<1>1. m = [d EXCEPT !.rec = Over(old, fresh), !.next = d.next + Len(new)]
  BY DEF MergeRecords
<1>2. /\ Fields \subseteq DOMAIN m /\ m.settings = d.settings /\ m.link = d.link /\ m.stat = d.stat
      /\ m.rec = Over(old, fresh) /\ m.next = d.next + Len(new)
  <2> HIDE DEF old, fresh, new, m
  <2> QED BY <1>1 DEF Fields
<1>3. IsFiniteSet(S)
  BY ClientStoreAssumption, FS_Subset
<1>4. /\ Len(new) \in Nat
      /\ \A k \in 1..Len(new) : new[k] \in S
      /\ \A k, l \in 1..Len(new) : new[k] = new[l] => k = l
      /\ \A e \in S : \E k \in 1..Len(new) : new[k] = e
  BY <1>3, ListFacts
<1>5. ASSUME NEW e \in DOMAIN entries
      PROVE  /\ row(e).email = e /\ row(e).cred = entries[e].cred
             /\ {"email", "cred", "on", "lim"} \subseteq DOMAIN row(e)
  <2>1. {"cred", "on", "lim"} \subseteq DOMAIN entries[e]
    BY DEF Full
  <2> QED BY <2>1 DEF Over
<1>6. \A e \in S : e \in DOMAIN entries /\ \A n \in DOMAIN d.rec : d.rec[n].email # e
  BY DEF HasRecord, IdsOf
<1>6a. \A e \in DOMAIN entries : e \in S \/ \E n \in DOMAIN d.rec : d.rec[n].email = e
  BY DEF HasRecord, IdsOf
<1>7. PICK k \in Nat : k = Len(new)
  BY <1>4
<1>8. PICK x \in Nat : x = d.next
  BY DEF RecInv
<1>9. \A n \in DOMAIN d.rec : n \in Nat /\ n < x
  BY <1>8 DEF RecInv
<1> HIDE DEF new, row, S, m
<1>10. DOMAIN fresh = x .. x + k - 1 /\ \A n \in x .. x + k - 1 : fresh[n] = row(new[n - x + 1]) /\ n - x + 1 \in 1..k
  BY <1>7, <1>8
<1>11. DOMAIN old = DOMAIN d.rec
  OBVIOUS
<1>11a. ASSUME NEW n \in DOMAIN d.rec
       PROVE  old[n] = IF d.rec[n].email \in DOMAIN entries THEN row(d.rec[n].email) ELSE d.rec[n]
  OBVIOUS
<1>11b. \A n \in x .. x + k - 1 : n \notin DOMAIN d.rec
  BY <1>9
<1> HIDE DEF old, fresh
<1>12. /\ DOMAIN m.rec = DOMAIN d.rec \cup (x .. x + k - 1)
       /\ \A n \in DOMAIN d.rec : m.rec[n] = old[n]
       /\ \A n \in x .. x + k - 1 : n \notin DOMAIN d.rec /\ m.rec[n] = row(new[n - x + 1])
  BY <1>2, <1>10, <1>11, <1>11b DEF Over
<1>13. ASSUME NEW n \in DOMAIN d.rec
       PROVE  /\ m.rec[n].email = d.rec[n].email
              /\ m.rec[n].cred = IF d.rec[n].email \in DOMAIN entries THEN entries[d.rec[n].email].cred
                                 ELSE d.rec[n].cred
              /\ {"email", "cred", "on", "lim"} \subseteq DOMAIN m.rec[n]
  <2>1. {"email", "cred", "on", "lim"} \subseteq DOMAIN d.rec[n]
    BY DEF RecInv
  <2>2. m.rec[n] = IF d.rec[n].email \in DOMAIN entries THEN row(d.rec[n].email) ELSE d.rec[n]
    BY <1>11a, <1>12
  <2> QED BY <1>5, <2>1, <2>2
<1>14. ASSUME NEW n \in x .. x + k - 1
       PROVE  /\ n \in Nat /\ n < x + k /\ n - x + 1 \in 1..k
              /\ m.rec[n].email = new[n - x + 1] /\ m.rec[n].email \in S
              /\ m.rec[n].cred = entries[m.rec[n].email].cred
              /\ {"email", "cred", "on", "lim"} \subseteq DOMAIN m.rec[n]
  <2>1. n \in Nat /\ n < x + k /\ n - x + 1 \in 1..k
    OBVIOUS
  <2>2. new[n - x + 1] \in S
    BY <1>4, <1>7, <2>1
  <2> QED BY <1>5, <1>6, <1>12, <2>1, <2>2
<1>15. RecInv(m)
  <2>1. m.next \in Nat /\ m.next = x + k
    BY <1>2, <1>7, <1>8
  <2>2. ASSUME NEW n \in DOMAIN m.rec
        PROVE  n \in Nat /\ n < m.next /\ {"email", "cred", "on", "lim"} \subseteq DOMAIN m.rec[n]
    BY <1>9, <1>12, <1>13, <1>14, <2>1
  <2>3. ASSUME NEW n \in DOMAIN m.rec PROVE m.rec[n].email \in Emails
    BY <1>6, <1>12, <1>13, <1>14 DEF RecInv
  <2>4. ASSUME NEW a \in DOMAIN m.rec, NEW b \in DOMAIN m.rec, m.rec[a].email = m.rec[b].email
        PROVE  a = b
    <3>1. CASE a \in DOMAIN d.rec /\ b \in DOMAIN d.rec
      BY <1>13, <2>4, <3>1 DEF RecInv
    <3>2. CASE a \in x .. x + k - 1 /\ b \in x .. x + k - 1
      <4>1. new[a - x + 1] = new[b - x + 1] /\ a - x + 1 \in 1..k /\ b - x + 1 \in 1..k
        BY <1>14, <2>4, <3>2
      <4>2. a - x + 1 = b - x + 1
        BY <1>4, <1>7, <4>1
      <4> QED BY <3>2, <4>2
    <3>3. ASSUME NEW y \in DOMAIN d.rec, NEW z \in x .. x + k - 1 PROVE m.rec[y].email # m.rec[z].email
      BY <1>6, <1>13, <1>14
    <3> QED BY <1>12, <2>4, <3>1, <3>2, <3>3
  <2>5. \A l \in m.link : l = <<l[1], l[2]>> /\ l[1] \in DOMAIN m.rec /\ l[2] \in Inbounds
    BY <1>2, <1>12 DEF RecInv
  <2> QED BY <2>1, <2>2, <2>3, <2>4, <2>5 DEF RecInv
<1>16. ASSUME NEW n \in DOMAIN m.rec \ DOMAIN d.rec
       PROVE  /\ m.rec[n].email \in DOMAIN entries /\ ~HasRecord(d, m.rec[n].email)
              /\ m.rec[n].cred = entries[m.rec[n].email].cred
  BY <1>12, <1>14 DEF S
<1>17. ASSUME NEW e \in DOMAIN entries PROVE \E n \in DOMAIN m.rec : m.rec[n].email = e
  <2>1. CASE e \in S
    <3>1. PICK l \in 1..k : new[l] = e
      BY <1>4, <1>7, <2>1
    <3>2. x + l - 1 \in x .. x + k - 1 /\ (x + l - 1) - x + 1 = l
      OBVIOUS
    <3>3. PICK n \in x .. x + k - 1 : n - x + 1 = l
      BY <3>2
    <3>4. m.rec[n].email = e /\ n \in DOMAIN m.rec
      BY <1>12, <1>14, <3>1, <3>3
    <3> QED BY <3>4
  <2>2. CASE e \notin S
    BY <1>6a, <1>12, <1>13, <2>2
  <2> QED BY <2>1, <2>2
<1> QED BY <1>2, <1>12, <1>13, <1>15, <1>16, <1>17 DEF MergeTo, m

----------------------------------------------------------------------------
(***************************************************************************)
(* Who is linked to an inbound.                                            *)
(***************************************************************************)

\* The e-mails of the clients linked to an inbound.
NamesAt(d, i) == {d.rec[n].email : n \in {x \in DOMAIN d.rec : <<x, i>> \in d.link}}

\* The records of d are still there, with their names.
KeepsNames(d, m) ==
    /\ DOMAIN d.rec \subseteq DOMAIN m.rec
    /\ \A n \in DOMAIN d.rec : m.rec[n].email = d.rec[n].email

\* What syncInboundClients does.
SyncTo(d, i, entries, detach, prune, m) ==
    /\ Fields \subseteq DOMAIN m /\ m.settings = d.settings /\ m.stat = d.stat
    /\ RecInv(m) /\ KeepsNames(d, m)
    /\ \A n \in DOMAIN d.rec :
         m.rec[n].cred = IF d.rec[n].email \in DOMAIN entries THEN entries[d.rec[n].email].cred
                         ELSE d.rec[n].cred
    /\ \A n \in DOMAIN m.rec \ DOMAIN d.rec :
         /\ m.rec[n].email \in DOMAIN entries /\ ~HasRecord(d, m.rec[n].email)
         /\ m.rec[n].cred = entries[m.rec[n].email].cred
    /\ \A j \in Inbounds \ {i} : NamesAt(m, j) = NamesAt(d, j)
    /\ NamesAt(m, i) = IF prune THEN DOMAIN entries ELSE (NamesAt(d, i) \ detach) \cup DOMAIN entries

LEMMA SyncFacts ==
  ASSUME NEW d, Fields \subseteq DOMAIN d, RecInv(d), NEW i \in Inbounds, NEW entries, Full(entries),
         DOMAIN entries \subseteq Emails, NEW detach, NEW prune \in BOOLEAN
  PROVE  SyncTo(d, i, entries, detach, prune, SyncClients(d, i, entries, detach, prune))
<1> DEFINE k == MergeRecords(d, entries)
           wanted == IdsOf(k, DOMAIN entries)
           gone == IF prune THEN DOMAIN k.rec ELSE IdsOf(k, detach)
           links == (k.link \ ((gone \ wanted) \X {i})) \cup (wanted \X {i})
           m == SyncClients(d, i, entries, detach, prune)
<1>1. MergeTo(d, entries, k)
  BY MergeFacts
<1>2. m = [k EXCEPT !.link = links]
  BY DEF SyncClients
<1>3. wanted = {n \in DOMAIN k.rec : k.rec[n].email \in DOMAIN entries}
  BY DEF IdsOf
<1>4. gone = {n \in DOMAIN k.rec : prune \/ k.rec[n].email \in detach}
  BY DEF IdsOf
<1>5. \A n, j : <<n, j>> \in links <=> \/ <<n, j>> \in k.link /\ ~(n \in gone \ wanted /\ j = i)
                                       \/ n \in wanted /\ j = i
  OBVIOUS
<1>6. \A l \in links : l \in k.link \/ (l = <<l[1], l[2]>> /\ l[1] \in wanted /\ l[2] = i)
  OBVIOUS
<1> HIDE DEF k, wanted, gone, links, m
<1>7. /\ Fields \subseteq DOMAIN m /\ m.settings = d.settings /\ m.stat = d.stat /\ m.rec = k.rec
      /\ m.next = k.next /\ m.link = links
  BY <1>1, <1>2 DEF MergeTo, Fields
<1>8. RecInv(m)
  BY <1>1, <1>3, <1>6, <1>7 DEF RecInv, MergeTo
<1>9. /\ KeepsNames(d, m) /\ DOMAIN d.rec \subseteq DOMAIN m.rec
      /\ \A n \in DOMAIN d.rec :
           /\ m.rec[n].email = d.rec[n].email
           /\ m.rec[n].cred = IF d.rec[n].email \in DOMAIN entries THEN entries[d.rec[n].email].cred
                              ELSE d.rec[n].cred
      /\ \A n \in DOMAIN m.rec \ DOMAIN d.rec :
           /\ m.rec[n].email \in DOMAIN entries /\ ~HasRecord(d, m.rec[n].email)
           /\ m.rec[n].cred = entries[m.rec[n].email].cred
      /\ \A e \in DOMAIN entries : \E n \in DOMAIN m.rec : m.rec[n].email = e
      /\ k.link = d.link
  BY <1>1, <1>7 DEF MergeTo, KeepsNames
<1>10. \A n, j : <<n, j>> \in d.link => n \in DOMAIN d.rec
  <2> SUFFICES ASSUME NEW n, NEW j, <<n, j>> \in d.link PROVE n \in DOMAIN d.rec
    OBVIOUS
  <2>1. <<n, j>>[1] \in DOMAIN d.rec
    BY DEF RecInv
  <2> QED BY <2>1
<1>11. ASSUME NEW j \in Inbounds \ {i} PROVE NamesAt(m, j) = NamesAt(d, j)
  <2>1. \A n : <<n, j>> \in m.link <=> <<n, j>> \in d.link
    BY <1>5, <1>7, <1>9, <1>11
  <2>2. \A x : x \in DOMAIN m.rec /\ <<x, j>> \in m.link <=> x \in DOMAIN d.rec /\ <<x, j>> \in d.link
    BY <1>9, <1>10, <2>1
  <2>3. {x \in DOMAIN m.rec : <<x, j>> \in m.link} = {x \in DOMAIN d.rec : <<x, j>> \in d.link}
    BY <2>2
  <2>4. \A x \in {y \in DOMAIN d.rec : <<y, j>> \in d.link} : m.rec[x].email = d.rec[x].email
    BY <1>9
  <2> QED BY <2>3, <2>4 DEF NamesAt
<1>12. NamesAt(m, i) = IF prune THEN DOMAIN entries ELSE (NamesAt(d, i) \ detach) \cup DOMAIN entries
  <2>1. ASSUME NEW n \in DOMAIN m.rec
        PROVE  <<n, i>> \in m.link <=>
                 (m.rec[n].email \in DOMAIN entries
                  \/ (<<n, i>> \in d.link /\ ~prune /\ m.rec[n].email \notin detach))
    BY <1>3, <1>4, <1>5, <1>7, <1>9
  <2>2. ASSUME NEW e, e \in NamesAt(m, i)
        PROVE  e \in DOMAIN entries \/ (e \in NamesAt(d, i) /\ ~prune /\ e \notin detach)
    <3>1. PICK n \in DOMAIN m.rec : <<n, i>> \in m.link /\ m.rec[n].email = e
      BY <2>2 DEF NamesAt
    <3>2. CASE e \notin DOMAIN entries
      <4>1. <<n, i>> \in d.link /\ ~prune /\ e \notin detach
        BY <2>1, <3>1, <3>2
      <4>2. n \in DOMAIN d.rec /\ d.rec[n].email = e
        BY <1>9, <1>10, <3>1, <4>1
      <4> QED BY <4>1, <4>2 DEF NamesAt
    <3> QED BY <3>2
  <2>3. ASSUME NEW e, e \in DOMAIN entries \/ (e \in NamesAt(d, i) /\ ~prune /\ e \notin detach)
        PROVE  e \in NamesAt(m, i)
    <3>1. CASE e \in DOMAIN entries
      <4>1. PICK n \in DOMAIN m.rec : m.rec[n].email = e
        BY <1>9, <3>1
      <4>2. <<n, i>> \in m.link
        BY <2>1, <3>1, <4>1
      <4> QED BY <4>1, <4>2 DEF NamesAt
    <3>2. CASE e \in NamesAt(d, i) /\ ~prune /\ e \notin detach
      <4>1. PICK n \in DOMAIN d.rec : <<n, i>> \in d.link /\ d.rec[n].email = e
        BY <3>2 DEF NamesAt
      <4>2. n \in DOMAIN m.rec /\ m.rec[n].email = e
        BY <1>9, <4>1
      <4>3. <<n, i>> \in m.link
        BY <2>1, <3>2, <4>1, <4>2
      <4> QED BY <4>2, <4>3 DEF NamesAt
    <3> QED BY <2>3, <3>1, <3>2
  <2> QED BY <2>2, <2>3
<1> QED BY <1>7, <1>8, <1>9, <1>11, <1>12 DEF SyncTo, m

\* Only traffic rows differ.
SameRows(d, m) ==
    Fields \subseteq DOMAIN m /\ m.rec = d.rec /\ m.link = d.link /\ m.next = d.next

LEMMA SameRowsFacts ==
  ASSUME NEW d, NEW m, SameRows(d, m), RecInv(d)
  PROVE  /\ RecInv(m) /\ KeepsNames(d, m)
         /\ \A i : NamesAt(m, i) = NamesAt(d, i)
         /\ \A e : HasRecord(m, e) <=> HasRecord(d, e)
<1>1. RecInv(m) /\ KeepsNames(d, m)
  BY DEF SameRows, RecInv, KeepsNames
<1>2. \A i : NamesAt(m, i) = NamesAt(d, i)
  BY DEF SameRows, NamesAt
<1>3. \A e : HasRecord(m, e) <=> HasRecord(d, e)
  BY DEF SameRows, HasRecord, IdsOf
<1> QED BY <1>1, <1>2, <1>3

DelTo(d, E, m) == SameRows(d, m) /\ DOMAIN m.stat = DOMAIN d.stat \ E
AddTo(d, E, m) == SameRows(d, m) /\ DOMAIN m.stat = DOMAIN d.stat \cup E
UpdateTo(d, e, f, m) ==
    /\ SameRows(d, m)
    /\ DOMAIN m.stat = IF e \in DOMAIN d.stat THEN (DOMAIN d.stat \ {e}) \cup {f} ELSE DOMAIN d.stat

LEMMA StatRows ==
  ASSUME NEW d, Fields \subseteq DOMAIN d, NEW E, NEW new, NEW e, NEW f, NEW entry
  PROVE  /\ DelTo(d, E, DelStats(d, E)) /\ AddTo(d, DOMAIN new, AddStats(d, new))
         /\ UpdateTo(d, e, f, UpdateStat(d, e, f, entry))
<1>1. DelTo(d, E, DelStats(d, E))
  BY DEF DelTo, SameRows, Fields, DelStats, Without
<1>2. AddTo(d, DOMAIN new, AddStats(d, new))
  BY DEF AddTo, SameRows, Fields, AddStats, Over
<1>3. UpdateTo(d, e, f, UpdateStat(d, e, f, entry))
  <2>1. CASE e \notin DOMAIN d.stat
    BY <2>1 DEF UpdateTo, SameRows, UpdateStat
  <2>2. CASE e \in DOMAIN d.stat
    <3> DEFINE row == [on |-> entry.on, lim |-> entry.lim, used |-> d.stat[e].used]
               s == Over(Just(f, row), Without(d.stat, {e}))
    <3>1. DOMAIN s = (DOMAIN d.stat \ {e}) \cup {f}
      <4> HIDE DEF row
      <4> QED BY DEF Over, Just, Without
    <3>2. UpdateStat(d, e, f, entry) = [d EXCEPT !.stat = s]
      BY <2>2 DEF UpdateStat
    <3> HIDE DEF s
    <3> QED BY <2>2, <3>1, <3>2 DEF UpdateTo, SameRows, Fields
  <2> QED BY <2>1, <2>2
<1> QED BY <1>1, <1>2, <1>3

\* The row of a client that keeps its name stays; after a rename there is a row
\* under the new name if there was one under either, and other rows stay.
RenameTo(d, e, f, m) ==
    /\ SameRows(d, m)
    /\ e = f => DOMAIN m.stat = DOMAIN d.stat
    /\ \A x \in DOMAIN d.stat : x # e => x \in DOMAIN m.stat
    /\ e \in DOMAIN d.stat \/ f \in DOMAIN d.stat => f \in DOMAIN m.stat

LEMMA RenameRows ==
  ASSUME NEW d, Fields \subseteq DOMAIN d, NEW i, NEW e, NEW f, NEW entry
  PROVE  RenameTo(d, e, f, RenameStat(d, i, e, f, entry))
<1>1. CASE e = f \/ f \notin DOMAIN d.stat
  <2>1. RenameStat(d, i, e, f, entry) = UpdateStat(d, e, f, entry)
    BY <1>1 DEF RenameStat
  <2>2. UpdateTo(d, e, f, UpdateStat(d, e, f, entry))
    BY StatRows
  <2>3. UpdateTo(d, e, f, RenameStat(d, i, e, f, entry))
    BY <2>1, <2>2
  <2> QED BY <1>1, <2>3 DEF UpdateTo, RenameTo
<1>2. CASE ~(e = f \/ f \notin DOMAIN d.stat)
  <2> DEFINE k == IF UsedElsewhere(d, e, i) THEN d ELSE DelStats(d, {e})
  <2>1. RenameStat(d, i, e, f, entry) = UpdateStat(k, f, f, entry)
    BY <1>2 DEF RenameStat
  <2>2. DelTo(d, {e}, DelStats(d, {e}))
    BY StatRows
  <2>3. SameRows(d, k) /\ Fields \subseteq DOMAIN k /\ DOMAIN k.stat \in {DOMAIN d.stat, DOMAIN d.stat \ {e}}
    BY <2>2 DEF SameRows, DelTo
  <2> HIDE DEF k
  <2>4. UpdateTo(k, f, f, UpdateStat(k, f, f, entry))
    BY <2>3, StatRows
  <2>5. UpdateTo(k, f, f, RenameStat(d, i, e, f, entry))
    BY <2>1, <2>4
  <2> QED BY <1>2, <2>3, <2>5 DEF SameRows, UpdateTo, RenameTo
<1> QED BY <1>1, <1>2

\* Enable in the records and traffic rows.
SetOnTo(d, m) ==
    /\ Fields \subseteq DOMAIN m /\ RecInv(m) /\ KeepsNames(d, m) /\ DOMAIN m.rec = DOMAIN d.rec
    /\ \A n \in DOMAIN d.rec : m.rec[n].cred = d.rec[n].cred
    /\ m.link = d.link /\ DOMAIN m.stat = DOMAIN d.stat

LEMMA SetOnRows ==
  ASSUME NEW d, Fields \subseteq DOMAIN d, RecInv(d), NEW E, NEW on
  PROVE  SetOnTo(d, SetOn(d, E, on))
<1> DEFINE m == SetOn(d, E, on)
           rec == [n \in DOMAIN d.rec |->
                     IF d.rec[n].email \in E THEN [d.rec[n] EXCEPT !.on = on] ELSE d.rec[n]]
           stat == [e \in DOMAIN d.stat |->
                     IF e \in E THEN [d.stat[e] EXCEPT !.on = on] ELSE d.stat[e]]
<1>1. m = [d EXCEPT !.rec = rec, !.stat = stat]
  BY DEF SetOn
<1>2. DOMAIN rec = DOMAIN d.rec /\ DOMAIN stat = DOMAIN d.stat
  OBVIOUS
<1>3. ASSUME NEW n \in DOMAIN d.rec
      PROVE  /\ DOMAIN rec[n] = DOMAIN d.rec[n] /\ rec[n].email = d.rec[n].email
             /\ rec[n].cred = d.rec[n].cred
  <2>1. {"email", "cred", "on", "lim"} \subseteq DOMAIN d.rec[n]
    BY DEF RecInv
  <2>2. rec[n] = IF d.rec[n].email \in E THEN [d.rec[n] EXCEPT !.on = on] ELSE d.rec[n]
    OBVIOUS
  <2> HIDE DEF rec
  <2> QED BY <2>1, <2>2
<1> HIDE DEF rec, stat, m
<1>4. /\ Fields \subseteq DOMAIN m /\ m.rec = rec /\ m.stat = stat /\ m.link = d.link /\ m.next = d.next
  BY <1>1 DEF Fields
<1>5. RecInv(m)
  BY <1>2, <1>3, <1>4 DEF RecInv
<1>6. KeepsNames(d, m) /\ \A n \in DOMAIN d.rec : m.rec[n].cred = d.rec[n].cred
  BY <1>2, <1>3, <1>4 DEF KeepsNames
<1> QED BY <1>2, <1>4, <1>5, <1>6 DEF SetOnTo, m

\* Records that keep their names and links that stay say who is linked where.
LEMMA LinksStay ==
  ASSUME NEW d, NEW m, KeepsNames(d, m), DOMAIN m.rec = DOMAIN d.rec, m.link = d.link
  PROVE  /\ \A i : NamesAt(m, i) = NamesAt(d, i)
         /\ \A e : HasRecord(m, e) <=> HasRecord(d, e)
<1>1. ASSUME NEW i PROVE NamesAt(m, i) = NamesAt(d, i)
  BY DEF KeepsNames, NamesAt
<1>2. ASSUME NEW e PROVE HasRecord(m, e) <=> HasRecord(d, e)
  BY DEF KeepsNames, HasRecord, IdsOf
<1> QED BY <1>1, <1>2

----------------------------------------------------------------------------
(***************************************************************************)
(* Membership: the rows and the requests between their transactions.       *)
(***************************************************************************)

Linked(d) == \A i \in Live(d) : DOMAIN d.settings[i] = NamesAt(d, i)
Counted(d) == \A i \in Live(d) : DOMAIN d.settings[i] \subseteq DOMAIN d.stat
Plain(d) == Linked(d) /\ Counted(d)

Erasing == {"delete", "bulkdelete", "orphans"}
Renames(o) == o.kind = "update" /\ o.payload.to # From(o)
Target(o) == IF o.kind = "update" THEN o.payload.to ELSE From(o)

\* What the share of inbound i is about to write.
ShareOk(o, i, r) ==
    /\ DOMAIN r.base \subseteq Emails
    /\ o.kind \in Adds => /\ DOMAIN r.ours = DOMAIN r.base \cup DOMAIN r.new
                          /\ DOMAIN r.new \subseteq Emails /\ Full(r.new)
    /\ o.kind \in Updates => /\ DOMAIN r.new = {Target(o)} /\ Full(r.new)
                             /\ From(o) \in DOMAIN r.base
                             /\ DOMAIN r.ours = {Target(o)} \cup (DOMAIN r.base \ {From(o)})
    /\ Renames(o) => /\ r.new[Target(o)].cred = o.payload.entry.cred
                     /\ r.ours[Target(o)] = r.new[Target(o)]
    /\ o.kind \in Deletes => DOMAIN r.ours = DOMAIN r.base \ DOMAIN r.new /\ r.drop \subseteq DOMAIN r.new
    /\ o.kind \notin Adds \cup Updates \cup Deletes =>
         DOMAIN r.ours \subseteq DOMAIN r.base /\ DOMAIN r.base \ DOMAIN o.load[i] \subseteq DOMAIN r.ours
    /\ DOMAIN r.new \subseteq DOMAIN o.load[i]
    /\ o.kind \in {"delete", "bulkdelete"} => DOMAIN r.ours \cap DOMAIN o.load[i] = {}
    /\ r.drop \subseteq DOMAIN o.load[i] /\ (o.kind \notin {"delete", "bulkdelete"} => r.drop = {})

ReqOk(w, o) ==
    /\ o.kind # "ghost"
    /\ o.kind \in Erasing => o.kind \in w.kinds
    /\ Renames(o) => "rename" \in w.kinds
    /\ o.kind = "detach" => o.keep
    /\ \A i \in Inbounds : DOMAIN o.load[i] \subseteq Emails
    /\ \A i \in o.todo : DOMAIN o.load[i] # {}
    /\ o.kind \in Updates => From(o) \in o.emails
    /\ o.kind \in Updates => Target(o) \in Emails /\ \A i \in Inbounds : DOMAIN o.load[i] \subseteq {Target(o)}
    /\ o.kind = "update" => {"cred", "lim"} \subseteq DOMAIN o.payload.entry
    /\ Renames(o) => \A i \in o.todo : o.load[i][Target(o)].cred = o.payload.entry.cred
    /\ \A i \in Inbounds : o.run[i] # Empty => i \notin o.todo /\ ShareOk(o, i, o.run[i])

\* The share of i has still to be committed.
Waits(o, i) == i \in o.todo \/ o.run[i] # Empty

\* While clients are deleted: one that was asked for is in no settings any more,
\* or failed, or its share is to come; a traffic row dropped was of a client that
\* no other inbound has.
ErasingOk(d, o) ==
    /\ Linked(d) /\ o.ids \subseteq DOMAIN d.rec
    /\ \A n \in o.ids : o.names[n] = d.rec[n].email /\ o.names[n] \in o.emails
    /\ o.kind = "orphans" => o.failed = {} /\ \A i \in Inbounds : ~Waits(o, i)
    /\ \A i \in Live(d) : \A e \in o.emails \cap DOMAIN d.settings[i] :
         e \in o.failed \/ (e \in DOMAIN o.load[i] /\ Waits(o, i))
    /\ \A i \in Live(d) : \A e \in DOMAIN d.settings[i] :
         e \in DOMAIN d.stat \/ (o.kind = "bulkdelete" /\ o.run[i] # Empty /\ e \in DOMAIN o.load[i])
    /\ \A i \in Inbounds : o.run[i] # Empty =>
         \A j \in Live(d) \ {i} : o.run[i].drop \cap DOMAIN d.settings[j] = {}

\* While a client is renamed: inbounds whose share is to come have the old name
\* in their settings, linked or not, the others agree with their links.
RenamedAt(d, o, i) ==
    LET S == DOMAIN d.settings[i]
        N == NamesAt(d, i)
        from == From(o)
        to == Target(o)
    IN  IF Waits(o, i) THEN from \in S /\ to \notin S /\ S \ {from} = N \ {from, to}
                            /\ (from \in DOMAIN d.stat \/ to \in DOMAIN d.stat)
        ELSE from \notin S /\ S = N

RenamingOk(d, o) ==
    /\ \A i \in Live(d) : RenamedAt(d, o, i)
    /\ \A i \in Live(d) : \A e \in DOMAIN d.settings[i] : e \in DOMAIN d.stat \/ e = From(o)
    /\ \A i \in Live(d) : Target(o) \in DOMAIN d.settings[i] =>
         d.settings[i][Target(o)].cred = o.payload.entry.cred
    /\ \A n \in DOMAIN d.rec : d.rec[n].email = Target(o) => d.rec[n].cred = o.payload.entry.cred

RowsOk(d, o) ==
    /\ ~(o.kind \in Erasing \/ Renames(o)) => Plain(d)
    /\ o.kind \in Erasing => ErasingOk(d, o)
    /\ Renames(o) => RenamingOk(d, o)

\* The entries of the settings are under e-mails.
SettingsNamed(d) == \A i \in Live(d) : DOMAIN d.settings[i] \subseteq Emails

MemInv ==
    /\ RecInv(db) /\ SettingsNamed(db)
    /\ \A p \in Procs : op[p] # Empty =>
         p \in workload.procs /\ ReqOk(workload, op[p]) /\ RowsOk(db, op[p])
    /\ (\A p \in Procs : op[p] = Empty) => Plain(db)

\* A request that deletes or renames is alone.
LEMMA DrasticAlone ==
  ASSUME Careful, NEW o, ReqOk(workload, o), o.kind \in Erasing \/ Renames(o)
  PROVE  /\ \A p, q \in workload.procs : p = q
         /\ o.kind = "bulkdelete" \/ Renames(o) => workload.kinds \cap {"fail", "crash"} = {}
<1>1. o.kind = "bulkdelete" => "bulkdelete" \in workload.kinds
  BY DEF ReqOk, Erasing
<1>2. Renames(o) => "rename" \in workload.kinds
  BY DEF ReqOk
<1>3. workload.kinds \cap {"delete", "bulkdelete", "orphans", "rename"} # {}
  BY <1>2 DEF ReqOk, Erasing
<1> QED BY <1>1, <1>2, <1>3 DEF Careful

LEMMA IdleIsPlain ==
  ASSUME Careful, MemInv, NEW p \in Procs, p \in workload.procs, op[p] = Empty
  PROVE  Plain(db)
<1>1. CASE \A q \in Procs : op[q] = Empty
  BY <1>1 DEF MemInv
<1>2. ASSUME NEW q \in Procs, op[q] # Empty PROVE Plain(db)
  <2>1. ReqOk(workload, op[q]) /\ RowsOk(db, op[q]) /\ q \in workload.procs
    BY <1>2 DEF MemInv
  <2>2. ~(op[q].kind \in Erasing \/ Renames(op[q]))
    BY <1>2, <2>1, DrasticAlone
  <2> QED BY <2>1, <2>2 DEF RowsOk
<1> QED BY <1>1, <1>2

\* A step of one request.
LEMMA OneMem ==
  ASSUME LockInv, MemInv, Careful, NEW p \in Procs, p \in workload.procs,
         NEW k, op' = [op EXCEPT ![p] = k], workload' = workload, RecInv(db'), SettingsNamed(db'),
         k # Empty => ReqOk(workload, k) /\ RowsOk(db', k), k = Empty => Plain(db')
  PROVE  MemInv'
<1>1. DOMAIN op = Procs /\ op'[p] = k /\ \A q \in Procs \ {p} : op'[q] = op[q]
  BY DEF LockInv
<1>2. ASSUME NEW q \in Procs, op'[q] # Empty
      PROVE  q \in workload'.procs /\ ReqOk(workload', op'[q]) /\ RowsOk(db', op'[q])
  <2>1. CASE q = p
    BY <1>1, <1>2, <2>1
  <2>2. CASE q # p
    <3>1. op'[q] = op[q] /\ q \in workload.procs /\ ReqOk(workload, op[q])
      BY <1>1, <1>2, <2>2 DEF MemInv
    <3>2. ~(op[q].kind \in Erasing \/ Renames(op[q]))
      BY <2>2, <3>1, DrasticAlone
    <3>3. k # Empty => ~(k.kind \in Erasing \/ Renames(k))
      BY <2>2, <3>1, DrasticAlone
    <3>4. Plain(db')
      BY <3>3 DEF RowsOk
    <3> QED BY <3>1, <3>2, <3>4 DEF RowsOk
  <2> QED BY <2>1, <2>2
<1>3. (\A q \in Procs : op'[q] = Empty) => Plain(db')
  BY <1>1
<1> QED BY <1>2, <1>3 DEF MemInv

\* Steps that move no client: nobody joins or leaves settings, and who is linked
\* to an inbound stays, or is set right from its settings.
EnvTo(d, m) ==
    /\ Live(m) \subseteq Live(d) /\ RecInv(m) /\ KeepsNames(d, m) /\ DOMAIN d.stat \subseteq DOMAIN m.stat
    /\ \A i \in Live(m) :
         /\ DOMAIN m.settings[i] = DOMAIN d.settings[i]
         /\ \A e \in DOMAIN d.settings[i] : m.settings[i][e].cred = d.settings[i][e].cred
         /\ NamesAt(m, i) = NamesAt(d, i) \/ NamesAt(m, i) = DOMAIN d.settings[i]
    /\ \A n \in DOMAIN m.rec :
         \/ n \in DOMAIN d.rec /\ m.rec[n].cred = d.rec[n].cred
         \/ \E i \in Live(d) : /\ m.rec[n].email \in DOMAIN d.settings[i]
                               /\ m.rec[n].cred = d.settings[i][m.rec[n].email].cred

LEMMA EnvKeeps ==
  ASSUME NEW d, NEW m, EnvTo(d, m)
  PROVE  /\ Plain(d) => Plain(m)
         /\ \A o : RowsOk(d, o) => RowsOk(m, o)
<1>1. Linked(d) => Linked(m)
  BY DEF Linked, EnvTo
<1>2. Plain(d) => Plain(m)
  BY <1>1 DEF Plain, Counted, EnvTo
<1>3. ASSUME NEW o, ErasingOk(d, o) PROVE ErasingOk(m, o)
  <2>1. Linked(m) /\ o.ids \subseteq DOMAIN m.rec
    BY <1>1, <1>3 DEF ErasingOk, EnvTo, KeepsNames
  <2>2. \A n \in o.ids : o.names[n] = m.rec[n].email /\ o.names[n] \in o.emails
    BY <1>3 DEF ErasingOk, EnvTo, KeepsNames
  <2>3. \A i \in Live(m) : \A e \in o.emails \cap DOMAIN m.settings[i] :
          e \in o.failed \/ (e \in DOMAIN o.load[i] /\ Waits(o, i))
    BY <1>3 DEF ErasingOk, EnvTo
  <2>4. \A i \in Live(m) : \A e \in DOMAIN m.settings[i] :
          e \in DOMAIN m.stat \/ (o.kind = "bulkdelete" /\ o.run[i] # Empty /\ e \in DOMAIN o.load[i])
    BY <1>3 DEF ErasingOk, EnvTo
  <2>5. \A i \in Inbounds : o.run[i] # Empty =>
          \A j \in Live(m) \ {i} : o.run[i].drop \cap DOMAIN m.settings[j] = {}
    BY <1>3 DEF ErasingOk, EnvTo
  <2> QED BY <1>3, <2>1, <2>2, <2>3, <2>4, <2>5 DEF ErasingOk
<1>4. ASSUME NEW o, RenamingOk(d, o) PROVE RenamingOk(m, o)
  <2>1. ASSUME NEW i \in Live(m) PROVE RenamedAt(m, o, i)
    <3>1. RenamedAt(d, o, i)
      BY <1>4, <2>1 DEF RenamingOk, EnvTo
    <3>2. DOMAIN m.settings[i] = DOMAIN d.settings[i] /\ DOMAIN d.stat \subseteq DOMAIN m.stat
      BY DEF EnvTo
    <3>3. NamesAt(m, i) = NamesAt(d, i) \/ NamesAt(m, i) = DOMAIN d.settings[i]
      BY DEF EnvTo
    <3> QED BY <3>1, <3>2, <3>3 DEF RenamedAt
  <2>2. \A i \in Live(m) : \A e \in DOMAIN m.settings[i] : e \in DOMAIN m.stat \/ e = From(o)
    BY <1>4 DEF RenamingOk, EnvTo
  <2>3. \A i \in Live(m) : Target(o) \in DOMAIN m.settings[i] =>
          m.settings[i][Target(o)].cred = o.payload.entry.cred
    BY <1>4 DEF RenamingOk, EnvTo
  <2>4. \A n \in DOMAIN m.rec : m.rec[n].email = Target(o) => m.rec[n].cred = o.payload.entry.cred
    BY <1>4 DEF RenamingOk, EnvTo, KeepsNames
  <2> QED BY <2>1, <2>2, <2>3, <2>4 DEF RenamingOk
<1> QED BY <1>2, <1>3, <1>4 DEF RowsOk

LEMMA EnvMem ==
  ASSUME MemInv, EnvTo(db, db'), UNCHANGED <<op, workload>>
  PROVE  MemInv'
<1>1. /\ Plain(db) => Plain(db')
      /\ \A o : RowsOk(db, o) => RowsOk(db', o)
  BY EnvKeeps
<1>2. RecInv(db') /\ SettingsNamed(db')
  BY DEF EnvTo, MemInv, SettingsNamed
<1> QED BY <1>1, <1>2 DEF MemInv

LEMMA SameSettingsEnv ==
  ASSUME NEW d, NEW m, m.settings = d.settings, RecInv(m), KeepsNames(d, m), DOMAIN m.rec = DOMAIN d.rec,
         \A n \in DOMAIN d.rec : m.rec[n].cred = d.rec[n].cred, DOMAIN d.stat \subseteq DOMAIN m.stat,
         \A i \in Live(d) : NamesAt(m, i) = NamesAt(d, i)
  PROVE  EnvTo(d, m)
<1>1. Live(m) = Live(d)
  BY DEF Live
<1> QED BY <1>1 DEF EnvTo

LEMMA StatEnv ==
  ASSUME NEW d, Fields \subseteq DOMAIN d, RecInv(d), NEW stat, DOMAIN d.stat \subseteq DOMAIN stat
  PROVE  EnvTo(d, [d EXCEPT !.stat = stat])
<1>1. PICK m : m = [d EXCEPT !.stat = stat]
  OBVIOUS
<1>2. SameRows(d, m) /\ m.settings = d.settings /\ m.stat = stat
  BY <1>1 DEF SameRows, Fields
<1>3. RecInv(m) /\ KeepsNames(d, m) /\ \A i : NamesAt(m, i) = NamesAt(d, i)
  BY <1>2, SameRowsFacts
<1>4. EnvTo(d, m)
  BY <1>2, <1>3, SameSettingsEnv DEF SameRows
<1> QED BY <1>1, <1>4

LEMMA SetOnEnv ==
  ASSUME NEW d, Fields \subseteq DOMAIN d, RecInv(d), NEW E, NEW on
  PROVE  EnvTo(d, SetOn(d, E, on))
<1>1. PICK m : m = SetOn(d, E, on) /\ SetOnTo(d, m)
  BY SetOnRows
<1>2. SameSettings(d, m)
  BY <1>1, RecordSettings
<1>3. \A i : NamesAt(m, i) = NamesAt(d, i)
  BY <1>1, LinksStay DEF SetOnTo
<1>4. EnvTo(d, m)
  BY <1>1, <1>2, <1>3, SameSettingsEnv DEF SetOnTo, SameSettings
<1> QED BY <1>1, <1>4

LEMMA UseMem ==
  ASSUME LockInv, MemInv, NEW e \in Emails, Use(e)
  PROVE  MemInv'
<1>1. e \in DOMAIN db.stat /\ UNCHANGED <<op, workload>> /\ db' = [db EXCEPT !.stat[e].used = @ + 1]
  BY DEF Use
<1>2. PICK stat : stat = [db.stat EXCEPT ![e].used = @ + 1] /\ db' = [db EXCEPT !.stat = stat]
  BY <1>1
<1>3. DOMAIN stat = DOMAIN db.stat
  BY <1>2
<1>4. EnvTo(db, db')
  BY <1>2, <1>3, StatEnv DEF LockInv, Shape, MemInv
<1> QED BY <1>1, <1>4, EnvMem

LEMMA TickMem ==
  ASSUME LockInv, MemInv, Tick
  PROVE  MemInv'
<1> DEFINE E == DepletedNow(db)
           off(i) == {e \in E : \E n \in IdsOf(db, {e}) : <<n, i>> \in db.link}
           s == [i \in Inbounds |-> IF i \notin Live(db) THEN None
                       ELSE [e \in DOMAIN db.settings[i] |->
                               IF e \in off(i) THEN [db.settings[i][e] EXCEPT !.on = FALSE]
                               ELSE db.settings[i][e]]]
<1>0. Shape(db) /\ Fields \subseteq DOMAIN db /\ RecInv(db)
  BY DEF LockInv, Shape, MemInv
<1>1. PICK no : no = FALSE
  OBVIOUS
<1>2. PICK w : w = SetOn(db, E, no) /\ SetOnTo(db, w)
  BY <1>0, SetOnRows
<1>3. db' = [w EXCEPT !.settings = s] /\ UNCHANGED <<op, workload>>
  BY <1>1, <1>2 DEF Tick
<1>4. TickTo(db, db')
  BY TickFacts
<1>5. ASSUME NEW i \in Live(db), NEW e \in DOMAIN db.settings[i]
      PROVE  s[i][e].cred = db.settings[i][e].cred
  <2>1. i \in Inbounds /\ {"cred", "on", "lim"} \subseteq DOMAIN db.settings[i][e]
    BY <1>0 DEF Live, Shape, Full
  <2>2. s[i][e] = IF e \in off(i) THEN [db.settings[i][e] EXCEPT !.on = FALSE] ELSE db.settings[i][e]
    BY <2>1
  <2> HIDE DEF s, off
  <2> QED BY <2>1, <2>2
<1> HIDE DEF s, E
<1>6. /\ db'.settings = s /\ db'.rec = w.rec /\ db'.link = w.link /\ db'.stat = w.stat /\ db'.next = w.next
  BY <1>2, <1>3 DEF SetOnTo, Fields
<1>7. RecInv(db') /\ KeepsNames(db, db') /\ DOMAIN db'.rec = DOMAIN db.rec
  BY <1>2, <1>6 DEF SetOnTo, RecInv, KeepsNames
<1>8. \A i : NamesAt(db', i) = NamesAt(db, i)
  <2>1. db'.link = db.link
    BY <1>2, <1>6 DEF SetOnTo
  <2> QED BY <1>7, <2>1, LinksStay
<1>9. \A n \in DOMAIN db.rec : db'.rec[n].cred = db.rec[n].cred
  BY <1>2, <1>6 DEF SetOnTo
<1>10. EnvTo(db, db')
  <2>1. Live(db') \subseteq Live(db) /\ \A i \in Live(db') : DOMAIN db'.settings[i] = DOMAIN db.settings[i]
    BY <1>4 DEF TickTo
  <2>2. DOMAIN db.stat \subseteq DOMAIN db'.stat
    BY <1>2, <1>6 DEF SetOnTo
  <2> QED BY <1>5, <1>6, <1>7, <1>8, <1>9, <2>1, <2>2 DEF EnvTo
<1> QED BY <1>3, <1>10, EnvMem

\* A save of an inbound sets its links right.
LEMMA SaveMem ==
  ASSUME LockInv, MemInv, NEW i \in Inbounds, UpdateInbound(i)
  PROVE  MemInv'
<1> DEFINE s == db.settings[i]
           k == [db EXCEPT !.stat = SavedStats(db, s)]
<1>0. Shape(db) /\ Fields \subseteq DOMAIN db /\ RecInv(db) /\ i \in Live(db) /\ UNCHANGED <<op, workload>>
  BY DEF LockInv, Shape, MemInv, UpdateInbound, Op
<1>1. PICK yes : yes = TRUE
  OBVIOUS
<1>2. db' = SyncClients(k, i, s, {}, yes)
  BY <1>1 DEF UpdateInbound, Saved, SyncInbound
<1>3. DOMAIN SavedStats(db, s) = DOMAIN db.stat
  BY DEF SavedStats
<1>4. /\ SameRows(db, k) /\ k.settings = db.settings /\ DOMAIN k.stat = DOMAIN db.stat
  BY <1>0, <1>3 DEF SameRows, Fields
<1>5. Full(s)
  BY <1>0 DEF Shape
<1>6. DOMAIN s \subseteq Emails
  BY <1>0 DEF SettingsNamed, MemInv
<1> HIDE DEF k, s
<1>7. RecInv(k) /\ KeepsNames(db, k) /\ \A j : NamesAt(k, j) = NamesAt(db, j)
  BY <1>0, <1>4, SameRowsFacts
<1>8. SyncTo(k, i, s, {}, yes, db')
  BY <1>0, <1>1, <1>2, <1>4, <1>5, <1>6, <1>7, SyncFacts DEF SameRows
<1>9. EnvTo(db, db')
  <2>1. db'.settings = db.settings /\ Live(db') = Live(db)
    BY <1>4, <1>8 DEF SyncTo, Live
  <2>2. RecInv(db') /\ KeepsNames(db, db') /\ DOMAIN db.stat \subseteq DOMAIN db'.stat
    BY <1>4, <1>8 DEF SyncTo, SameRows, KeepsNames
  <2>3. ASSUME NEW j \in Live(db) PROVE NamesAt(db', j) = NamesAt(db, j) \/ NamesAt(db', j) = DOMAIN db.settings[j]
    BY <1>1, <1>7, <1>8 DEF SyncTo, s, Live
  <2>4. ASSUME NEW n \in DOMAIN db'.rec
        PROVE  \/ n \in DOMAIN db.rec /\ db'.rec[n].cred = db.rec[n].cred
               \/ db'.rec[n].email \in DOMAIN s /\ db'.rec[n].cred = s[db'.rec[n].email].cred
    BY <1>4, <1>8 DEF SyncTo, SameRows, KeepsNames
  <2> QED BY <1>0, <2>1, <2>2, <2>3, <2>4 DEF EnvTo, s
<1> QED BY <1>0, <1>9, EnvMem

LEMMA DelInboundMem ==
  ASSUME LockInv, MemInv, NEW i \in Inbounds, DelInbound(i)
  PROVE  MemInv'
<1>0. /\ Shape(db) /\ RecInv(db) /\ UNCHANGED <<op, workload>>
      /\ db' = [db EXCEPT !.settings[i] = None, !.link = {l \in db.link : l[2] # i}]
  BY DEF LockInv, MemInv, DelInbound, Op
<1>1. /\ db'.rec = db.rec /\ db'.stat = db.stat /\ db'.next = db.next
      /\ db'.link = {l \in db.link : l[2] # i}
  BY <1>0 DEF Shape, Fields
<1>2. Live(db') = Live(db) \ {i} /\ \A j \in Live(db') : db'.settings[j] = db.settings[j]
  BY DelInboundLock
<1>3. RecInv(db') /\ KeepsNames(db, db')
  BY <1>0, <1>1 DEF RecInv, KeepsNames
<1>4. ASSUME NEW j \in Live(db') PROVE NamesAt(db', j) = NamesAt(db, j)
  <2>1. j # i
    BY <1>2
  <2>2. \A x : <<x, j>> \in db'.link <=> <<x, j>> \in db.link
    BY <1>1, <2>1
  <2> QED BY <1>1, <2>2 DEF NamesAt
<1>5. EnvTo(db, db')
  BY <1>1, <1>2, <1>3, <1>4 DEF EnvTo
<1> QED BY <1>0, <1>5, EnvMem

----------------------------------------------------------------------------
(***************************************************************************)
(* Requests begin.                                                         *)
(***************************************************************************)

Begun(d, k, kind, ids, load) ==
    /\ k.kind = kind /\ k.ids = ids /\ k.load = load /\ k.failed = {}
    /\ k.todo = {i \in Inbounds : DOMAIN load[i] # {}} /\ \A i \in Inbounds : k.run[i] = Empty
    /\ k.names = [n \in ids |-> d.rec[n].email] /\ k.emails = {d.rec[n].email : n \in ids}

LEMMA RequestBegun ==
  ASSUME NEW kind, NEW ids, NEW load
  PROVE  /\ Begun(db, Request(kind, ids, load), kind, ids, load) /\ Request(kind, ids, load).keep = TRUE
         /\ \A x : Begun(db, [Request(kind, ids, load) EXCEPT !.keep = x], kind, ids, load)
         /\ \A x : /\ Begun(db, [Request(kind, ids, load) EXCEPT !.payload = x], kind, ids, load)
                   /\ [Request(kind, ids, load) EXCEPT !.payload = x].payload = x
         /\ \A x, y : Begun(db, [Request(kind, ids, load) EXCEPT !.field = x, !.payload = y], kind, ids, load)
<1>1. Begun(db, Request(kind, ids, load), kind, ids, load) /\ Request(kind, ids, load).keep = TRUE
  BY DEF Begun, Request
<1>2. ASSUME NEW x PROVE Begun(db, [Request(kind, ids, load) EXCEPT !.keep = x], kind, ids, load)
  BY DEF Begun, Request
<1>3. ASSUME NEW x PROVE /\ Begun(db, [Request(kind, ids, load) EXCEPT !.payload = x], kind, ids, load)
                         /\ [Request(kind, ids, load) EXCEPT !.payload = x].payload = x
  BY DEF Begun, Request
<1>4. ASSUME NEW x, NEW y
      PROVE  Begun(db, [Request(kind, ids, load) EXCEPT !.field = x, !.payload = y], kind, ids, load)
  BY DEF Begun, Request
<1> QED BY <1>1, <1>2, <1>3, <1>4

LEMMA SameEnv ==
  ASSUME RecInv(db), UNCHANGED db
  PROVE  EnvTo(db, db')
<1>1. KeepsNames(db, db)
  BY DEF KeepsNames
<1> QED BY <1>1 DEF EnvTo

\* A request of an idle process.
LEMMA BeginMem ==
  ASSUME LockInv, MemInv, Careful, NEW p \in Procs, p \in workload.procs, op[p] = Empty,
         NEW k, op' = [op EXCEPT ![p] = k], workload' = workload, EnvTo(db, db'),
         ReqOk(workload, k), Plain(db') => RowsOk(db', k)
  PROVE  MemInv'
<1>1. Plain(db')
  BY IdleIsPlain, EnvKeeps
<1>2. RecInv(db') /\ SettingsNamed(db')
  BY DEF EnvTo, MemInv, SettingsNamed
<1> QED BY <1>1, <1>2, OneMem

\* The requests that neither change names nor erase.
LEMMA BeginMild ==
  ASSUME LockInv, MemInv, Careful, NEW p \in Procs, p \in workload.procs, op[p] = Empty,
         NEW k, op' = [op EXCEPT ![p] = k], workload' = workload, UNCHANGED db,
         NEW kind, NEW ids, NEW load, Begun(db, k, kind, ids, load),
         kind \notin Updates \cup Erasing \cup {"ghost"}, kind = "detach" => k.keep,
         \A i \in Inbounds : DOMAIN load[i] \subseteq Emails
  PROVE  MemInv'
<1>1. ~Renames(k) /\ k.kind \notin Erasing
  BY DEF Renames, Begun, Updates
<1>2. ReqOk(workload, k)
  BY <1>1 DEF ReqOk, Begun, Updates
<1>3. Plain(db') => RowsOk(db', k)
  BY <1>1 DEF RowsOk
<1>4. EnvTo(db, db')
  BY SameEnv DEF MemInv
<1> QED BY <1>2, <1>3, <1>4, BeginMem

LEMMA AttachedNames ==
  ASSUME NEW ids, NEW S, NEW value, NEW i \in Inbounds
  PROVE  DOMAIN Attached(ids, S, value)[i]
           = {db.rec[n].email : n \in {m \in ids : i \in S /\ <<m, i>> \in db.link}}
  BY DEF Attached

LEMMA AttachedEmails ==
  ASSUME RecInv(db), NEW ids, ids \subseteq DOMAIN db.rec, NEW S, NEW value
  PROVE  \A i \in Inbounds : DOMAIN Attached(ids, S, value)[i] \subseteq Emails
<1> SUFFICES ASSUME NEW i \in Inbounds PROVE DOMAIN Attached(ids, S, value)[i] \subseteq Emails
  OBVIOUS
<1>1. DOMAIN Attached(ids, S, value)[i]
        = {db.rec[n].email : n \in {m \in ids : i \in S /\ <<m, i>> \in db.link}}
  BY AttachedNames
<1>2. \A n \in ids : db.rec[n].email \in Emails
  BY DEF RecInv
<1>3. {db.rec[n].email : n \in {m \in ids : i \in S /\ <<m, i>> \in db.link}} \subseteq Emails
  BY <1>2
<1> QED BY <1>1, <1>3

LEMMA AddMem ==
  ASSUME LockInv, MemInv, Careful, NEW p \in Procs, p \in workload.procs,
         Create(p) \/ Attach(p) \/ BulkAttach(p)
  PROVE  MemInv'
<1>0. op[p] = Empty /\ UNCHANGED <<db, workload>> /\ RecInv(db)
  BY DEF Create, Attach, BulkAttach, Idle, Op, MemInv
<1>a. \A kind \in {"create", "attach"} : kind \notin Updates \cup Erasing \cup {"ghost"} /\ kind # "detach"
  BY DEF Updates, Erasing
<1>b. DOMAIN Empty = {}
  BY DEF Empty
<1>1. CASE Create(p)
  <2>1. PICK E \in SUBSET Emails, S \in SUBSET Live(db) :
        \E new \in [E -> [cred : Creds, on : {TRUE}, lim : workload.limits]] :
          Serve(p, Request("create", {}, [i \in Inbounds |-> IF i \in S THEN new ELSE Empty]))
    BY <1>1 DEF Create
  <2>2. PICK new \in [E -> [cred : Creds, on : {TRUE}, lim : workload.limits]] :
          Serve(p, Request("create", {}, [i \in Inbounds |-> IF i \in S THEN new ELSE Empty]))
    BY <2>1
  <2> DEFINE load == [i \in Inbounds |-> IF i \in S THEN new ELSE Empty]
  <2>3. DOMAIN new \subseteq Emails
    OBVIOUS
  <2>4. \A i \in Inbounds : DOMAIN load[i] \subseteq Emails
    BY <1>b, <2>3
  <2>5. op' = [op EXCEPT ![p] = Request("create", {}, load)]
    BY <2>2 DEF Serve
  <2> HIDE DEF load
  <2>6. PICK k : op' = [op EXCEPT ![p] = k] /\ Begun(db, k, "create", {}, load)
    BY <2>5, RequestBegun
  <2> QED BY <1>0, <1>a, <2>4, <2>6, BeginMild
<1>2. CASE Attach(p)
  <2>1. PICK n \in DOMAIN db.rec, S \in SUBSET Inbounds :
          Serve(p, Request("attach", {n},
              [i \in Inbounds |-> IF i \in S THEN Just(db.rec[n].email, EntryOf(db, n)) ELSE Empty]))
    BY <1>2 DEF Attach
  <2> DEFINE one == Just(db.rec[n].email, EntryOf(db, n))
             load == [i \in Inbounds |-> IF i \in S THEN one ELSE Empty]
  <2>2. DOMAIN one \subseteq Emails
    BY <1>0 DEF Just, RecInv
  <2>3. op' = [op EXCEPT ![p] = Request("attach", {n}, load)]
    BY <2>1 DEF Serve
  <2> HIDE DEF one
  <2>4. \A i \in Inbounds : DOMAIN load[i] \subseteq Emails
    BY <1>b, <2>2
  <2> HIDE DEF load
  <2>6. PICK k : op' = [op EXCEPT ![p] = k] /\ Begun(db, k, "attach", {n}, load)
    BY <2>3, RequestBegun
  <2> QED BY <1>0, <1>a, <2>4, <2>6, BeginMild
<1>3. CASE BulkAttach(p)
  <2>1. PICK ids \in SUBSET DOMAIN db.rec, S \in SUBSET Live(db) :
         LET E == {db.rec[n].email : n \in ids}
             entry(e) == EntryOf(db, CHOOSE n \in ids : db.rec[n].email = e)
         IN  Serve(p, Request("attach", ids,
               [i \in Inbounds |-> IF i \in S THEN [e \in E \ DOMAIN db.settings[i] |-> entry(e)]
                                   ELSE Empty]))
    BY <1>3 DEF BulkAttach
  <2> DEFINE E == {db.rec[n].email : n \in ids}
             entry(e) == EntryOf(db, CHOOSE n \in ids : db.rec[n].email = e)
             load == [i \in Inbounds |-> IF i \in S THEN [e \in E \ DOMAIN db.settings[i] |-> entry(e)]
                                         ELSE Empty]
  <2>2. op' = [op EXCEPT ![p] = Request("attach", ids, load)]
    BY <2>1 DEF Serve
  <2>3. E \subseteq Emails
    BY <1>0 DEF RecInv
  <2> HIDE DEF E, entry
  <2>4. \A i \in Inbounds : DOMAIN load[i] \subseteq Emails
    BY <1>b, <2>3
  <2> HIDE DEF load
  <2>6. PICK k : op' = [op EXCEPT ![p] = k] /\ Begun(db, k, "attach", ids, load)
    BY <2>2, RequestBegun
  <2> QED BY <1>0, <1>a, <2>4, <2>6, BeginMild
<1> QED BY <1>1, <1>2, <1>3

LEMMA EditMem ==
  ASSUME LockInv, MemInv, Careful, NEW p \in Procs, p \in workload.procs,
         Detach(p) \/ BulkSetEnable(p) \/ BulkAdjust(p)
  PROVE  MemInv'
<1>0. op[p] = Empty /\ UNCHANGED <<db, workload>> /\ RecInv(db)
  BY DEF Detach, BulkSetEnable, BulkAdjust, Idle, Op, MemInv
<1>a. \A kind \in {"detach", "enable", "adjust"} : kind \notin Updates \cup Erasing \cup {"ghost"}
  BY DEF Updates, Erasing
<1>1. CASE Detach(p)
  <2>1. PICK ids \in SUBSET DOMAIN db.rec, S \in SUBSET Inbounds :
          Serve(p, Request("detach", ids, Attached(ids, S, Nothing)))
    BY <1>1 DEF Detach
  <2>2. PICK load : load = Attached(ids, S, Nothing) /\ \A i \in Inbounds : DOMAIN load[i] \subseteq Emails
    BY <1>0, <2>1, AttachedEmails
  <2>3. op' = [op EXCEPT ![p] = Request("detach", ids, load)]
    BY <2>1, <2>2 DEF Serve
  <2>4. PICK k : op' = [op EXCEPT ![p] = k] /\ Begun(db, k, "detach", ids, load) /\ k.keep
    BY <2>3, RequestBegun
  <2> QED BY <1>0, <1>a, <2>2, <2>4, BeginMild
<1>2. CASE BulkSetEnable(p)
  <2>1. PICK ids \in SUBSET DOMAIN db.rec, on \in BOOLEAN : Serve(p, EnableRequest(ids, on))
    BY <1>2 DEF BulkSetEnable
  <2>2. PICK load : /\ load = Attached(ids, Inbounds, [e \in Emails |-> on])
                    /\ \A i \in Inbounds : DOMAIN load[i] \subseteq Emails
    BY <1>0, <2>1, AttachedEmails
  <2>3. op' = [op EXCEPT ![p] = [Request("enable", ids, load) EXCEPT !.payload = on]]
    BY <2>1, <2>2 DEF Serve, EnableRequest
  <2>4. PICK k : op' = [op EXCEPT ![p] = k] /\ Begun(db, k, "enable", ids, load)
    BY <2>3, RequestBegun
  <2> QED BY <1>0, <1>a, <2>2, <2>4, BeginMild
<1>3. CASE BulkAdjust(p)
  <2>1. PICK ids, plan :
          /\ ids \subseteq DOMAIN db.rec
          /\ Serve(p, [Request("adjust", ids, Attached(ids, Inbounds, plan))
                      EXCEPT !.field = "lim", !.payload = plan])
    BY <1>3 DEF BulkAdjust
  <2>2. PICK load : /\ load = Attached(ids, Inbounds, plan)
                    /\ \A i \in Inbounds : DOMAIN load[i] \subseteq Emails
    BY <1>0, <2>1, AttachedEmails
  <2>3. op' = [op EXCEPT ![p] = [Request("adjust", ids, load) EXCEPT !.field = "lim", !.payload = plan]]
    BY <2>1, <2>2 DEF Serve
  <2>4. PICK k : op' = [op EXCEPT ![p] = k] /\ Begun(db, k, "adjust", ids, load)
    BY <2>3, RequestBegun
  <2> QED BY <1>0, <1>a, <2>2, <2>4, BeginMild
<1> QED BY <1>1, <1>2, <1>3

\* A request to delete clients takes in all their inbounds.
Covers(d, kind, ids, load) ==
    /\ \A i \in Inbounds : DOMAIN load[i] \subseteq Emails
    /\ kind = "orphans" => \A i \in Inbounds : DOMAIN load[i] = {}
    /\ \A n \in ids, i \in Live(d) : <<n, i>> \in d.link => d.rec[n].email \in DOMAIN load[i]

LEMMA BeginErasing ==
  ASSUME LockInv, MemInv, Careful, NEW p \in Procs, p \in workload.procs, op[p] = Empty,
         NEW k, op' = [op EXCEPT ![p] = k], workload' = workload, UNCHANGED db,
         NEW kind \in Erasing, kind \in workload.kinds, NEW ids, NEW load, ids \subseteq DOMAIN db.rec,
         Begun(db, k, kind, ids, load), Covers(db, kind, ids, load)
  PROVE  MemInv'
<1>1. ~Renames(k) /\ k.kind \in Erasing /\ k.kind \notin Updates /\ k.kind # "ghost" /\ k.kind # "detach"
  BY DEF Renames, Begun, Updates, Erasing
<1>2. ReqOk(workload, k)
  BY <1>1 DEF ReqOk, Begun, Covers, Updates
<1>3. ASSUME Plain(db) PROVE ErasingOk(db, k)
  <2>1. Linked(db) /\ k.ids \subseteq DOMAIN db.rec
    BY <1>3 DEF Plain, Begun
  <2>2. \A n \in k.ids : k.names[n] = db.rec[n].email /\ k.names[n] \in k.emails
    BY DEF Begun
  <2>3. k.kind = "orphans" => k.failed = {} /\ \A i \in Inbounds : ~Waits(k, i)
    BY DEF Begun, Waits, Covers
  <2>4. ASSUME NEW i \in Live(db), NEW e \in k.emails, e \in DOMAIN db.settings[i]
        PROVE  e \in DOMAIN k.load[i] /\ Waits(k, i)
    <3>1. PICK n \in ids : e = db.rec[n].email
      BY DEF Begun
    <3>2. e \in NamesAt(db, i)
      BY <2>1, <2>4 DEF Linked
    <3>3. PICK m \in DOMAIN db.rec : <<m, i>> \in db.link /\ db.rec[m].email = e
      BY <3>2 DEF NamesAt
    <3>4. m = n
      BY <3>1, <3>3 DEF MemInv, RecInv
    <3>5. e \in DOMAIN load[i] /\ i \in Inbounds
      BY <3>1, <3>3, <3>4 DEF Live, Covers
    <3> QED BY <3>5 DEF Begun, Waits
  <2>5. \A i \in Live(db) : \A e \in DOMAIN db.settings[i] : e \in DOMAIN db.stat
    BY <1>3 DEF Plain, Counted
  <2>6. \A i \in Inbounds : k.run[i] = Empty
    BY DEF Begun
  <2> QED BY <2>1, <2>2, <2>3, <2>4, <2>5, <2>6 DEF ErasingOk
<1>4. Plain(db') => RowsOk(db', k)
  BY <1>1, <1>3 DEF RowsOk
<1>5. EnvTo(db, db')
  BY SameEnv DEF MemInv
<1> QED BY <1>2, <1>4, <1>5, BeginMem

LEMMA EraseMem ==
  ASSUME LockInv, MemInv, Careful, NEW p \in Procs, p \in workload.procs,
         Delete(p) \/ BulkDelete(p) \/ DeleteOrphans(p)
  PROVE  MemInv'
<1>0. op[p] = Empty /\ UNCHANGED <<db, workload>> /\ RecInv(db)
  BY DEF Delete, BulkDelete, DeleteOrphans, Idle, Op, MemInv
<1>a. {"delete", "bulkdelete", "orphans"} \subseteq Erasing
  BY DEF Erasing
<1>b. ASSUME NEW ids, ids \subseteq DOMAIN db.rec, NEW S, Live(db) \subseteq S, NEW load,
             load = Attached(ids, S, Nothing)
      PROVE  /\ \A i \in Inbounds : DOMAIN load[i] \subseteq Emails
             /\ \A n \in ids, i \in Live(db) : <<n, i>> \in db.link => db.rec[n].email \in DOMAIN load[i]
  <2>1. \A i \in Inbounds : DOMAIN load[i] \subseteq Emails
    BY <1>0, <1>b, AttachedEmails
  <2>2. ASSUME NEW n \in ids, NEW i \in Live(db), <<n, i>> \in db.link
        PROVE  db.rec[n].email \in DOMAIN load[i]
    <3>1. i \in Inbounds
      BY DEF Live
    <3>2. DOMAIN load[i] = {db.rec[x].email : x \in {m \in ids : i \in S /\ <<m, i>> \in db.link}}
      BY <1>b, <3>1 DEF Attached
    <3> QED BY <1>b, <2>2, <3>2
  <2> QED BY <2>1, <2>2
<1>1. CASE Delete(p)
  <2>1. PICK n \in DOMAIN db.rec, keep \in BOOLEAN :
          Serve(p, [Request("delete", {n}, Attached({n}, Live(db), Nothing)) EXCEPT !.keep = keep])
    BY <1>1 DEF Delete
  <2>2. PICK ids : ids = {n} /\ ids \subseteq DOMAIN db.rec
    OBVIOUS
  <2>2a. PICK load : load = Attached(ids, Live(db), Nothing)
    OBVIOUS
  <2>3. op' = [op EXCEPT ![p] = [Request("delete", ids, load) EXCEPT !.keep = keep]]
    BY <2>1, <2>2, <2>2a DEF Serve
  <2>4. PICK k : op' = [op EXCEPT ![p] = k] /\ Begun(db, k, "delete", ids, load)
    BY <2>3, RequestBegun
  <2>5. Covers(db, "delete", ids, load)
    BY <1>b, <2>2, <2>2a DEF Covers
  <2>6. "delete" \in workload.kinds
    BY <1>1 DEF Delete, Idle, Op
  <2> QED BY <1>0, <1>a, <2>2, <2>4, <2>5, <2>6, BeginErasing
<1>2. CASE BulkDelete(p)
  <2>1. PICK ids \in SUBSET DOMAIN db.rec, keep \in BOOLEAN :
          Serve(p, [Request("bulkdelete", ids, Attached(ids, Inbounds, Nothing)) EXCEPT !.keep = keep])
    BY <1>2 DEF BulkDelete
  <2>2. PICK load : load = Attached(ids, Inbounds, Nothing)
    OBVIOUS
  <2>3. op' = [op EXCEPT ![p] = [Request("bulkdelete", ids, load) EXCEPT !.keep = keep]]
    BY <2>1, <2>2 DEF Serve
  <2>4. PICK k : op' = [op EXCEPT ![p] = k] /\ Begun(db, k, "bulkdelete", ids, load)
    BY <2>3, RequestBegun
  <2>5. Covers(db, "bulkdelete", ids, load)
    <3>1. Live(db) \subseteq Inbounds
      BY DEF Live
    <3> QED BY <1>b, <2>2, <3>1 DEF Covers
  <2>6. "bulkdelete" \in workload.kinds
    BY <1>2 DEF BulkDelete, Idle, Op
  <2> QED BY <1>0, <1>a, <2>4, <2>5, <2>6, BeginErasing
<1>3. CASE DeleteOrphans(p)
  <2> DEFINE ids == {n \in DOMAIN db.rec : LinkedInbounds(db, n) = {}}
             load == [i \in Inbounds |-> Empty]
  <2>1. op' = [op EXCEPT ![p] = Request("orphans", ids, load)] /\ "orphans" \in workload.kinds
    BY <1>3 DEF DeleteOrphans, Serve, Idle, Op
  <2>2. \A i \in Inbounds : DOMAIN load[i] = {}
    BY DEF Empty
  <2>3. \A n \in ids, i \in Live(db) : <<n, i>> \notin db.link
    BY DEF LinkedInbounds, Live
  <2>4. ids \subseteq DOMAIN db.rec
    OBVIOUS
  <2> HIDE DEF ids, load
  <2>5. PICK k : op' = [op EXCEPT ![p] = k] /\ Begun(db, k, "orphans", ids, load)
    BY <2>1, RequestBegun
  <2>6. Covers(db, "orphans", ids, load)
    BY <2>2, <2>3 DEF Covers
  <2> QED BY <1>0, <1>a, <2>1, <2>4, <2>5, <2>6, BeginErasing
<1> QED BY <1>1, <1>2, <1>3

\* No client is without a record: DeleteByEmail finds nobody.
LEMMA NoGhosts ==
  ASSUME MemInv, Careful, NEW p \in Procs, p \in workload.procs
  PROVE  ~DeleteByEmail(p)
<1> SUFFICES ASSUME DeleteByEmail(p) PROVE FALSE
  OBVIOUS
<1>1. PICK e \in Emails : /\ ~HasRecord(db, e)
                          /\ {i \in Live(db) : e \in DOMAIN db.settings[i]} # {}
  BY DEF DeleteByEmail
<1>2. Plain(db)
  BY IdleIsPlain DEF DeleteByEmail, Idle
<1>3. PICK i \in Live(db) : e \in NamesAt(db, i)
  BY <1>1, <1>2 DEF Plain, Linked
<1> QED BY <1>1, <1>3 DEF NamesAt, HasRecord, IdsOf

LEMMA FromOne ==
  ASSUME NEW o, NEW e, o.emails = {e}
  PROVE  From(o) = e
  BY DEF From

\* The links to inbounds that are gone.
LEMMA DropLinks ==
  ASSUME NEW d, Fields \subseteq DOMAIN d, RecInv(d), NEW n
  PROVE  EnvTo(d, [d EXCEPT !.link = @ \ ({n} \X (Inbounds \ Live(d)))])
<1> DEFINE links == d.link \ ({n} \X (Inbounds \ Live(d)))
<1>1. PICK m : m = [d EXCEPT !.link = links]
  OBVIOUS
<1>2. links \subseteq d.link /\ \A x, i : i \in Live(d) => (<<x, i>> \in links <=> <<x, i>> \in d.link)
  OBVIOUS
<1> HIDE DEF links
<1>3. m.rec = d.rec /\ m.settings = d.settings /\ m.stat = d.stat /\ m.link = links /\ m.next = d.next
  BY <1>1 DEF Fields
<1>4. RecInv(m) /\ KeepsNames(d, m)
  BY <1>2, <1>3 DEF RecInv, KeepsNames
<1>5. \A i \in Live(d) : NamesAt(m, i) = NamesAt(d, i)
  BY <1>2, <1>3 DEF NamesAt
<1>6. EnvTo(d, m)
  BY <1>3, <1>4, <1>5, SameSettingsEnv
<1> QED BY <1>1, <1>6 DEF links

LEMMA UpdateMem ==
  ASSUME LockInv, MemInv, Careful, NEW p \in Procs, p \in workload.procs, Update(p)
  PROVE  MemInv'
<1>0. /\ op[p] = Empty /\ workload' = workload /\ RecInv(db) /\ Fields \subseteq DOMAIN db /\ Plain(db)
  BY IdleIsPlain DEF Update, Idle, Op, MemInv, LockInv, Shape
<1>1. PICK n \in DOMAIN db.rec, to \in Emails, new \in [cred : Creds, on : BOOLEAN, lim : workload.limits] :
         /\ to = db.rec[n].email \/ ("rename" \in workload.kinds /\ ~HasRecord(db, to))
         /\ db' = [db EXCEPT !.link = @ \ ({n} \X (Inbounds \ Live(db)))]
         /\ Serve(p, [Request("update", {n},
                        [i \in Inbounds |-> IF i \in Live(db) \cap LinkedInbounds(db, n)
                                              THEN Just(to, new) ELSE Empty])
                        EXCEPT !.payload = [to |-> to, entry |-> new]])
  BY DEF Update
<1> DEFINE from == db.rec[n].email
           S == Live(db) \cap LinkedInbounds(db, n)
           load == [i \in Inbounds |-> IF i \in S THEN Just(to, new) ELSE Empty]
           pay == [to |-> to, entry |-> new]
<1>2. EnvTo(db, db')
  BY <1>0, <1>1, DropLinks
<1>3. /\ \A i \in S \cap Inbounds : DOMAIN load[i] = {to} /\ load[i][to] = new
      /\ \A i \in Inbounds \ S : DOMAIN load[i] = {}
  BY DEF Just, Empty
<1>4. op' = [op EXCEPT ![p] = [Request("update", {n}, load) EXCEPT !.payload = pay]]
  BY <1>1 DEF Serve
<1>5. pay.to = to /\ pay.entry = new
  OBVIOUS
<1>6. S \subseteq Inbounds /\ \A i \in Live(db) : i \in S <=> <<n, i>> \in db.link
  BY DEF Live, LinkedInbounds
<1> HIDE DEF load, pay, S
<1>7. PICK k : op' = [op EXCEPT ![p] = k] /\ Begun(db, k, "update", {n}, load) /\ k.payload = pay
  <2>1. PICK k : k = [Request("update", {n}, load) EXCEPT !.payload = pay]
    OBVIOUS
  <2>2. Begun(db, k, "update", {n}, load) /\ k.payload = pay
    <3>1. k.payload = pay
      BY <2>1 DEF Request
    <3>2. Begun(db, k, "update", {n}, load)
      BY <2>1 DEF Begun, Request
    <3> QED BY <3>1, <3>2
  <2> QED BY <1>4, <2>1, <2>2
<1>8a. k.emails = {from}
  BY <1>7 DEF Begun
<1>8. k.emails = {from} /\ From(k) = from
  BY <1>8a, FromOne
<1>9. /\ k.kind = "update" /\ Target(k) = to /\ k.payload.entry = new
      /\ (Renames(k) <=> to # from) /\ k.todo = S /\ \A i \in Inbounds : k.run[i] = Empty
  BY <1>3, <1>5, <1>6, <1>7, <1>8 DEF Begun, Target, Renames
<1>10. ReqOk(workload, k)
  <2>1. \A i \in Inbounds : DOMAIN k.load[i] \subseteq {to}
    BY <1>3, <1>7 DEF Begun
  <2>2. \A i \in k.todo : k.load[i][to].cred = new.cred /\ DOMAIN k.load[i] # {}
    BY <1>3, <1>6, <1>7, <1>9 DEF Begun
  <2>3. "update" \notin Erasing
    BY DEF Erasing
  <2>4. {"cred", "lim"} \subseteq DOMAIN new
    BY <1>1
  <2> QED BY <1>1, <1>8, <1>9, <2>1, <2>2, <2>3, <2>4 DEF ReqOk
<1>11. ASSUME to # from PROVE RenamingOk(db, k)
  <2>1. \A m \in DOMAIN db.rec : db.rec[m].email # to
    BY <1>1, <1>11 DEF HasRecord, IdsOf
  <2>2. \A i \in Live(db) : to \notin NamesAt(db, i) /\ DOMAIN db.settings[i] = NamesAt(db, i)
    BY <1>0, <2>1 DEF NamesAt, Plain, Linked
  <2>3. ASSUME NEW i \in Live(db) PROVE from \in NamesAt(db, i) <=> i \in S
    BY <1>0, <1>6 DEF NamesAt, RecInv
  <2>4. ASSUME NEW i \in Live(db) PROVE RenamedAt(db, k, i)
    <3>1. Waits(k, i) <=> i \in S
      BY <1>9 DEF Waits, Live
    <3>2. DOMAIN db.settings[i] \subseteq DOMAIN db.stat
      BY <1>0 DEF Plain, Counted
    <3> QED BY <1>8, <1>9, <2>2, <2>3, <3>1, <3>2 DEF RenamedAt
  <2>5. \A i \in Live(db) : \A e \in DOMAIN db.settings[i] : e \in DOMAIN db.stat
    BY <1>0 DEF Plain, Counted
  <2> QED BY <1>9, <2>1, <2>2, <2>4, <2>5 DEF RenamingOk
<1>12. "update" \notin Erasing
  BY DEF Erasing
<1>13. RowsOk(db, k)
  BY <1>0, <1>9, <1>11, <1>12 DEF RowsOk
<1>14. RowsOk(db', k)
  BY <1>2, <1>13, EnvKeeps
<1> QED BY <1>0, <1>2, <1>7, <1>10, <1>14, BeginMem

LEMMA FieldMem ==
  ASSUME LockInv, MemInv, Careful, NEW p \in Procs, p \in workload.procs, ApplyField(p)
  PROVE  MemInv'
<1>0. op[p] = Empty /\ UNCHANGED <<db, workload>> /\ RecInv(db)
  BY DEF ApplyField, Idle, Op, MemInv
<1>1. PICK n \in DOMAIN db.rec, new \in [on : BOOLEAN] \cup [lim : workload.limits] :
         LET e == db.rec[n].email
             S == {i \in LinkedInbounds(db, n) : i \in Live(db) /\ e \in DOMAIN db.settings[i]}
         IN  Serve(p, Request("field", {n},
                  [i \in Inbounds |-> IF i \in S THEN Just(e, Over(new, db.settings[i][e]))
                                      ELSE Empty]))
  BY DEF ApplyField
<1> DEFINE e == db.rec[n].email
           S == {i \in LinkedInbounds(db, n) : i \in Live(db) /\ e \in DOMAIN db.settings[i]}
           load == [i \in Inbounds |-> IF i \in S THEN Just(e, Over(new, db.settings[i][e])) ELSE Empty]
<1>2. op' = [op EXCEPT ![p] = Request("field", {n}, load)]
  BY <1>1 DEF Serve
<1>3. \A i \in Inbounds : DOMAIN load[i] \subseteq {e}
  BY DEF Just, Empty
<1> HIDE DEF load, S
<1>4. PICK k : op' = [op EXCEPT ![p] = k] /\ Begun(db, k, "field", {n}, load)
  BY <1>2, RequestBegun
<1>5. k.kind = "field" /\ k.emails = {e} /\ k.load = load /\ From(k) = e /\ e \in Emails
  <2>1. k.kind = "field" /\ k.emails = {e} /\ k.load = load
    BY <1>4 DEF Begun
  <2> QED BY <1>0, <2>1, FromOne DEF RecInv
<1>6. Target(k) = e /\ ~Renames(k) /\ k.kind \notin Erasing
  BY <1>5 DEF Target, Renames, Erasing
<1>7. ReqOk(workload, k)
  BY <1>3, <1>4, <1>5, <1>6 DEF ReqOk, Begun
<1>8. Plain(db') => RowsOk(db', k)
  BY <1>6 DEF RowsOk
<1>9. EnvTo(db, db')
  BY <1>0, SameEnv
<1> QED BY <1>0, <1>4, <1>7, <1>8, <1>9, BeginMem

----------------------------------------------------------------------------
(***************************************************************************)
(* The shares of a request.                                                *)
(***************************************************************************)

\* The same request, further on.
SameReq(o, k) ==
    /\ k.kind = o.kind /\ k.ids = o.ids /\ k.load = o.load /\ k.names = o.names /\ k.emails = o.emails
    /\ k.keep = o.keep /\ k.payload = o.payload

LEMMA SameReqFacts ==
  ASSUME NEW o, NEW k, SameReq(o, k)
  PROVE  /\ From(k) = From(o) /\ Target(k) = Target(o) /\ (Renames(k) <=> Renames(o))
         /\ \A i, r : ShareOk(o, i, r) => ShareOk(k, i, r)
<1>1. From(k) = From(o)
  BY DEF SameReq, From
<1>2. Target(k) = Target(o) /\ (Renames(k) <=> Renames(o))
  BY <1>1 DEF SameReq, Target, Renames
<1>3. ASSUME NEW i, NEW r, ShareOk(o, i, r) PROVE ShareOk(k, i, r)
  BY <1>1, <1>2, <1>3 DEF SameReq, ShareOk
<1> QED BY <1>1, <1>2, <1>3

\* A request whose shares are as they were or have gone on.
LEMMA ReqGoesOn ==
  ASSUME NEW w, NEW o, NEW k, ReqOk(w, o), SameReq(o, k), k.todo \subseteq o.todo,
         \A i \in Inbounds :
           k.run[i] # Empty => k.run[i] = o.run[i] \/ (i \notin k.todo /\ ShareOk(o, i, k.run[i]))
  PROVE  ReqOk(w, k)
<1>1. /\ From(k) = From(o) /\ Target(k) = Target(o) /\ (Renames(k) <=> Renames(o))
      /\ \A i, r : ShareOk(o, i, r) => ShareOk(k, i, r)
  BY SameReqFacts
<1>2. ASSUME NEW i \in Inbounds, k.run[i] # Empty PROVE i \notin k.todo /\ ShareOk(k, i, k.run[i])
  BY <1>1, <1>2 DEF ReqOk
<1>3. /\ k.kind # "ghost" /\ (k.kind \in Erasing => k.kind \in w.kinds) /\ (Renames(k) => "rename" \in w.kinds)
      /\ (k.kind = "detach" => k.keep) /\ \A i \in Inbounds : DOMAIN k.load[i] \subseteq Emails
  BY <1>1 DEF ReqOk, SameReq
<1>4. /\ \A i \in k.todo : DOMAIN k.load[i] # {}
      /\ k.kind \in Updates => From(k) \in k.emails
      /\ k.kind \in Updates =>
           Target(k) \in Emails /\ \A i \in Inbounds : DOMAIN k.load[i] \subseteq {Target(k)}
      /\ k.kind = "update" => {"cred", "lim"} \subseteq DOMAIN k.payload.entry
      /\ Renames(k) => \A i \in k.todo : k.load[i][Target(k)].cred = k.payload.entry.cred
  BY <1>1 DEF ReqOk, SameReq
<1> QED BY <1>2, <1>3, <1>4 DEF ReqOk

ReadTo(d, o, i, k) ==
    /\ SameReq(o, k) /\ k.todo = o.todo \ {i} /\ o.failed \subseteq k.failed
    /\ \A j \in Inbounds \ {i} : k.run[j] = o.run[j]
    /\ Refused(d, o, i) => k.failed = o.failed \cup DOMAIN o.load[i] /\ k.run[i] = o.run[i]
    /\ ~Refused(d, o, i) => k.run[i] = IF NothingToDo(d, o, i) THEN Empty
                                       ELSE [base |-> d.settings[i], ours |-> Ours(d, o, i),
                                             new |-> Changed(d, o, i), drop |-> Dropped(d, o, i)]

LEMMA ReadFacts ==
  ASSUME NEW d, NEW o, ReqShape(o), NEW i \in o.todo
  PROVE  ReadTo(d, o, i, AfterRead(d, o, i))
<1> DEFINE rest == [o EXCEPT !.todo = @ \ {i}]
           r == [base |-> d.settings[i], ours |-> Ours(d, o, i),
                 new |-> Changed(d, o, i), drop |-> Dropped(d, o, i)]
           x == IF NothingToDo(d, o, i) THEN Empty ELSE r
<1>0. i \in Inbounds
  BY DEF ReqShape
<1>1. CASE Refused(d, o, i)
  <2>1. PICK k : k = AfterRead(d, o, i) /\ k = [rest EXCEPT !.failed = @ \cup DOMAIN o.load[i]]
    BY <1>1 DEF AfterRead
  <2>2. SameReq(o, k) /\ k.todo = o.todo \ {i} /\ k.failed = o.failed \cup DOMAIN o.load[i] /\ k.run = o.run
    BY <2>1 DEF ReqShape, SameReq
  <2> QED BY <1>1, <2>1, <2>2 DEF ReadTo
<1>2. CASE ~Refused(d, o, i)
  <2>1. PICK k : /\ k = AfterRead(d, o, i)
                 /\ k = [rest EXCEPT !.failed = @ \cup Missing(d, o, i), !.run[i] = x]
    BY <1>2 DEF AfterRead
  <2> HIDE DEF x
  <2>2. /\ SameReq(o, k) /\ k.todo = o.todo \ {i} /\ k.failed = o.failed \cup Missing(d, o, i)
        /\ k.run = [o.run EXCEPT ![i] = x]
    BY <2>1 DEF ReqShape, SameReq
  <2>3. k.run[i] = x /\ \A j \in Inbounds \ {i} : k.run[j] = o.run[j]
    BY <1>0, <2>2 DEF ReqShape
  <2> QED BY <1>2, <2>1, <2>2, <2>3 DEF ReadTo, x
<1> QED BY <1>1, <1>2

\* What a share has read, when everybody in the settings has a record.
LEMMA ReadShare ==
  ASSUME NEW w, NEW d, NEW o, NEW i \in o.todo, Shape(d), ReqShape(o), ReqOk(w, o), RowsOk(d, o),
         SettingsNamed(d), ~Refused(d, o, i), NEW r,
         r = [base |-> d.settings[i], ours |-> Ours(d, o, i),
              new |-> Changed(d, o, i), drop |-> Dropped(d, o, i)]
  PROVE  ShareOk(o, i, r)
<1> DEFINE base == d.settings[i]
           E == DOMAIN o.load[i]
<1>0. /\ i \in Live(d) /\ i \in Inbounds /\ DOMAIN base \subseteq Emails /\ E \subseteq Emails /\ E # {}
      /\ r.base = base /\ r.ours = Ours(d, o, i) /\ r.new = Changed(d, o, i) /\ r.drop = Dropped(d, o, i)
  BY DEF Refused, ReqShape, SettingsNamed, ReqOk
<1>1. OursTo(d, o, i, r.ours)
  BY <1>0, OursFacts
<1>2. ASSUME ~Renames(o) PROVE \A e \in DOMAIN base : HasRecord(d, e)
  <2>1. Linked(d)
    BY <1>2 DEF RowsOk, Plain, ErasingOk
  <2> SUFFICES ASSUME NEW e \in DOMAIN base PROVE HasRecord(d, e)
    OBVIOUS
  <2>2. e \in NamesAt(d, i)
    BY <1>0, <2>1 DEF Linked
  <2>3. PICK n \in DOMAIN d.rec : d.rec[n].email = e
    BY <2>2 DEF NamesAt
  <2> QED BY <2>3 DEF HasRecord, IdsOf
<1>3. Renames(o) => o.kind \in Updates
  BY DEF Renames, Updates
<1>4. o.kind \in Adds => /\ DOMAIN r.ours = DOMAIN r.base \cup DOMAIN r.new
                         /\ DOMAIN r.new \subseteq Emails /\ Full(r.new)
  <2> SUFFICES ASSUME o.kind \in Adds
               PROVE  /\ DOMAIN r.ours = DOMAIN r.base \cup DOMAIN r.new
                      /\ DOMAIN r.new \subseteq Emails /\ Full(r.new)
    OBVIOUS
  <2>1. o.kind \notin Updates
    BY DEF Adds, Updates
  <2>2. DOMAIN r.ours = DOMAIN base \cup (E \ DOMAIN base)
    BY <1>1, <1>2, <1>3, <2>1 DEF OursTo
  <2>3. r.new = Without(o.load[i], DOMAIN base)
    BY <1>0 DEF Changed, Adds, Deletes
  <2>4. DOMAIN r.new = E \ DOMAIN base /\ \A e \in DOMAIN r.new : r.new[e] = o.load[i][e]
    BY <2>3 DEF Without
  <2>5. Full(o.load[i])
    BY <1>0 DEF ReqShape
  <2> QED BY <1>0, <2>2, <2>4, <2>5 DEF Full
<1>5. o.kind \in Updates => /\ DOMAIN r.new = {Target(o)} /\ Full(r.new)
                            /\ From(o) \in DOMAIN r.base
                            /\ DOMAIN r.ours = {Target(o)} \cup (DOMAIN r.base \ {From(o)})
                            /\ r.new = o.load[i] /\ r.ours[Target(o)] = r.new[Target(o)]
  <2> SUFFICES ASSUME o.kind \in Updates
               PROVE  /\ DOMAIN r.new = {Target(o)} /\ Full(r.new)
                      /\ From(o) \in DOMAIN r.base
                      /\ DOMAIN r.ours = {Target(o)} \cup (DOMAIN r.base \ {From(o)})
                      /\ r.new = o.load[i] /\ r.ours[Target(o)] = r.new[Target(o)]
    OBVIOUS
  <2>0. o.kind \notin Adds \cup Deletes
    BY DEF Adds, Updates, Deletes
  <2>1. r.new = o.load[i]
    BY <1>0, <2>0 DEF Changed
  <2>2. E = {Target(o)}
    BY <1>0 DEF ReqOk
  <2>3. Full(o.load[i])
    BY <1>0 DEF ReqShape
  <2>4. From(o) \in DOMAIN base
    BY DEF Refused
  <2>5. r.ours = Over(o.load[i], Without(base, {From(o)}))
    BY <1>0 DEF Ours, Adds, Updates, Edits
  <2>6. r.ours[Target(o)] = o.load[i][Target(o)]
    BY <2>2, <2>5 DEF Over
  <2>7. DOMAIN r.ours = {Target(o)} \cup (DOMAIN base \ {From(o)})
    BY <1>1, <2>2 DEF OursTo
  <2> QED BY <1>0, <2>1, <2>2, <2>3, <2>4, <2>6, <2>7
<1>6. Renames(o) => r.new[Target(o)].cred = o.payload.entry.cred /\ r.ours[Target(o)] = r.new[Target(o)]
  BY <1>0, <1>3, <1>5 DEF ReqOk
<1>7. r.drop \subseteq E \cap DOMAIN base /\ (o.kind \notin {"delete", "bulkdelete"} => r.drop = {})
  <2>1. r.drop \subseteq E \cap DOMAIN base
    BY <1>0 DEF Dropped
  <2>2. o.kind \notin {"delete", "bulkdelete"} => r.drop = {}
    BY <1>0 DEF Dropped, ReqOk, Deletes
  <2> QED BY <2>1, <2>2
<1>8. o.kind \in Deletes => DOMAIN r.ours = DOMAIN r.base \ DOMAIN r.new /\ r.drop \subseteq DOMAIN r.new
  <2> SUFFICES ASSUME o.kind \in Deletes
               PROVE  DOMAIN r.ours = DOMAIN base \ DOMAIN r.new /\ r.drop \subseteq DOMAIN r.new
    BY <1>0
  <2>1. o.kind \notin Adds \cup Updates \cup Edits
    BY DEF Adds, Updates, Deletes, Edits
  <2>2. DOMAIN r.ours = DOMAIN base \ E
    BY <1>1, <1>2, <1>3, <2>1 DEF OursTo
  <2>3. r.new = Without(o.load[i], Emails \ DOMAIN base)
    BY <1>0, <2>1 DEF Changed
  <2>4. DOMAIN r.new = E \cap DOMAIN base
    BY <1>0, <2>3 DEF Without
  <2> QED BY <1>7, <2>2, <2>4
<1>9. o.kind \notin Adds \cup Updates \cup Deletes =>
        DOMAIN r.ours \subseteq DOMAIN base /\ DOMAIN base \ E \subseteq DOMAIN r.ours
  BY <1>1, <1>2, <1>3 DEF OursTo
<1>11. DOMAIN r.new \subseteq E
  BY <1>0 DEF Changed, Without
<1>10. o.kind \in {"delete", "bulkdelete"} => DOMAIN r.ours \cap E = {}
  BY <1>1 DEF OursTo, Adds, Updates, Edits
<1> QED BY <1>0, <1>4, <1>5, <1>6, <1>7, <1>8, <1>9, <1>10, <1>11 DEF ShareOk

LEMMA SomeShare ==
  ASSUME NEW a, NEW b, NEW c, NEW x
  PROVE  [base |-> a, ours |-> b, new |-> c, drop |-> x] # Empty
<1>1. DOMAIN [base |-> a, ours |-> b, new |-> c, drop |-> x] # {} /\ DOMAIN Empty = {}
  BY DEF Empty
<1> QED BY <1>1

\* A share that reads finds the client it is to delete, and whether another
\* inbound has it.
LEMMA ReadErasing ==
  ASSUME NEW d, NEW o, NEW i \in o.todo, Shape(d), ReqShape(o), o.kind \in Erasing,
         ErasingOk(d, o), o.run[i] = Empty, NEW k, ReadTo(d, o, i, k)
  PROVE  ErasingOk(d, k)
<1>0. /\ k.kind = o.kind /\ k.ids = o.ids /\ k.load = o.load /\ k.names = o.names /\ k.emails = o.emails
      /\ k.todo = o.todo \ {i} /\ o.failed \subseteq k.failed /\ i \in Inbounds
      /\ \A j \in Inbounds \ {i} : k.run[j] = o.run[j]
  BY DEF ReadTo, SameReq, ReqShape
<1>1. o.kind \in {"delete", "bulkdelete"}
  <2>1. Waits(o, i)
    BY DEF Waits
  <2> QED BY <1>0, <2>1 DEF ErasingOk, Erasing
<1>2. Refused(d, o, i) <=> i \notin Live(d)
  BY <1>1 DEF Refused, Adds, Updates
<1>3. ASSUME NEW j \in Live(d), NEW e \in k.emails \cap DOMAIN d.settings[j]
      PROVE  e \in k.failed \/ (e \in DOMAIN k.load[j] /\ Waits(k, j))
  <2>1. e \in o.failed \/ (e \in DOMAIN o.load[j] /\ Waits(o, j))
    BY <1>0 DEF ErasingOk
  <2>2. CASE j # i
    <3>1. Waits(o, j) => Waits(k, j)
      BY <1>0, <2>2 DEF Waits, Live
    <3> QED BY <1>0, <2>1, <3>1
  <2>3. CASE j = i /\ e \in DOMAIN o.load[i]
    <3>1. ~Refused(d, o, i)
      BY <1>2, <2>3
    <3>2. ~NothingToDo(d, o, i)
      BY <1>1, <2>3 DEF NothingToDo, Adds, Updates, Deletes
    <3>3. k.run[i] = [base |-> d.settings[i], ours |-> Ours(d, o, i),
                      new |-> Changed(d, o, i), drop |-> Dropped(d, o, i)]
      BY <3>1, <3>2 DEF ReadTo
    <3>4. k.run[i] # Empty
      BY <3>3, SomeShare
    <3> QED BY <1>0, <2>3, <3>4 DEF Waits
  <2> QED BY <1>0, <2>1, <2>2, <2>3
<1>4. ASSUME NEW j \in Live(d), NEW e \in DOMAIN d.settings[j]
      PROVE  e \in DOMAIN d.stat \/ (k.kind = "bulkdelete" /\ k.run[j] # Empty /\ e \in DOMAIN k.load[j])
  <2>1. j \in Inbounds
    BY DEF Live
  <2>2. e \in DOMAIN d.stat \/ (o.kind = "bulkdelete" /\ o.run[j] # Empty /\ e \in DOMAIN o.load[j])
    BY DEF ErasingOk
  <2> QED BY <1>0, <2>1, <2>2
<1>5. ASSUME NEW j \in Inbounds, k.run[j] # Empty, NEW h \in Live(d) \ {j}
      PROVE  k.run[j].drop \cap DOMAIN d.settings[h] = {}
  <2>1. CASE j # i
    BY <1>0, <1>5, <2>1 DEF ErasingOk
  <2>2. CASE j = i
    <3>1. ~Refused(d, o, i)
      BY <1>5, <2>2 DEF ReadTo
    <3>2. k.run[i] = [base |-> d.settings[i], ours |-> Ours(d, o, i),
                      new |-> Changed(d, o, i), drop |-> Dropped(d, o, i)]
      BY <1>5, <2>2, <3>1 DEF ReadTo
    <3>3. k.run[i].drop = Dropped(d, o, i)
      BY <3>2
    <3>4. \A e \in Dropped(d, o, i) : ~UsedElsewhere(d, e, i)
      BY DEF Dropped
    <3>5. ASSUME NEW e \in DOMAIN d.settings[h] PROVE UsedElsewhere(d, e, i)
      <4>1. e \in NamesAt(d, h)
        BY DEF ErasingOk, Linked
      <4>2. PICK n \in DOMAIN d.rec : d.rec[n].email = e /\ <<n, h>> \in d.link
        BY <4>1 DEF NamesAt
      <4>3. h \in Inbounds \ {i} /\ n \in IdsOf(d, {e})
        BY <2>2, <4>2 DEF Live, IdsOf
      <4> QED BY <4>2, <4>3 DEF UsedElsewhere
    <3> QED BY <2>2, <3>3, <3>4, <3>5
  <2> QED BY <2>1, <2>2
<1>6. k.kind # "orphans" /\ k.ids \subseteq DOMAIN d.rec /\ Linked(d)
      /\ \A n \in k.ids : k.names[n] = d.rec[n].email /\ k.names[n] \in k.emails
  BY <1>0, <1>1 DEF ErasingOk
<1> QED BY <1>3, <1>4, <1>5, <1>6 DEF ErasingOk

\* A share that reads finds the client under its old name.
LEMMA ReadRenaming ==
  ASSUME NEW w, NEW d, NEW o, NEW i \in o.todo, Shape(d), ReqShape(o), ReqOk(w, o), Renames(o),
         RenamingOk(d, o), NEW k, ReadTo(d, o, i, k)
  PROVE  RenamingOk(d, k)
<1>0. /\ SameReq(o, k) /\ k.payload = o.payload /\ k.todo = o.todo \ {i} /\ i \in Inbounds
      /\ \A j \in Inbounds \ {i} : k.run[j] = o.run[j]
  BY DEF ReadTo, SameReq, ReqShape
<1>1. From(k) = From(o) /\ Target(k) = Target(o)
  BY <1>0, SameReqFacts
<1>2. ASSUME i \in Live(d) PROVE k.run[i] # Empty
  <2>1. RenamedAt(d, o, i) /\ Waits(o, i)
    BY <1>2 DEF RenamingOk, Waits
  <2>2. From(o) \in DOMAIN d.settings[i] /\ Target(o) \notin DOMAIN d.settings[i]
    BY <2>1 DEF RenamedAt
  <2>3. o.kind \in Updates /\ o.kind \notin Adds /\ o.kind # "enable" /\ DOMAIN o.load[i] = {Target(o)}
        /\ o.kind \notin Deletes \cup {"adjust"} /\ o.load[i][Target(o)].cred = o.payload.entry.cred
    BY <1>0 DEF Renames, Updates, Adds, Deletes, ReqOk
  <2>4. ~EmailsExist(d, o.load[i])
    BY <2>3 DEF EmailsExist, IdsOf, RenamingOk
  <2>5. ~Refused(d, o, i)
    BY <1>2, <2>2, <2>3, <2>4 DEF Refused
  <2>6. OursTo(d, o, i, Ours(d, o, i))
    BY <1>2, OursFacts
  <2>7. DOMAIN Ours(d, o, i) = {Target(o)} \cup (DOMAIN d.settings[i] \ {From(o)})
    BY <2>3, <2>6 DEF OursTo
  <2>8. Ours(d, o, i) # d.settings[i]
    BY <2>2, <2>7
  <2>9. ~NothingToDo(d, o, i)
    BY <2>3, <2>8 DEF NothingToDo
  <2>10. k.run[i] = [base |-> d.settings[i], ours |-> Ours(d, o, i),
                     new |-> Changed(d, o, i), drop |-> Dropped(d, o, i)]
    BY <2>5, <2>9 DEF ReadTo
  <2> QED BY <2>10, SomeShare
<1>3. ASSUME NEW j \in Live(d) PROVE RenamedAt(d, k, j)
  <2>1. RenamedAt(d, o, j)
    BY DEF RenamingOk
  <2>2. Waits(k, j) <=> Waits(o, j)
    BY <1>0, <1>2 DEF Waits, Live
  <2> QED BY <1>1, <2>1, <2>2 DEF RenamedAt
<1> QED BY <1>0, <1>1, <1>3 DEF RenamingOk

LEMMA ReadMem ==
  ASSUME LockInv, MemInv, Careful, NEW p \in Procs, p \in workload.procs, NEW i \in Inbounds, ApplyRead(p, i)
  PROVE  MemInv'
<1>0. /\ op[p] # Empty /\ i \in op[p].todo /\ Unlocked(i) /\ UNCHANGED <<db, workload>>
      /\ op' = [op EXCEPT ![p] = AfterRead(db, op[p], i)]
  BY DEF ApplyRead
<1>1. PICK o : o = op[p]
  OBVIOUS
<1>2. /\ Shape(db) /\ ReqShape(o) /\ o.run[i] = Empty /\ RecInv(db) /\ SettingsNamed(db)
      /\ ReqOk(workload, o) /\ RowsOk(db, o)
  BY <1>0, <1>1 DEF LockInv, Serves, Unlocked, MemInv
<1>3. PICK k : k = AfterRead(db, o, i) /\ ReadTo(db, o, i, k)
  BY <1>0, <1>1, <1>2, ReadFacts
<1>4. SameReq(o, k) /\ k.todo \subseteq o.todo
  BY <1>3 DEF ReadTo
<1>5. ASSUME NEW j \in Inbounds, k.run[j] # Empty
      PROVE  k.run[j] = o.run[j] \/ (j \notin k.todo /\ ShareOk(o, j, k.run[j]))
  <2>1. CASE j # i \/ Refused(db, o, i)
    BY <1>3, <1>2, <1>5, <2>1 DEF ReadTo
  <2>2. CASE j = i /\ ~Refused(db, o, i)
    <3>1. k.run[i] = [base |-> db.settings[i], ours |-> Ours(db, o, i),
                      new |-> Changed(db, o, i), drop |-> Dropped(db, o, i)]
      BY <1>3, <1>5, <2>2 DEF ReadTo
    <3>2. ShareOk(o, i, k.run[i])
      BY <1>0, <1>1, <1>2, <2>2, <3>1, ReadShare
    <3> QED BY <1>3, <2>2, <3>2 DEF ReadTo
  <2> QED BY <2>1, <2>2
<1>6. ReqOk(workload, k)
  BY <1>2, <1>4, <1>5, ReqGoesOn
<1>7. RowsOk(db, k)
  <2>1. (Renames(k) <=> Renames(o)) /\ k.kind = o.kind
    BY <1>4, SameReqFacts DEF SameReq
  <2>2. k.kind \in Erasing => ErasingOk(db, k)
    BY <1>0, <1>1, <1>2, <1>3, <2>1, ReadErasing DEF RowsOk
  <2>3. Renames(k) => RenamingOk(db, k)
    BY <1>0, <1>1, <1>2, <1>3, <2>1, ReadRenaming DEF RowsOk
  <2> QED BY <1>2, <2>1, <2>2, <2>3 DEF RowsOk
<1>8. Serves(db, k)
  BY <1>0, <1>1, <1>3, ReadServes DEF LockInv
<1>9. k # Empty
  <2>1. "kind" \in DOMAIN k /\ DOMAIN Empty = {}
    BY <1>8 DEF Serves, ReqShape, Empty
  <2> QED BY <2>1
<1> QED BY <1>0, <1>1, <1>2, <1>3, <1>6, <1>7, <1>9, OneMem

LEMMA RequestSome ==
  ASSUME NEW k, ReqShape(k)
  PROVE  k # Empty
<1>1. "kind" \in DOMAIN k /\ DOMAIN Empty = {}
  BY DEF ReqShape, Empty
<1> QED BY <1>1

\* The request after a step of the share of i.
ShareTo(o, i, k) ==
    /\ ReqShape(k) /\ SameReq(o, k) /\ k.todo = o.todo /\ o.failed \subseteq k.failed
    /\ \A j \in Inbounds \ {i} : k.run[j] = o.run[j]

\* A purge of traffic rows takes none of a client that another inbound has.
LEMMA PurgeMem ==
  ASSUME LockInv, MemInv, Careful, NEW p \in Procs, p \in workload.procs, NEW i \in Inbounds, BulkPurge(p, i)
  PROVE  MemInv'
<1>1. PICK o : o = op[p]
  OBVIOUS
<1>2. PICK r : r = o.run[i]
  OBVIOUS
<1>3. /\ o # Empty /\ o.kind = "bulkdelete" /\ r # Empty /\ workload' = workload
  BY <1>1, <1>2 DEF BulkPurge
<1>4. /\ Shape(db) /\ ReqShape(o) /\ RecInv(db) /\ SettingsNamed(db) /\ Fields \subseteq DOMAIN db
      /\ ReqOk(workload, o) /\ RowsOk(db, o) /\ Holds(db, o, i, r)
  BY <1>1, <1>2, <1>3 DEF LockInv, Serves, MemInv, Shape
<1>5. o.kind \in Erasing /\ ~Renames(o) /\ o.kind \notin Adds \cup Updates \cup Deletes
  BY <1>3 DEF Erasing, Renames, Adds, Updates, Deletes
<1>6. "fail" \notin workload.kinds
  BY <1>3, <1>4, <1>5, DrasticAlone
<1>7. PICK k : k = [o EXCEPT !.run[i].drop = {}] /\ op' = [op EXCEPT ![p] = k] /\ db' = DelStats(db, r.drop)
  BY <1>1, <1>2, <1>6 DEF BulkPurge
<1>8. ShareTo(o, i, k) /\ k.failed = o.failed /\ k.run[i] = [r EXCEPT !.drop = {}]
  <2>1. /\ SameReq(o, k) /\ k.todo = o.todo /\ k.failed = o.failed /\ DOMAIN k = DOMAIN o /\ k.field = o.field
        /\ k.run = [o.run EXCEPT ![i].drop = {}]
    BY <1>4, <1>7 DEF ReqShape, SameReq
  <2>2. /\ DOMAIN k.run = Inbounds /\ k.run[i] = [r EXCEPT !.drop = {}]
        /\ \A j \in Inbounds \ {i} : k.run[j] = o.run[j]
    BY <1>2, <1>4, <2>1 DEF ReqShape
  <2>3. ReqShape(k)
    BY <1>4, <2>1, <2>2 DEF ReqShape, SameReq
  <2> QED BY <2>1, <2>2, <2>3 DEF ShareTo
<1>9. PICK s : /\ s = k.run[i] /\ s.base = r.base /\ s.ours = r.ours /\ s.new = r.new /\ s.drop = {}
               /\ DOMAIN s = DOMAIN r
  BY <1>4, <1>8 DEF Holds
<1>10. s # Empty
  <2>1. "base" \in DOMAIN s /\ DOMAIN Empty = {}
    BY <1>4, <1>9 DEF Holds, Empty
  <2> QED BY <2>1
<1>11. i \notin o.todo /\ ShareOk(o, i, r)
  BY <1>2, <1>3, <1>4 DEF ReqOk
<1>12. ShareOk(o, i, s)
  BY <1>5, <1>9, <1>11 DEF ShareOk
<1>13. ReqOk(workload, k)
  <2>1. \A j \in Inbounds :
          k.run[j] # Empty => k.run[j] = o.run[j] \/ (j \notin k.todo /\ ShareOk(o, j, k.run[j]))
    BY <1>8, <1>9, <1>11, <1>12 DEF ShareTo
  <2> QED BY <1>4, <1>8, <2>1, ReqGoesOn DEF ShareTo
<1>14. DelTo(db, r.drop, db') /\ SameSettings(db, db')
  BY <1>4, <1>7, StatRows, StatSettings
<1>15. /\ RecInv(db') /\ (\A j : NamesAt(db', j) = NamesAt(db, j)) /\ db'.settings = db.settings
       /\ Live(db') = Live(db) /\ db'.rec = db.rec /\ DOMAIN db'.stat = DOMAIN db.stat \ r.drop
  BY <1>4, <1>14, SameRowsFacts DEF DelTo, SameSettings, Live, SameRows
<1>16. ErasingOk(db, o)
  BY <1>4, <1>5 DEF RowsOk
<1>17. ErasingOk(db', k)
  <2>0. /\ k.kind = o.kind /\ k.ids = o.ids /\ k.load = o.load /\ k.names = o.names /\ k.emails = o.emails
        /\ k.todo = o.todo /\ k.failed = o.failed /\ \A j \in Inbounds \ {i} : k.run[j] = o.run[j]
    BY <1>8 DEF ShareTo, SameReq
  <2>1. /\ Linked(db') /\ k.ids \subseteq DOMAIN db'.rec
        /\ \A n \in k.ids : k.names[n] = db'.rec[n].email /\ k.names[n] \in k.emails
    BY <1>15, <1>16, <2>0 DEF ErasingOk, Linked
  <2>2. \A j \in Live(db') : Waits(o, j) => Waits(k, j)
    BY <1>9, <1>10, <2>0 DEF Waits, Live
  <2>3. \A j \in Live(db') : \A e \in k.emails \cap DOMAIN db'.settings[j] :
          e \in k.failed \/ (e \in DOMAIN k.load[j] /\ Waits(k, j))
    BY <1>15, <1>16, <2>0, <2>2 DEF ErasingOk
  <2>4. ASSUME NEW j \in Live(db'), NEW e \in DOMAIN db'.settings[j]
        PROVE  e \in DOMAIN db'.stat \/ (k.kind = "bulkdelete" /\ k.run[j] # Empty /\ e \in DOMAIN k.load[j])
    <3>1. j \in Inbounds
      BY DEF Live
    <3>2. e \in DOMAIN db.stat \/ (o.kind = "bulkdelete" /\ o.run[j] # Empty /\ e \in DOMAIN o.load[j])
      BY <1>15, <1>16 DEF ErasingOk
    <3>3. CASE e \in r.drop
      <4>1. j = i
        BY <1>2, <1>3, <1>15, <1>16, <3>1, <3>3 DEF ErasingOk
      <4>2. e \in DOMAIN k.load[j]
        BY <1>11, <2>0, <3>3, <4>1 DEF ShareOk
      <4> QED BY <1>3, <1>9, <1>10, <2>0, <4>1, <4>2
    <3>4. CASE e \notin r.drop
      BY <1>9, <1>10, <1>15, <2>0, <3>1, <3>2, <3>4
    <3> QED BY <3>3, <3>4
  <2>5. ASSUME NEW j \in Inbounds, k.run[j] # Empty, NEW h \in Live(db') \ {j}
        PROVE  k.run[j].drop \cap DOMAIN db'.settings[h] = {}
    BY <1>9, <1>15, <1>16, <2>0, <2>5 DEF ErasingOk
  <2> QED BY <1>3, <2>0, <2>1, <2>3, <2>4, <2>5 DEF ErasingOk
<1>18. RowsOk(db', k)
  <2>1. k.kind = o.kind /\ ~Renames(k)
    BY <1>5, <1>8, SameReqFacts DEF ShareTo, SameReq
  <2> QED BY <1>5, <1>17, <2>1 DEF RowsOk
<1>19. SettingsNamed(db')
  BY <1>4, <1>15 DEF SettingsNamed
<1>20. k # Empty
  BY <1>8, RequestSome DEF ShareTo
<1> QED BY <1>3, <1>7, <1>13, <1>15, <1>18, <1>19, <1>20, OneMem

\* The request after the share of i has ended.
EndsWith(o, i, F, k) ==
    \/ k = [o EXCEPT !.run[i] = Empty] /\ F = {}
    \/ k = [o EXCEPT !.run[i] = Empty, !.failed = @ \cup F]

LEMMA ShareEnds ==
  ASSUME NEW o, ReqShape(o), NEW i \in Inbounds, NEW F, NEW k, EndsWith(o, i, F, k)
  PROVE  ShareTo(o, i, k) /\ k.run[i] = Empty /\ k.failed = o.failed \cup F
<1>1. /\ SameReq(o, k) /\ k.todo = o.todo /\ k.field = o.field /\ k.failed = o.failed \cup F
      /\ DOMAIN k = DOMAIN o /\ k.run = [o.run EXCEPT ![i] = Empty]
  <2>1. CASE k = [o EXCEPT !.run[i] = Empty] /\ F = {}
    BY <2>1 DEF ReqShape, SameReq
  <2>2. CASE k = [o EXCEPT !.run[i] = Empty, !.failed = @ \cup F]
    BY <2>2 DEF ReqShape, SameReq
  <2> QED BY <2>1, <2>2 DEF EndsWith
<1>2. DOMAIN k.run = Inbounds /\ k.run[i] = Empty /\ \A j \in Inbounds \ {i} : k.run[j] = o.run[j]
  BY <1>1 DEF ReqShape
<1>3. ReqShape(k)
  BY <1>1, <1>2 DEF ReqShape, SameReq
<1> QED BY <1>1, <1>2, <1>3 DEF ShareTo

LEMMA EndedReqOk ==
  ASSUME NEW w, NEW o, NEW i \in Inbounds, NEW k, ReqOk(w, o), ShareTo(o, i, k), k.run[i] = Empty
  PROVE  ReqOk(w, k)
<1>1. \A j \in Inbounds : k.run[j] # Empty => k.run[j] = o.run[j]
  BY DEF ShareTo
<1> QED BY <1>1, ReqGoesOn DEF ShareTo

LEMMA FailMem ==
  ASSUME LockInv, MemInv, Careful, NEW p \in Procs, p \in workload.procs, NEW i \in Inbounds, ApplyFails(p, i)
  PROVE  MemInv'
<1>1. PICK o : o = op[p]
  OBVIOUS
<1>3. /\ o # Empty /\ o.run[i] # Empty /\ UNCHANGED <<db, workload>>
      /\ "fail" \in workload.kinds \/ i \notin Live(db)
      /\ op' = [op EXCEPT ![p].run[i] = Empty, ![p].failed = @ \cup FailedBy(o, i)]
  BY <1>1 DEF ApplyFails
<1>4. /\ Shape(db) /\ ReqShape(o) /\ RecInv(db) /\ SettingsNamed(db) /\ DOMAIN op = Procs
      /\ ReqOk(workload, o) /\ RowsOk(db, o)
  BY <1>1, <1>3 DEF LockInv, Serves, MemInv
<1>5. (~Renames(o) /\ o.kind # "bulkdelete") \/ i \notin Live(db)
  BY <1>3, <1>4, DrasticAlone DEF Erasing
<1>6. PICK k : k = [o EXCEPT !.run[i] = Empty, !.failed = @ \cup FailedBy(o, i)] /\ op' = [op EXCEPT ![p] = k]
  BY <1>1, <1>3, <1>4
<1>7. ShareTo(o, i, k) /\ k.run[i] = Empty /\ k.failed = o.failed \cup FailedBy(o, i)
  <2>1. PICK F : F = FailedBy(o, i)
    OBVIOUS
  <2>2. EndsWith(o, i, F, k)
    BY <1>6, <2>1 DEF EndsWith
  <2> QED BY <1>4, <2>1, <2>2, ShareEnds
<1>8. ReqOk(workload, k)
  BY <1>4, <1>7, EndedReqOk
<1>9. /\ k.kind = o.kind /\ k.ids = o.ids /\ k.load = o.load /\ k.names = o.names /\ k.emails = o.emails
      /\ k.todo = o.todo /\ (\A j \in Inbounds \ {i} : k.run[j] = o.run[j]) /\ (Renames(k) <=> Renames(o))
  BY <1>7, SameReqFacts DEF ShareTo, SameReq
<1>10. ASSUME ErasingOk(db, o), o.kind \in Erasing PROVE ErasingOk(db, k)
  <2>1. o.kind # "orphans" /\ o.kind # "enable"
    BY <1>3, <1>10 DEF ErasingOk, Waits, Erasing
  <2>2. ASSUME NEW j \in Live(db), NEW e \in k.emails \cap DOMAIN db.settings[j]
        PROVE  e \in k.failed \/ (e \in DOMAIN k.load[j] /\ Waits(k, j))
    <3>1. e \in o.failed \/ (e \in DOMAIN o.load[j] /\ Waits(o, j))
      BY <1>9, <1>10 DEF ErasingOk
    <3>2. CASE j = i
      BY <1>7, <1>9, <2>1, <3>1, <3>2 DEF FailedBy
    <3>3. CASE j # i
      <4>1. Waits(o, j) => Waits(k, j)
        BY <1>9, <3>3 DEF Waits, Live
      <4> QED BY <1>7, <1>9, <3>1, <4>1
    <3> QED BY <3>2, <3>3
  <2>3. ASSUME NEW j \in Live(db), NEW e \in DOMAIN db.settings[j]
        PROVE  e \in DOMAIN db.stat \/ (k.kind = "bulkdelete" /\ k.run[j] # Empty /\ e \in DOMAIN k.load[j])
    <3>1. e \in DOMAIN db.stat \/ (o.kind = "bulkdelete" /\ o.run[j] # Empty /\ e \in DOMAIN o.load[j])
      BY <1>10 DEF ErasingOk
    <3>2. CASE j = i
      BY <1>5, <3>1, <3>2
    <3>3. CASE j # i
      BY <1>9, <3>1, <3>3 DEF Live
    <3> QED BY <3>2, <3>3
  <2>4. ASSUME NEW j \in Inbounds, k.run[j] # Empty, NEW h \in Live(db) \ {j}
        PROVE  k.run[j].drop \cap DOMAIN db.settings[h] = {}
    BY <1>7, <1>9, <1>10, <2>4 DEF ErasingOk
  <2>5. /\ Linked(db) /\ k.ids \subseteq DOMAIN db.rec
        /\ \A n \in k.ids : k.names[n] = db.rec[n].email /\ k.names[n] \in k.emails
    BY <1>9, <1>10 DEF ErasingOk
  <2> QED BY <1>9, <2>1, <2>2, <2>3, <2>4, <2>5 DEF ErasingOk
<1>13. ASSUME RenamingOk(db, o), Renames(o) PROVE RenamingOk(db, k)
  <2>1. From(k) = From(o) /\ Target(k) = Target(o) /\ k.payload = o.payload
    BY <1>7, SameReqFacts DEF ShareTo, SameReq
  <2>2. ASSUME NEW j \in Live(db) PROVE RenamedAt(db, k, j)
    <3>1. j \in Inbounds \ {i}
      BY <1>5, <1>13 DEF Live
    <3>2. Waits(k, j) <=> Waits(o, j)
      BY <1>9, <3>1 DEF Waits
    <3>3. RenamedAt(db, o, j)
      BY <1>13 DEF RenamingOk
    <3> QED BY <2>1, <3>2, <3>3 DEF RenamedAt
  <2> QED BY <1>13, <2>1, <2>2 DEF RenamingOk
<1>11. RowsOk(db, k)
  BY <1>4, <1>9, <1>10, <1>13 DEF RowsOk
<1>12. k # Empty
  BY <1>7, RequestSome DEF ShareTo
<1> QED BY <1>3, <1>4, <1>6, <1>8, <1>11, <1>12, OneMem

----------------------------------------------------------------------------
(***************************************************************************)
(* The commit of a share: rows, records and links.                         *)
(***************************************************************************)

CommitRows(d, o, i, m) ==
    LET r == o.run[i]
    IN  /\ RecInv(m) /\ KeepsNames(d, m) /\ \A j \in Inbounds \ {i} : NamesAt(m, j) = NamesAt(d, j)
        /\ o.kind \in Adds => /\ NamesAt(m, i) = NamesAt(d, i) \cup DOMAIN r.new
                              /\ DOMAIN m.stat = DOMAIN d.stat \cup DOMAIN r.new
        /\ o.kind \in Updates => /\ NamesAt(m, i) = NamesAt(d, i) \cup DOMAIN r.new
                                 /\ DOMAIN m.stat = DOMAIN d.stat
        /\ o.kind \in Deletes => /\ NamesAt(m, i) = NamesAt(d, i) \ DOMAIN r.new
                                 /\ DOMAIN m.stat = DOMAIN d.stat \ r.drop
        /\ o.kind \notin Adds \cup Updates \cup Deletes =>
             NamesAt(m, i) = DOMAIN r.ours /\ DOMAIN m.stat = DOMAIN d.stat

\* Only settings differ.
LEMMA WrittenRows ==
  ASSUME NEW d, Fields \subseteq DOMAIN d, NEW i, NEW s, NEW w,
         w = [d EXCEPT !.settings[i] = s]
  PROVE  SameRows(d, w) /\ w.stat = d.stat
  BY DEF SameRows, Fields

\* The list a share writes.
LEMMA WrittenList ==
  ASSUME NEW d, Shape(d), NEW o, NEW i \in Live(d), NEW r, Holds(d, o, i, r), NEW s,
         s = Rebase(r.base, r.ours, d.settings[i])
  PROVE  DOMAIN s = DOMAIN r.ours /\ Full(s)
<1>1. MergedTo(r, d.settings[i], s)
  BY RebaseFacts DEF Holds, Shape
<1> QED BY <1>1 DEF MergedTo

LEMMA CommitNames ==
  ASSUME NEW v, NEW d, NEW o, NEW i \in Inbounds, Shape(d), Serves(d, o), RecInv(d), ReqOk(v, o),
         o.run[i] # Empty, i \in Live(d), ~Renames(o)
  PROVE  CommitRows(d, o, i, Committed(d, o, i))
<1> DEFINE r == o.run[i]
           to == CHOOSE e \in DOMAIN r.new : TRUE
           s == Rebase(r.base, r.ours, d.settings[i])
           w == [d EXCEPT !.settings[i] = s]
           m == Committed(d, o, i)
<1>0. Fields \subseteq DOMAIN d /\ Holds(d, o, i, r) /\ ShareOk(o, i, r)
  BY DEF Shape, Serves, ReqOk
<1>1. m = CASE o.kind \in Adds -> ApplyDelta(AddStats(w, r.new), i, r.new, {})
            [] o.kind \in Updates ->
                 ApplyDelta(RenameRecord(RenameStat(w, i, From(o), to, r.new[to]), From(o), to),
                            i, r.new, {From(o)} \ {to})
            [] o.kind \in Deletes -> ApplyDelta(DelStats(w, r.drop), i, Empty, DOMAIN r.new)
            [] OTHER -> SyncInbound(w, i, s)
  BY DEF Committed
<1>2. SameRows(d, w) /\ w.stat = d.stat
  BY <1>0, WrittenRows
<1>3. DOMAIN s = DOMAIN r.ours /\ Full(s)
  BY <1>0, WrittenList
<1>4. PICK no : no = FALSE
  OBVIOUS
<1>5. PICK yes : yes = TRUE
  OBVIOUS
<1> HIDE DEF w, s, m, r
<1>6. ASSUME NEW a, SameRows(w, a)
      PROVE  /\ Fields \subseteq DOMAIN a /\ RecInv(a) /\ KeepsNames(d, a)
             /\ \A j : NamesAt(a, j) = NamesAt(d, j)
  <2>1. SameRows(d, a)
    BY <1>2, <1>6 DEF SameRows
  <2> QED BY <2>1, SameRowsFacts DEF SameRows
<1>7. ASSUME NEW a, SameRows(w, a), NEW entries, NEW detach, NEW prune \in BOOLEAN,
             SyncTo(a, i, entries, detach, prune, m)
      PROVE  /\ RecInv(m) /\ KeepsNames(d, m) /\ \A j \in Inbounds \ {i} : NamesAt(m, j) = NamesAt(d, j)
             /\ NamesAt(m, i) = IF prune THEN DOMAIN entries ELSE (NamesAt(d, i) \ detach) \cup DOMAIN entries
             /\ m.stat = a.stat
  <2>1. /\ RecInv(m) /\ KeepsNames(a, m) /\ m.stat = a.stat
        /\ \A j \in Inbounds \ {i} : NamesAt(m, j) = NamesAt(a, j)
        /\ NamesAt(m, i) = IF prune THEN DOMAIN entries ELSE (NamesAt(a, i) \ detach) \cup DOMAIN entries
    BY <1>7 DEF SyncTo
  <2>2. KeepsNames(d, a) /\ \A j : NamesAt(a, j) = NamesAt(d, j)
    BY <1>6, <1>7
  <2>3. KeepsNames(d, m)
    BY <2>1, <2>2 DEF KeepsNames
  <2> QED BY <2>1, <2>2, <2>3
<1>8. CASE o.kind \in Adds
  <2>1. PICK a : a = AddStats(w, r.new) /\ AddTo(w, DOMAIN r.new, a)
    BY <1>2, StatRows DEF SameRows
  <2>2. m = SyncClients(a, i, r.new, {}, no)
    BY <1>1, <1>4, <1>8, <2>1 DEF ApplyDelta, Adds, Updates, Deletes
  <2>3. SameRows(w, a) /\ DOMAIN a.stat = DOMAIN d.stat \cup DOMAIN r.new
    BY <1>2, <2>1 DEF AddTo
  <2>4. SyncTo(a, i, r.new, {}, no, m)
    BY <1>0, <1>4, <1>6, <1>8, <2>2, <2>3, SyncFacts DEF ShareOk
  <2>5. /\ RecInv(m) /\ KeepsNames(d, m) /\ \A j \in Inbounds \ {i} : NamesAt(m, j) = NamesAt(d, j)
        /\ NamesAt(m, i) = NamesAt(d, i) \cup DOMAIN r.new /\ m.stat = a.stat
    <3>1. /\ RecInv(m) /\ KeepsNames(d, m) /\ m.stat = a.stat
          /\ \A j \in Inbounds \ {i} : NamesAt(m, j) = NamesAt(d, j)
      BY <1>4, <1>7, <2>3, <2>4
    <3>2. NamesAt(m, i) = (NamesAt(d, i) \ {}) \cup DOMAIN r.new
      BY <1>4, <1>7, <2>3, <2>4
    <3> QED BY <3>1, <3>2
  <2> QED BY <1>8, <2>3, <2>5 DEF CommitRows, Adds, Updates, Deletes, m, r
<1>9. CASE o.kind \in Updates
  <2>1. Target(o) = From(o) /\ DOMAIN r.new = {From(o)} /\ Target(o) \in Emails /\ Full(r.new)
    BY <1>0, <1>9 DEF ShareOk, Renames, Target, ReqOk, r
  <2>2. to = From(o)
    BY <2>1
  <2>3. PICK e : e = From(o)
    OBVIOUS
  <2>4. PICK a : a = RenameStat(w, i, e, e, r.new[e]) /\ RenameTo(w, e, e, a)
    BY <1>2, RenameRows DEF SameRows
  <2>5. RenameRecord(a, e, e) = a
    BY DEF RenameRecord
  <2>6. m = SyncClients(a, i, r.new, {}, no)
    <3>1. m = ApplyDelta(RenameRecord(RenameStat(w, i, e, e, r.new[e]), e, e), i, r.new, {e} \ {e})
      BY <1>1, <1>9, <2>2, <2>3 DEF Adds, Updates, Deletes
    <3>2. {e} \ {e} = {}
      OBVIOUS
    <3> QED BY <1>4, <2>4, <2>5, <3>1, <3>2 DEF ApplyDelta
  <2>7. SameRows(w, a) /\ DOMAIN a.stat = DOMAIN d.stat
    BY <1>2, <2>4 DEF RenameTo
  <2>8. SyncTo(a, i, r.new, {}, no, m)
    BY <1>4, <1>6, <2>1, <2>6, <2>7, SyncFacts
  <2>9. /\ RecInv(m) /\ KeepsNames(d, m) /\ \A j \in Inbounds \ {i} : NamesAt(m, j) = NamesAt(d, j)
        /\ NamesAt(m, i) = NamesAt(d, i) \cup DOMAIN r.new /\ m.stat = a.stat
    <3>1. /\ RecInv(m) /\ KeepsNames(d, m) /\ m.stat = a.stat
          /\ \A j \in Inbounds \ {i} : NamesAt(m, j) = NamesAt(d, j)
      BY <1>4, <1>7, <2>7, <2>8
    <3>2. NamesAt(m, i) = (NamesAt(d, i) \ {}) \cup DOMAIN r.new
      BY <1>4, <1>7, <2>7, <2>8
    <3> QED BY <3>1, <3>2
  <2> QED BY <1>9, <2>7, <2>9 DEF CommitRows, Adds, Updates, Deletes, m, r
<1>10. CASE o.kind \in Deletes
  <2>1. PICK a : a = DelStats(w, r.drop) /\ DelTo(w, r.drop, a)
    BY <1>2, StatRows DEF SameRows
  <2>2. m = SyncClients(a, i, Empty, DOMAIN r.new, no)
    BY <1>1, <1>4, <1>10, <2>1 DEF ApplyDelta, Adds, Updates, Deletes
  <2>3. SameRows(w, a) /\ DOMAIN a.stat = DOMAIN d.stat \ r.drop
    BY <1>2, <2>1 DEF DelTo
  <2>4. DOMAIN Empty = {} /\ Full(Empty)
    BY EmptyFull DEF Empty
  <2>5. SyncTo(a, i, Empty, DOMAIN r.new, no, m)
    BY <1>4, <1>6, <2>2, <2>3, <2>4, SyncFacts
  <2>6. /\ RecInv(m) /\ KeepsNames(d, m) /\ \A j \in Inbounds \ {i} : NamesAt(m, j) = NamesAt(d, j)
        /\ NamesAt(m, i) = NamesAt(d, i) \ DOMAIN r.new /\ m.stat = a.stat
    <3>1. /\ RecInv(m) /\ KeepsNames(d, m) /\ m.stat = a.stat
          /\ \A j \in Inbounds \ {i} : NamesAt(m, j) = NamesAt(d, j)
      BY <1>4, <1>7, <2>3, <2>4, <2>5
    <3>2. NamesAt(m, i) = (NamesAt(d, i) \ DOMAIN r.new) \cup DOMAIN Empty
      <4>1. no \in BOOLEAN
        BY <1>4
      <4>2. NamesAt(m, i) = IF no THEN DOMAIN Empty ELSE (NamesAt(d, i) \ DOMAIN r.new) \cup DOMAIN Empty
        BY <1>7, <2>3, <2>5, <4>1
      <4> QED BY <1>4, <4>2
    <3> QED BY <3>1, <3>2, <2>4
  <2> QED BY <1>10, <2>3, <2>6 DEF CommitRows, Adds, Updates, Deletes, m, r
<1>11. CASE o.kind \notin Adds \cup Updates \cup Deletes
  <2>1. m = SyncClients(w, i, s, {}, yes)
    BY <1>1, <1>5, <1>11 DEF SyncInbound
  <2>2. SameRows(w, w) /\ DOMAIN s \subseteq Emails
    BY <1>0, <1>2, <1>3, <1>11 DEF SameRows, ShareOk
  <2>3. SyncTo(w, i, s, {}, yes, m)
    BY <1>3, <1>5, <1>6, <2>1, <2>2, SyncFacts
  <2>4. /\ RecInv(m) /\ KeepsNames(d, m) /\ \A j \in Inbounds \ {i} : NamesAt(m, j) = NamesAt(d, j)
        /\ NamesAt(m, i) = DOMAIN s /\ m.stat = w.stat
    BY <1>5, <1>7, <2>2, <2>3
  <2> QED BY <1>2, <1>3, <1>11, <2>4 DEF CommitRows, m, r
<1> QED BY <1>8, <1>9, <1>10, <1>11

\* Everything a commit that renames nobody is known to do.
CommitOf(d, o, i, m) ==
    /\ CommitRows(d, o, i, m) /\ ShareOk(o, i, o.run[i])
    /\ Live(m) \subseteq Live(d) /\ \A j \in Live(m) \ {i} : m.settings[j] = d.settings[j]
    /\ i \in Live(m) => /\ DOMAIN m.settings[i] = DOMAIN o.run[i].ours
                        /\ DOMAIN d.settings[i] = DOMAIN o.run[i].base

LEMMA CommitLinked ==
  ASSUME NEW d, NEW o, NEW i, NEW m, CommitOf(d, o, i, m), ~Renames(o), Linked(d)
  PROVE  Linked(m)
<1> SUFFICES ASSUME NEW j \in Live(m) PROVE DOMAIN m.settings[j] = NamesAt(m, j)
  BY DEF Linked
<1>1. j \in Live(d) /\ j \in Inbounds /\ DOMAIN d.settings[j] = NamesAt(d, j)
  BY DEF CommitOf, Linked, Live
<1>2. CASE j # i
  BY <1>1, <1>2 DEF CommitOf, CommitRows
<1>3. CASE j = i
  <2>1. DOMAIN m.settings[i] = DOMAIN o.run[i].ours /\ NamesAt(d, i) = DOMAIN o.run[i].base
    BY <1>1, <1>3 DEF CommitOf
  <2>2. CASE o.kind \in Adds
    BY <1>3, <2>1, <2>2 DEF CommitOf, CommitRows, ShareOk
  <2>3. CASE o.kind \in Updates
    <3>1. Target(o) = From(o)
      BY <2>3 DEF Renames, Target
    <3>2. NamesAt(m, i) = NamesAt(d, i) \cup DOMAIN o.run[i].new
      BY <2>3 DEF CommitOf, CommitRows
    <3>3. /\ DOMAIN o.run[i].new = {From(o)} /\ From(o) \in DOMAIN o.run[i].base
          /\ DOMAIN o.run[i].ours = {From(o)} \cup (DOMAIN o.run[i].base \ {From(o)})
      BY <2>3, <3>1 DEF CommitOf, ShareOk
    <3> QED BY <1>3, <2>1, <3>2, <3>3
  <2>4. CASE o.kind \in Deletes
    BY <1>3, <2>1, <2>4 DEF CommitOf, CommitRows, ShareOk
  <2>5. CASE o.kind \notin Adds \cup Updates \cup Deletes
    BY <1>3, <2>1, <2>5 DEF CommitOf, CommitRows
  <2> QED BY <2>2, <2>3, <2>4, <2>5
<1> QED BY <1>2, <1>3

LEMMA CommitMild ==
  ASSUME NEW v, NEW d, NEW o, ReqOk(v, o), NEW i, NEW m, CommitOf(d, o, i, m), ~Renames(o),
         o.kind \notin Erasing, Plain(d)
  PROVE  Plain(m)
<1>1. Linked(m)
  BY CommitLinked DEF Plain
<1>2. ASSUME NEW j \in Live(m), NEW e \in DOMAIN m.settings[j] PROVE e \in DOMAIN m.stat
  <2>1. j \in Live(d) /\ DOMAIN d.settings[j] \subseteq DOMAIN d.stat
    BY DEF CommitOf, Plain, Counted
  <2>2. o.kind \in Deletes => o.run[i].drop = {}
    BY DEF CommitOf, ShareOk, Erasing
  <2>3. DOMAIN d.stat \subseteq DOMAIN m.stat
    BY <2>2 DEF CommitOf, CommitRows
  <2>4. CASE j # i
    BY <2>1, <2>3, <2>4 DEF CommitOf
  <2>5. CASE j = i
    <3>1. e \in DOMAIN o.run[i].ours /\ DOMAIN o.run[i].base \subseteq DOMAIN d.stat
      BY <2>1, <2>5 DEF CommitOf
    <3>2. CASE o.kind \in Adds
      BY <2>3, <3>1, <3>2 DEF CommitOf, CommitRows, ShareOk
    <3>3. CASE o.kind \in Updates
      <4>1. Target(o) = From(o)
        BY <3>3 DEF Renames, Target
      <4>2. e \in DOMAIN o.run[i].base
        BY <3>1, <3>3, <4>1 DEF CommitOf, ShareOk
      <4> QED BY <2>3, <3>1, <4>2
    <3>4. CASE o.kind \notin Adds \cup Updates
      BY <2>3, <3>1, <3>4 DEF CommitOf, ShareOk
    <3> QED BY <3>2, <3>3, <3>4
  <2> QED BY <2>4, <2>5
<1> QED BY <1>1, <1>2 DEF Plain, Counted

\* The commit of a delete takes the client from the settings and, unless kept, the
\* traffic row that nobody else has a use for.
LEMMA CommitErasing ==
  ASSUME NEW d, NEW o, o.kind \in Erasing, NEW i \in Inbounds, o.run[i] # Empty, NEW m,
         CommitOf(d, o, i, m), ErasingOk(d, o), NEW k, ShareTo(o, i, k), k.run[i] = Empty
  PROVE  ErasingOk(m, k)
<1>0. /\ k.kind = o.kind /\ k.ids = o.ids /\ k.load = o.load /\ k.names = o.names /\ k.emails = o.emails
      /\ k.todo = o.todo /\ o.failed \subseteq k.failed /\ \A j \in Inbounds \ {i} : k.run[j] = o.run[j]
  BY DEF ShareTo, SameReq
<1>1. o.kind \in {"delete", "bulkdelete"} /\ ~Renames(o)
  BY DEF ErasingOk, Erasing, Waits, Renames
<1>2. Linked(m)
  BY <1>1, CommitLinked DEF ErasingOk
<1>3. /\ k.ids \subseteq DOMAIN m.rec
      /\ \A n \in k.ids : k.names[n] = m.rec[n].email /\ k.names[n] \in k.emails
  BY <1>0 DEF ErasingOk, CommitOf, CommitRows, KeepsNames
<1>4. DOMAIN o.run[i].ours \subseteq DOMAIN o.run[i].base \ DOMAIN o.load[i]
  <2>1. DOMAIN o.run[i].ours \subseteq DOMAIN o.run[i].base
    BY <1>1 DEF CommitOf, ShareOk, Adds, Updates, Deletes
  <2>2. DOMAIN o.run[i].ours \cap DOMAIN o.load[i] = {}
    BY <1>1 DEF CommitOf, ShareOk
  <2> QED BY <2>1, <2>2
<1>5. \A j \in Live(m) : /\ j \in Live(d) /\ j \in Inbounds
                         /\ DOMAIN m.settings[j] \subseteq DOMAIN d.settings[j]
                         /\ j = i => DOMAIN m.settings[j] \cap DOMAIN o.load[i] = {}
  BY <1>4 DEF CommitOf, Live
<1>6. ASSUME NEW j \in Live(m), NEW e \in k.emails \cap DOMAIN m.settings[j]
      PROVE  e \in k.failed \/ (e \in DOMAIN k.load[j] /\ Waits(k, j))
  <2>1. e \in o.failed \/ (e \in DOMAIN o.load[j] /\ Waits(o, j))
    BY <1>0, <1>5 DEF ErasingOk
  <2>2. CASE j # i
    <3>1. Waits(o, j) => Waits(k, j)
      BY <1>0, <1>5, <2>2 DEF Waits
    <3> QED BY <1>0, <2>1, <3>1
  <2>3. CASE j = i
    BY <1>0, <1>5, <2>1, <2>3
  <2> QED BY <2>2, <2>3
<1>7. ASSUME NEW j \in Live(m), NEW e \in DOMAIN m.settings[j]
      PROVE  e \in DOMAIN m.stat \/ (k.kind = "bulkdelete" /\ k.run[j] # Empty /\ e \in DOMAIN k.load[j])
  <2>1. e \in DOMAIN d.stat \/ (o.kind = "bulkdelete" /\ o.run[j] # Empty /\ e \in DOMAIN o.load[j])
    BY <1>5 DEF ErasingOk
  <2>2. CASE o.kind = "bulkdelete"
    <3>1. DOMAIN m.stat = DOMAIN d.stat
      BY <2>2 DEF CommitOf, CommitRows, Adds, Updates, Deletes
    <3> QED BY <1>0, <1>5, <2>1, <3>1
  <2>3. CASE o.kind = "delete"
    <3>1. o.kind \in Deletes
      BY <2>3 DEF Deletes
    <3>2. DOMAIN m.stat = DOMAIN d.stat \ o.run[i].drop
      BY <3>1 DEF CommitOf, CommitRows
    <3>3. e \notin o.run[i].drop
      <4>1. o.run[i].drop \subseteq DOMAIN o.load[i]
        BY DEF CommitOf, ShareOk
      <4>2. j # i => o.run[i].drop \cap DOMAIN d.settings[j] = {}
        BY <1>5 DEF ErasingOk
      <4> QED BY <1>5, <4>1, <4>2
    <3> QED BY <2>1, <2>3, <3>2, <3>3
  <2> QED BY <1>1, <2>2, <2>3
<1>8. ASSUME NEW j \in Inbounds, k.run[j] # Empty, NEW h \in Live(m) \ {j}
      PROVE  k.run[j].drop \cap DOMAIN m.settings[h] = {}
  <2>1. k.run[j] = o.run[j] /\ o.run[j] # Empty
    BY <1>0, <1>8
  <2>2. o.run[j].drop \cap DOMAIN d.settings[h] = {}
    BY <1>5, <2>1 DEF ErasingOk
  <2> QED BY <1>5, <2>1, <2>2
<1> QED BY <1>0, <1>1, <1>2, <1>3, <1>6, <1>7, <1>8 DEF ErasingOk

\* The record of a renamed client, unless the new name is taken.
RecordTo(a, e, f, b) ==
    /\ SameSettings(a, b) /\ b.stat = a.stat /\ RecInv(b)
    /\ \A j : /\ NamesAt(b, j) \ {e, f} = NamesAt(a, j) \ {e, f}
              /\ e \notin NamesAt(a, j) => NamesAt(b, j) = NamesAt(a, j)

LEMMA RecordFacts ==
  ASSUME NEW a, Fields \subseteq DOMAIN a, RecInv(a), NEW e, NEW f \in Emails
  PROVE  RecordTo(a, e, f, RenameRecord(a, e, f))
<1>1. CASE e = f \/ HasRecord(a, f)
  <2>1. RenameRecord(a, e, f) = a
    BY <1>1 DEF RenameRecord
  <2>2. RecordTo(a, e, f, a)
    BY DEF RecordTo, SameSettings
  <2> QED BY <2>1, <2>2
<1>2. CASE ~(e = f \/ HasRecord(a, f))
  <2> DEFINE rec == [n \in DOMAIN a.rec |->
                       IF a.rec[n].email = e THEN [a.rec[n] EXCEPT !.email = f] ELSE a.rec[n]]
  <2>1. PICK b : b = RenameRecord(a, e, f) /\ b = [a EXCEPT !.rec = rec]
    BY <1>2 DEF RenameRecord
  <2>2. DOMAIN rec = DOMAIN a.rec
    OBVIOUS
  <2>3. ASSUME NEW n \in DOMAIN a.rec
        PROVE  /\ DOMAIN rec[n] = DOMAIN a.rec[n]
               /\ rec[n].email = IF a.rec[n].email = e THEN f ELSE a.rec[n].email
    <3>1. "email" \in DOMAIN a.rec[n]
      BY DEF RecInv
    <3>2. rec[n] = IF a.rec[n].email = e THEN [a.rec[n] EXCEPT !.email = f] ELSE a.rec[n]
      OBVIOUS
    <3> HIDE DEF rec
    <3> QED BY <3>1, <3>2
  <2>4. \A n \in DOMAIN a.rec : a.rec[n].email # f
    BY <1>2 DEF HasRecord, IdsOf
  <2> HIDE DEF rec
  <2>5. /\ SameSettings(a, b) /\ b.stat = a.stat /\ b.rec = rec /\ b.link = a.link /\ b.next = a.next
    BY <2>1 DEF Fields, SameSettings
  <2>6. RecInv(b)
    <3>1. \A n \in DOMAIN b.rec : /\ n \in Nat /\ n < b.next /\ b.rec[n].email \in Emails
                                  /\ {"email", "cred", "on", "lim"} \subseteq DOMAIN b.rec[n]
      BY <2>2, <2>3, <2>5 DEF RecInv
    <3>2. \A x, n \in DOMAIN b.rec : b.rec[x].email = b.rec[n].email => x = n
      BY <2>2, <2>3, <2>4, <2>5 DEF RecInv
    <3> QED BY <2>2, <2>5, <3>1, <3>2 DEF RecInv
  <2>7. ASSUME NEW j PROVE /\ NamesAt(b, j) \ {e, f} = NamesAt(a, j) \ {e, f}
                           /\ e \notin NamesAt(a, j) => NamesAt(b, j) = NamesAt(a, j)
    <3> DEFINE at == {x \in DOMAIN a.rec : <<x, j>> \in a.link}
    <3>1. NamesAt(a, j) = {a.rec[n].email : n \in at} /\ NamesAt(b, j) = {rec[n].email : n \in at}
      BY <2>2, <2>5 DEF NamesAt
    <3>2. at \subseteq DOMAIN a.rec
      OBVIOUS
    <3> HIDE DEF at
    <3>3. \A x : x \in NamesAt(a, j) <=> \E n \in at : a.rec[n].email = x
      BY <3>1
    <3>4. \A x : x \in NamesAt(b, j) <=> \E n \in at : rec[n].email = x
      BY <3>1
    <3>5. \A x : x # e /\ x # f => (x \in NamesAt(a, j) <=> x \in NamesAt(b, j))
      BY <2>3, <3>2, <3>3, <3>4
    <3>6. ASSUME e \notin NamesAt(a, j) PROVE NamesAt(b, j) = NamesAt(a, j)
      <4>1. \A n \in at : rec[n].email = a.rec[n].email
        BY <2>3, <3>2, <3>3, <3>6
      <4> QED BY <3>1, <4>1
    <3> QED BY <3>5, <3>6
  <2>8. RecordTo(a, e, f, b)
    BY <2>5, <2>6, <2>7 DEF RecordTo
  <2> QED BY <2>1, <2>8
<1> QED BY <1>1, <1>2

\* The commit of a share of a rename.
MoveRows(d, o, i, m) ==
    LET from == From(o)
        to == Target(o)
    IN  /\ RecInv(m)
        /\ \A j \in Inbounds \ {i} : /\ NamesAt(m, j) \ {from, to} = NamesAt(d, j) \ {from, to}
                                     /\ from \notin NamesAt(d, j) => NamesAt(m, j) = NamesAt(d, j)
        /\ NamesAt(m, i) = (NamesAt(d, i) \ {from, to}) \cup {to}
        /\ \A x \in DOMAIN d.stat : x # from => x \in DOMAIN m.stat
        /\ from \in DOMAIN d.stat \/ to \in DOMAIN d.stat => to \in DOMAIN m.stat
        /\ \A n \in DOMAIN m.rec : m.rec[n].email = to => m.rec[n].cred = o.payload.entry.cred

LEMMA CommitMoves ==
  ASSUME NEW v, NEW d, NEW o, NEW i \in Inbounds, Shape(d), Serves(d, o), RecInv(d), ReqOk(v, o),
         o.run[i] # Empty, Renames(o)
  PROVE  MoveRows(d, o, i, Committed(d, o, i))
<1> DEFINE r == o.run[i]
           c == CHOOSE e \in DOMAIN r.new : TRUE
           s == Rebase(r.base, r.ours, d.settings[i])
           w == [d EXCEPT !.settings[i] = s]
           m == Committed(d, o, i)
<1>0. Fields \subseteq DOMAIN d /\ ShareOk(o, i, r)
  BY DEF Shape, ReqOk
<1>1. PICK from, to : from = From(o) /\ to = Target(o)
  OBVIOUS
<1>2. o.kind \in Updates /\ o.kind \notin Adds /\ from # to
  BY <1>1 DEF Renames, Updates, Adds, Target
<1>3. /\ DOMAIN r.new = {to} /\ Full(r.new) /\ to \in Emails /\ r.new[to].cred = o.payload.entry.cred
  BY <1>0, <1>1, <1>2 DEF ShareOk, ReqOk
<1>4. c = to /\ {from} \ {to} = {from}
  BY <1>2, <1>3
<1>5. SameRows(d, w) /\ w.stat = d.stat
  BY <1>0, WrittenRows
<1>6. PICK no : no = FALSE
  OBVIOUS
<1>7. m = ApplyDelta(RenameRecord(RenameStat(w, i, from, to, r.new[to]), from, to), i, r.new, {from})
  <2>1. m = ApplyDelta(RenameRecord(RenameStat(w, i, From(o), c, r.new[c]), From(o), c),
                       i, r.new, {From(o)} \ {c})
    BY <1>2 DEF Committed, Adds, Updates, Deletes
  <2> QED BY <1>1, <1>4, <2>1
<1> HIDE DEF w, s, m, r
<1>8. PICK a : a = RenameStat(w, i, from, to, r.new[to]) /\ RenameTo(w, from, to, a)
  BY <1>5, RenameRows DEF SameRows
<1>9. SameRows(d, a)
  BY <1>5, <1>8 DEF SameRows, RenameTo
<1>10. RecInv(a) /\ Fields \subseteq DOMAIN a /\ \A j : NamesAt(a, j) = NamesAt(d, j)
  BY <1>9, SameRowsFacts DEF SameRows
<1>11. PICK b : b = RenameRecord(a, from, to) /\ RecordTo(a, from, to, b)
  BY <1>3, <1>10, RecordFacts
<1>12. m = SyncClients(b, i, r.new, {from}, no)
  BY <1>6, <1>7, <1>8, <1>11 DEF ApplyDelta
<1>13. RecInv(b) /\ Fields \subseteq DOMAIN b /\ b.stat = a.stat
  BY <1>11 DEF RecordTo, SameSettings
<1>14. DOMAIN r.new \subseteq Emails
  BY <1>3
<1>15. SyncTo(b, i, r.new, {from}, no, m)
  BY <1>3, <1>6, <1>12, <1>13, <1>14, SyncFacts
<1>16. \A j : /\ NamesAt(b, j) \ {from, to} = NamesAt(d, j) \ {from, to}
              /\ from \notin NamesAt(d, j) => NamesAt(b, j) = NamesAt(d, j)
  BY <1>10, <1>11 DEF RecordTo
<1>17. \A j \in Inbounds \ {i} : NamesAt(m, j) = NamesAt(b, j)
  BY <1>15 DEF SyncTo
<1>18. NamesAt(m, i) = (NamesAt(b, i) \ {from}) \cup {to}
  BY <1>3, <1>6, <1>15 DEF SyncTo
<1>19. NamesAt(m, i) = (NamesAt(d, i) \ {from, to}) \cup {to}
  <2>1. NamesAt(b, i) \ {from, to} = NamesAt(d, i) \ {from, to}
    BY <1>16
  <2>2. NamesAt(m, i) = (NamesAt(b, i) \ {from, to}) \cup {to}
    BY <1>18
  <2> QED BY <2>1, <2>2
<1>20. m.stat = a.stat
  BY <1>13, <1>15 DEF SyncTo
<1>21. /\ \A x \in DOMAIN d.stat : x # from => x \in DOMAIN m.stat
       /\ from \in DOMAIN d.stat \/ to \in DOMAIN d.stat => to \in DOMAIN m.stat
  BY <1>5, <1>8, <1>20 DEF RenameTo
<1>22. ASSUME NEW n \in DOMAIN m.rec, m.rec[n].email = to PROVE m.rec[n].cred = o.payload.entry.cred
  <2>1. CASE n \in DOMAIN b.rec
    <3>1. b.rec[n].email = to
      BY <1>15, <1>22, <2>1 DEF SyncTo, KeepsNames
    <3>2. m.rec[n].cred = r.new[to].cred
      BY <1>3, <1>15, <2>1, <3>1 DEF SyncTo
    <3> QED BY <1>3, <3>2
  <2>2. CASE n \notin DOMAIN b.rec
    BY <1>3, <1>15, <1>22, <2>2 DEF SyncTo
  <2> QED BY <2>1, <2>2
<1>23. RecInv(m)
  BY <1>15 DEF SyncTo
<1> QED BY <1>1, <1>16, <1>17, <1>19, <1>21, <1>22, <1>23 DEF MoveRows, m

LEMMA CommitRenaming ==
  ASSUME NEW v, NEW d, NEW o, NEW i \in Inbounds, Shape(d), Serves(d, o), RecInv(d), ReqOk(v, o),
         o.run[i] # Empty, i \in Live(d), Renames(o), RenamingOk(d, o), NEW m, m = Committed(d, o, i),
         NEW k, ShareTo(o, i, k), k.run[i] = Empty
  PROVE  RenamingOk(m, k)
<1>1. PICK from, to : from = From(o) /\ to = Target(o)
  OBVIOUS
<1>2. /\ From(k) = from /\ Target(k) = to /\ k.payload = o.payload /\ k.todo = o.todo
      /\ \A j \in Inbounds \ {i} : k.run[j] = o.run[j]
  BY <1>1, SameReqFacts DEF ShareTo, SameReq
<1>3. CommitKeeps(d, o, i, m)
  BY CommitShape
<1>4. MoveRows(d, o, i, m)
  BY CommitMoves
<1>5. i \notin o.todo /\ ShareOk(o, i, o.run[i]) /\ Holds(d, o, i, o.run[i])
  BY DEF ReqOk, Serves
<1>6. o.kind \in Updates /\ from # to
  BY <1>1 DEF Renames, Updates, Target
<1>7. PICK r : r = o.run[i]
  OBVIOUS
<1>8. /\ DOMAIN r.ours = {to} \cup (DOMAIN r.base \ {from})
      /\ r.ours[to].cred = o.payload.entry.cred
  BY <1>1, <1>5, <1>6, <1>7 DEF ShareOk
<1>9. ASSUME i \in Live(m)
      PROVE  /\ i \in Live(d) /\ from \in DOMAIN d.settings[i] /\ to \notin DOMAIN d.settings[i]
             /\ DOMAIN d.settings[i] \ {from} = NamesAt(d, i) \ {from, to}
             /\ from \in DOMAIN d.stat \/ to \in DOMAIN d.stat
             /\ DOMAIN m.settings[i] = {to} \cup (DOMAIN d.settings[i] \ {from})
             /\ m.settings[i][to].cred = o.payload.entry.cred
  <2>1. i \in Live(d) /\ MergedTo(r, d.settings[i], m.settings[i]) /\ DOMAIN d.settings[i] = DOMAIN r.base
    BY <1>3, <1>5, <1>7, <1>9 DEF CommitKeeps, Holds
  <2>2. RenamedAt(d, o, i) /\ Waits(o, i)
    BY <2>1 DEF RenamingOk, Waits
  <2>3. /\ from \in DOMAIN d.settings[i] /\ to \notin DOMAIN d.settings[i]
        /\ DOMAIN d.settings[i] \ {from} = NamesAt(d, i) \ {from, to}
        /\ from \in DOMAIN d.stat \/ to \in DOMAIN d.stat
    BY <1>1, <2>2 DEF RenamedAt
  <2>4. DOMAIN m.settings[i] = {to} \cup (DOMAIN d.settings[i] \ {from})
    BY <1>8, <2>1 DEF MergedTo
  <2>5. m.settings[i][to] = r.ours[to]
    BY <2>1, <2>3, <2>4 DEF MergedTo
  <2> QED BY <1>8, <2>1, <2>3, <2>4, <2>5
<1>10. ASSUME NEW j \in Live(m) \ {i}
       PROVE  /\ j \in Live(d) /\ j \in Inbounds \ {i} /\ m.settings[j] = d.settings[j]
              /\ NamesAt(m, j) \ {from, to} = NamesAt(d, j) \ {from, to}
              /\ from \notin NamesAt(d, j) => NamesAt(m, j) = NamesAt(d, j)
  <2>1. j \in Live(d) /\ j \in Inbounds \ {i} /\ m.settings[j] = d.settings[j]
    BY <1>3 DEF CommitKeeps, Live
  <2> QED BY <1>1, <1>4, <2>1 DEF MoveRows
<1>11. /\ RecInv(m) /\ NamesAt(m, i) = (NamesAt(d, i) \ {from, to}) \cup {to}
       /\ \A x \in DOMAIN d.stat : x # from => x \in DOMAIN m.stat
       /\ from \in DOMAIN d.stat \/ to \in DOMAIN d.stat => to \in DOMAIN m.stat
       /\ \A n \in DOMAIN m.rec : m.rec[n].email = to => m.rec[n].cred = o.payload.entry.cred
  BY <1>1, <1>4 DEF MoveRows
<1>12. ASSUME NEW j \in Live(m) PROVE RenamedAt(m, k, j)
  <2>1. CASE j = i
    <3>1. ~Waits(k, i)
      BY <1>2, <1>5 DEF Waits
    <3>2. from \notin DOMAIN m.settings[i] /\ DOMAIN m.settings[i] = NamesAt(m, i)
      BY <1>6, <1>9, <1>11, <2>1
    <3> QED BY <1>2, <2>1, <3>1, <3>2 DEF RenamedAt
  <2>2. CASE j # i
    <3>1. Waits(k, j) <=> Waits(o, j)
      BY <1>2, <1>10, <2>2 DEF Waits
    <3>2. RenamedAt(d, o, j)
      BY <1>10, <2>2 DEF RenamingOk
    <3>3. CASE Waits(o, j)
      <4>1. /\ from \in DOMAIN d.settings[j] /\ to \notin DOMAIN d.settings[j]
            /\ DOMAIN d.settings[j] \ {from} = NamesAt(d, j) \ {from, to}
            /\ from \in DOMAIN d.stat \/ to \in DOMAIN d.stat
        BY <1>1, <3>2, <3>3 DEF RenamedAt
      <4>2. DOMAIN m.settings[j] \ {from} = NamesAt(m, j) \ {from, to} /\ to \in DOMAIN m.stat
        BY <1>10, <1>11, <2>2, <4>1
      <4> QED BY <1>2, <1>10, <2>2, <3>1, <3>3, <4>1, <4>2 DEF RenamedAt
    <3>4. CASE ~Waits(o, j)
      <4>1. from \notin DOMAIN d.settings[j] /\ DOMAIN d.settings[j] = NamesAt(d, j)
        BY <1>1, <3>2, <3>4 DEF RenamedAt
      <4> QED BY <1>2, <1>10, <2>2, <3>1, <3>4, <4>1 DEF RenamedAt
    <3> QED BY <3>3, <3>4
  <2> QED BY <2>1, <2>2
<1>13. ASSUME NEW j \in Live(m), NEW e \in DOMAIN m.settings[j], e # from PROVE e \in DOMAIN m.stat
  <2>1. \A x \in Live(d) : \A y \in DOMAIN d.settings[x] : y \in DOMAIN d.stat \/ y = from
    BY <1>1 DEF RenamingOk
  <2>2. CASE j # i
    BY <1>10, <1>11, <1>13, <2>1, <2>2
  <2>3. CASE j = i
    BY <1>9, <1>11, <1>13, <2>1, <2>3
  <2> QED BY <2>2, <2>3
<1>14. ASSUME NEW j \in Live(m), to \in DOMAIN m.settings[j]
       PROVE  m.settings[j][to].cred = o.payload.entry.cred
  <2>1. CASE j # i
    BY <1>1, <1>10, <1>14, <2>1 DEF RenamingOk
  <2> QED BY <1>9, <2>1
<1> QED BY <1>2, <1>11, <1>12, <1>13, <1>14 DEF RenamingOk

LEMMA CommitMem ==
  ASSUME LockInv, MemInv, Careful, NEW p \in Procs, p \in workload.procs, NEW i \in Inbounds, ApplyCommit(p, i)
  PROVE  MemInv'
<1>1. PICK o : o = op[p]
  OBVIOUS
<1>2. /\ o # Empty /\ o.run[i] # Empty /\ workload' = workload /\ db' = Committed(db, o, i)
      /\ op' = [op EXCEPT ![p].run[i] = Empty] /\ i \in Live(db)
  BY <1>1 DEF ApplyCommit
<1>3. /\ Shape(db) /\ Serves(db, o) /\ ReqShape(o) /\ RecInv(db) /\ SettingsNamed(db) /\ DOMAIN op = Procs
      /\ ReqOk(workload, o) /\ RowsOk(db, o)
  BY <1>1, <1>2 DEF LockInv, Serves, MemInv
<1>4. PICK k : k = [o EXCEPT !.run[i] = Empty] /\ op' = [op EXCEPT ![p] = k]
  BY <1>1, <1>2, <1>3
<1>5. ShareTo(o, i, k) /\ k.run[i] = Empty
  <2>1. EndsWith(o, i, {}, k)
    BY <1>4 DEF EndsWith
  <2> QED BY <1>3, <2>1, ShareEnds
<1>6. ReqOk(workload, k)
  BY <1>3, <1>5, EndedReqOk
<1>7. k.kind = o.kind /\ (Renames(k) <=> Renames(o))
  BY <1>5, SameReqFacts DEF ShareTo, SameReq
<1>8. PICK m : m = db'
  OBVIOUS
<1>9. CommitKeeps(db, o, i, m) /\ Holds(db, o, i, o.run[i]) /\ ShareOk(o, i, o.run[i])
  BY <1>2, <1>3, <1>8, CommitShape DEF Serves, ReqOk
<1>10. ~Renames(o) => CommitOf(db, o, i, m)
  <2>1. ~Renames(o) => CommitRows(db, o, i, m)
    BY <1>2, <1>3, <1>8, CommitNames
  <2>2. i \in Live(m) => /\ DOMAIN m.settings[i] = DOMAIN o.run[i].ours
                         /\ DOMAIN db.settings[i] = DOMAIN o.run[i].base
    BY <1>9 DEF CommitKeeps, MergedTo, Holds
  <2> QED BY <1>9, <2>1, <2>2 DEF CommitOf, CommitKeeps
<1>11. RowsOk(m, k)
  <2>1. CASE Renames(o)
    <3>1. RenamingOk(m, k)
      BY <1>2, <1>3, <1>5, <1>8, <2>1, CommitRenaming DEF RowsOk
    <3>2. o.kind \notin Erasing
      BY <2>1 DEF Renames, Erasing
    <3> QED BY <1>7, <2>1, <3>1, <3>2 DEF RowsOk
  <2>2. CASE o.kind \in Erasing
    <3>1. ~Renames(o)
      BY <2>2 DEF Renames, Erasing
    <3>2. ErasingOk(m, k)
      BY <1>2, <1>3, <1>5, <1>10, <2>2, <3>1, CommitErasing DEF RowsOk
    <3> QED BY <1>7, <2>2, <3>1, <3>2 DEF RowsOk
  <2>3. CASE ~Renames(o) /\ o.kind \notin Erasing
    <3>1. Plain(m)
      BY <1>3, <1>10, <2>3, CommitMild DEF RowsOk
    <3> QED BY <1>7, <2>3, <3>1 DEF RowsOk
  <2> QED BY <2>1, <2>2, <2>3
<1>12. RecInv(m)
  <2>1. CASE Renames(o)
    <3>1. MoveRows(db, o, i, m)
      BY <1>2, <1>3, <1>8, <2>1, CommitMoves
    <3> QED BY <3>1 DEF MoveRows
  <2>2. CASE ~Renames(o)
    BY <1>10, <2>2 DEF CommitOf, CommitRows
  <2> QED BY <2>1, <2>2
<1>13. SettingsNamed(m)
  <2> SUFFICES ASSUME NEW j \in Live(m) PROVE DOMAIN m.settings[j] \subseteq Emails
    BY DEF SettingsNamed
  <2>1. CASE j # i
    BY <1>3, <1>9, <2>1 DEF CommitKeeps, SettingsNamed
  <2>2. CASE j = i
    <3>1. DOMAIN m.settings[i] = DOMAIN o.run[i].ours
      BY <1>9, <2>2 DEF CommitKeeps, MergedTo
    <3>2. DOMAIN o.run[i].ours \subseteq Emails
      BY <1>3, <1>9 DEF ShareOk, ReqOk
    <3> QED BY <2>2, <3>1, <3>2
  <2> QED BY <2>1, <2>2
<1>14. k # Empty
  BY <1>5, RequestSome DEF ShareTo
<1> QED BY <1>2, <1>4, <1>6, <1>8, <1>11, <1>12, <1>13, <1>14, OneMem

----------------------------------------------------------------------------
(***************************************************************************)
(* The end of a request.                                                   *)
(***************************************************************************)

\* Once every share has returned, the settings and the links agree, and whoever a
\* delete has still in the settings it has failed.
LEMMA ReturnedRows ==
  ASSUME NEW d, NEW o, RowsOk(d, o), \A i \in Inbounds : ~Waits(o, i)
  PROVE  /\ Plain(d)
         /\ o.kind \in Erasing => \A i \in Live(d) : o.emails \cap DOMAIN d.settings[i] \subseteq o.failed
         /\ Renames(o) => \A i \in Live(d) : From(o) \notin NamesAt(d, i)
<1>0. \A i \in Live(d) : ~Waits(o, i) /\ o.run[i] = Empty
  BY DEF Live, Waits
<1>1. CASE o.kind \in Erasing
  <2>1. ~Renames(o) /\ ErasingOk(d, o)
    BY <1>1 DEF Renames, Erasing, RowsOk
  <2>2. Plain(d)
    BY <1>0, <2>1 DEF ErasingOk, Plain, Counted
  <2>3. \A i \in Live(d) : o.emails \cap DOMAIN d.settings[i] \subseteq o.failed
    BY <1>0, <2>1 DEF ErasingOk
  <2> QED BY <2>1, <2>2, <2>3
<1>2. CASE Renames(o)
  <2>1. RenamingOk(d, o) /\ o.kind \notin Erasing
    BY <1>2 DEF Renames, Erasing, RowsOk
  <2>2. \A i \in Live(d) : From(o) \notin DOMAIN d.settings[i] /\ DOMAIN d.settings[i] = NamesAt(d, i)
    BY <1>0, <2>1 DEF RenamingOk, RenamedAt
  <2>3. Plain(d)
    BY <2>1, <2>2 DEF RenamingOk, Plain, Linked, Counted
  <2> QED BY <2>1, <2>2, <2>3
<1>3. CASE o.kind \notin Erasing /\ ~Renames(o)
  BY <1>3 DEF RowsOk
<1> QED BY <1>1, <1>2, <1>3

\* The rows of a request's last transaction.
EndTo(d, m) ==
    RecInv(m) /\ \A i \in Live(d) : NamesAt(m, i) = NamesAt(d, i) /\ DOMAIN d.settings[i] \subseteq DOMAIN m.stat

LEMMA EndPlain ==
  ASSUME NEW d, NEW m, Plain(d), SameSettings(d, m), EndTo(d, m)
  PROVE  Plain(m)
  BY DEF Plain, Linked, Counted, SameSettings, EndTo, Live

\* Records of clients in no settings are erased.
Unused(d, ids, E) ==
    \A i \in Live(d) : /\ \A n \in ids \cap DOMAIN d.rec : d.rec[n].email \notin DOMAIN d.settings[i]
                       /\ E \cap DOMAIN d.settings[i] = {}

LEMMA ErasedRows ==
  ASSUME NEW d, Fields \subseteq DOMAIN d, RecInv(d), Plain(d), NEW ids, NEW E, Unused(d, ids, E)
  PROVE  EndTo(d, Erased(d, ids, E))
<1>1. PICK m : /\ m = Erased(d, ids, E) /\ m.rec = Without(d.rec, ids) /\ m.next = d.next
               /\ m.link = {l \in d.link : l[1] \notin ids} /\ m.stat = Without(d.stat, E)
  <2>1. PICK rec, link, stat : /\ rec = Without(d.rec, ids) /\ stat = Without(d.stat, E)
                               /\ link = {l \in d.link : l[1] \notin ids}
    OBVIOUS
  <2>2. PICK m : m = Erased(d, ids, E) /\ m = [d EXCEPT !.rec = rec, !.link = link, !.stat = stat]
    BY <2>1 DEF Erased
  <2>3. m.rec = rec /\ m.link = link /\ m.stat = stat /\ m.next = d.next
    BY <2>2 DEF Fields
  <2> QED BY <2>1, <2>2, <2>3
<1>2. DOMAIN m.rec = DOMAIN d.rec \ ids /\ \A n \in DOMAIN m.rec : m.rec[n] = d.rec[n]
  BY <1>1 DEF Without
<1>3. RecInv(m)
  BY <1>1, <1>2 DEF RecInv
<1>4. ASSUME NEW i \in Live(d) PROVE NamesAt(m, i) = NamesAt(d, i)
  <2>1. \A n \in DOMAIN d.rec : <<n, i>> \in d.link => n \notin ids
    <3> SUFFICES ASSUME NEW n \in DOMAIN d.rec, <<n, i>> \in d.link, n \in ids PROVE FALSE
      OBVIOUS
    <3>1. d.rec[n].email \in NamesAt(d, i)
      BY DEF NamesAt
    <3> QED BY <3>1 DEF Unused, Plain, Linked
  <2>2. \A n \in DOMAIN d.rec \ ids : <<n, i>> \in m.link <=> <<n, i>> \in d.link
    BY <1>1
  <2>3. {x \in DOMAIN m.rec : <<x, i>> \in m.link} = {x \in DOMAIN d.rec : <<x, i>> \in d.link}
    BY <1>2, <2>1, <2>2
  <2>4. \A x \in {y \in DOMAIN m.rec : <<y, i>> \in m.link} : m.rec[x].email = d.rec[x].email
    BY <1>2
  <2> QED BY <2>3, <2>4 DEF NamesAt
<1>5. ASSUME NEW i \in Live(d) PROVE DOMAIN d.settings[i] \subseteq DOMAIN m.stat
  BY <1>1 DEF Unused, Plain, Counted, Without
<1> QED BY <1>1, <1>3, <1>4, <1>5 DEF EndTo

\* The record after an update; a record that is renamed here has no inbound.
LEMMA UpdatedRows ==
  ASSUME NEW v, NEW d, Fields \subseteq DOMAIN d, RecInv(d), Plain(d), NEW o, o.kind = "update", ReqOk(v, o),
         Renames(o) => \A i \in Live(d) : From(o) \notin NamesAt(d, i), NEW n \in DOMAIN d.rec
  PROVE  EndTo(d, Updated(d, o, n))
<1> DEFINE new == o.payload.entry
           to == o.payload.to
           row == d.rec[n]
           renames == to # From(o) /\ row.email = From(o)
           alone == \A i \in Inbounds : DOMAIN o.load[i] = {}
           name == IF renames THEN to ELSE row.email
           rest == IF alone THEN new ELSE row
           x == Over([email |-> name, on |-> new.on], rest)
<1>0. EndTo(d, d)
  BY DEF EndTo, Plain, Counted
<1>1. CASE renames /\ HasRecord(d, to)
  <2>1. Updated(d, o, n) = d
    BY <1>1 DEF Updated
  <2> QED BY <1>0, <2>1
<1>2. CASE ~(renames /\ HasRecord(d, to))
  <2>1. PICK m : m = Updated(d, o, n) /\ m = [d EXCEPT !.rec[n] = x]
    BY <1>2 DEF Updated
  <2>2. {"cred", "lim"} \subseteq DOMAIN rest
    BY DEF ReqOk, RecInv
  <2>3. to \in Emails
    BY DEF ReqOk, Updates, Target
  <2>4. name \in Emails /\ (renames \/ name = d.rec[n].email)
    BY <2>3 DEF RecInv
  <2>5. {"email", "cred", "on", "lim"} \subseteq DOMAIN x /\ x.email = name
    <3> HIDE DEF name, rest, new
    <3> QED BY <2>2 DEF Over
  <2>6. renames => \A k \in DOMAIN d.rec : d.rec[k].email # name
    BY <1>2 DEF HasRecord, IdsOf
  <2>7. renames => \A i \in Live(d) : d.rec[n].email \notin NamesAt(d, i)
    BY DEF Renames
  <2> HIDE DEF x, name, rest, renames
  <2>8. /\ m.rec = [d.rec EXCEPT ![n] = x] /\ m.link = d.link /\ m.next = d.next /\ m.stat = d.stat
    BY <2>1 DEF Fields
  <2>9. DOMAIN m.rec = DOMAIN d.rec /\ m.rec[n] = x /\ \A k \in DOMAIN d.rec \ {n} : m.rec[k] = d.rec[k]
    BY <2>8
  <2>10. RecInv(m)
    <3>1. \A k \in DOMAIN m.rec : /\ k \in Nat /\ k < m.next /\ m.rec[k].email \in Emails
                                  /\ {"email", "cred", "on", "lim"} \subseteq DOMAIN m.rec[k]
      <4> SUFFICES ASSUME NEW k \in DOMAIN m.rec
                   PROVE  /\ k \in Nat /\ k < m.next /\ m.rec[k].email \in Emails
                          /\ {"email", "cred", "on", "lim"} \subseteq DOMAIN m.rec[k]
        OBVIOUS
      <4>1. CASE k = n
        BY <2>4, <2>5, <2>8, <2>9, <4>1 DEF RecInv
      <4>2. CASE k # n
        BY <2>8, <2>9, <4>2 DEF RecInv
      <4> QED BY <4>1, <4>2
    <3>2. \A k \in DOMAIN d.rec \ {n} : m.rec[k].email # name
      BY <2>4, <2>6, <2>9 DEF RecInv
    <3>3. \A k, l \in DOMAIN m.rec : m.rec[k].email = m.rec[l].email => k = l
      BY <2>5, <2>9, <3>2 DEF RecInv
    <3> QED BY <2>8, <2>9, <3>1, <3>3 DEF RecInv
  <2>11. ASSUME NEW i \in Live(d) PROVE NamesAt(m, i) = NamesAt(d, i)
    <3>1. {k \in DOMAIN m.rec : <<k, i>> \in m.link} = {k \in DOMAIN d.rec : <<k, i>> \in d.link}
      BY <2>8, <2>9
    <3>2. ASSUME NEW k \in {y \in DOMAIN d.rec : <<y, i>> \in d.link}
          PROVE  m.rec[k].email = d.rec[k].email
      <4>1. d.rec[k].email \in NamesAt(d, i)
        BY DEF NamesAt
      <4>2. CASE k = n
        BY <2>4, <2>5, <2>7, <2>9, <4>1, <4>2
      <4> QED BY <2>9, <4>2
    <3> QED BY <3>1, <3>2 DEF NamesAt
  <2>12. EndTo(d, m)
    BY <2>8, <2>10, <2>11 DEF EndTo, Plain, Counted
  <2> QED BY <2>1, <2>12
<1> QED BY <1>1, <1>2

LEMMA FinishedRows ==
  ASSUME NEW v, NEW d, Fields \subseteq DOMAIN d, RecInv(d), NEW o, ReqOk(v, o), RowsOk(d, o),
         \A i \in Inbounds : ~Waits(o, i)
  PROVE  EndTo(d, Finished(d, o))
<1> DEFINE n == CHOOSE n \in o.ids : TRUE
           good == o.emails \ o.failed
           goodIds == {m \in o.ids : o.names[m] \notin o.failed}
           out == IF o.keep THEN {} ELSE o.emails
           outGood == IF o.keep THEN {} ELSE good
<1>1. /\ Plain(d)
      /\ o.kind \in Erasing => \A i \in Live(d) : o.emails \cap DOMAIN d.settings[i] \subseteq o.failed
      /\ Renames(o) => \A i \in Live(d) : From(o) \notin NamesAt(d, i)
  BY ReturnedRows
<1>2. EndTo(d, d)
  BY <1>1 DEF EndTo, Plain, Counted
<1>3. o.kind \in Erasing => \A m \in o.ids : o.names[m] = d.rec[m].email /\ o.names[m] \in o.emails
  BY DEF RowsOk, ErasingOk
<1>4. CASE o.kind = "update"
  <2>1. Finished(d, o) = IF o.failed = {} /\ n \in DOMAIN d.rec THEN Updated(d, o, n) ELSE d
    BY <1>4 DEF Finished
  <2>2. n \in DOMAIN d.rec => EndTo(d, Updated(d, o, n))
    BY <1>1, <1>4, UpdatedRows
  <2> QED BY <1>2, <2>1, <2>2
<1>5. CASE o.kind = "delete"
  <2>1. Finished(d, o) = IF o.failed = {} THEN Erased(d, o.ids, out) ELSE d
    BY <1>5 DEF Finished
  <2>2. o.failed = {} => Unused(d, o.ids, out)
    BY <1>1, <1>3, <1>5 DEF Unused, Erasing
  <2> HIDE DEF out
  <2>3. o.failed = {} => EndTo(d, Erased(d, o.ids, out))
    BY <1>1, <2>2, ErasedRows
  <2> QED BY <1>2, <2>1, <2>3
<1>6. CASE o.kind = "bulkdelete"
  <2>1. Finished(d, o) = Erased(d, goodIds, outGood)
    BY <1>6 DEF Finished
  <2>2. Unused(d, goodIds, outGood)
    BY <1>1, <1>3, <1>6 DEF Unused, Erasing
  <2> HIDE DEF goodIds, outGood
  <2>3. EndTo(d, Erased(d, goodIds, outGood))
    BY <1>1, <2>2, ErasedRows
  <2> QED BY <2>1, <2>3
<1>7. CASE o.kind = "orphans"
  <2>1. Finished(d, o) = Erased(d, o.ids, o.emails)
    BY <1>7 DEF Finished
  <2>2. o.failed = {}
    BY <1>7 DEF RowsOk, ErasingOk, Erasing
  <2>3. Unused(d, o.ids, o.emails)
    BY <1>1, <1>3, <1>7, <2>2 DEF Unused, Erasing
  <2>4. EndTo(d, Erased(d, o.ids, o.emails))
    BY <1>1, <2>3, ErasedRows
  <2> QED BY <2>1, <2>4
<1>8. CASE o.kind = "enable"
  <2>1. Finished(d, o) = SetOn(d, good, o.payload)
    BY <1>8 DEF Finished
  <2>2. PICK m : m = SetOn(d, good, o.payload) /\ SetOnTo(d, m)
    BY SetOnRows
  <2>3. \A i : NamesAt(m, i) = NamesAt(d, i)
    BY <2>2, LinksStay DEF SetOnTo
  <2>4. EndTo(d, m)
    BY <1>1, <2>2, <2>3 DEF EndTo, SetOnTo, Plain, Counted
  <2> QED BY <2>1, <2>2, <2>4
<1>9. CASE o.kind \notin {"update", "delete", "bulkdelete", "orphans", "enable"}
  <2>1. Finished(d, o) = d
    BY <1>9 DEF Finished, ReqOk
  <2> QED BY <1>2, <2>1
<1> QED BY <1>4, <1>5, <1>6, <1>7, <1>8, <1>9

LEMMA FinishMem ==
  ASSUME LockInv, MemInv, Careful, NEW p \in Procs, p \in workload.procs, Finish(p)
  PROVE  MemInv'
<1>1. PICK o : o = op[p]
  OBVIOUS
<1>2. /\ o # Empty /\ o.todo = {} /\ (\A i \in Inbounds : o.run[i] = Empty) /\ workload' = workload
      /\ db' = Finished(db, o) /\ op' = [op EXCEPT ![p] = Empty]
  BY <1>1 DEF Finish, Returned, End
<1>3. /\ Shape(db) /\ Fields \subseteq DOMAIN db /\ RecInv(db) /\ SettingsNamed(db)
      /\ ReqOk(workload, o) /\ RowsOk(db, o)
  BY <1>1, <1>2 DEF LockInv, Shape, MemInv
<1>4. \A i \in Inbounds : ~Waits(o, i)
  BY <1>2 DEF Waits
<1>5. EndTo(db, db') /\ SameSettings(db, db')
  BY <1>2, <1>3, <1>4, FinishedRows, FinishSettings
<1>6. Plain(db')
  BY <1>3, <1>4, <1>5, ReturnedRows, EndPlain
<1>7. RecInv(db') /\ SettingsNamed(db')
  BY <1>3, <1>5 DEF EndTo, SameSettings, SettingsNamed, Live
<1> QED BY <1>2, <1>6, <1>7, OneMem

\* The new limits of a BulkAdjust.
Limited(d, E, lim) ==
    [d EXCEPT !.stat = [e \in DOMAIN d.stat |->
        IF e \in E THEN [d.stat[e] EXCEPT !.lim = lim[e]] ELSE d.stat[e]]]

Due(o) == (o.emails \ o.failed) \cap DOMAIN db.stat

\* They are written for all that are due, or for those that do not fail.
LEMMA AdjustTo ==
  ASSUME NEW p, AdjustWrite(p)
  PROVE  \E E \in SUBSET Due(op[p]) :
           (E # Due(op[p]) => "fail" \in workload.kinds) /\ db' = Limited(db, E, op[p].payload)
  BY Zenon DEF AdjustWrite, Limited, Due

LEMMA AdjustMem ==
  ASSUME LockInv, MemInv, Careful, NEW p \in Procs, p \in workload.procs,
         AdjustCheck(p) \/ AdjustWrite(p) \/ AdjustEnable(p)
  PROVE  MemInv'
<1>1. PICK o : o = op[p]
  OBVIOUS
<1>2. o # Empty /\ workload' = workload /\ o.kind \in {"adjust", "adjusted"}
  BY <1>1 DEF AdjustCheck, AdjustWrite, AdjustEnable, Returned
<1>3. /\ Shape(db) /\ Fields \subseteq DOMAIN db /\ RecInv(db) /\ SettingsNamed(db) /\ ReqShape(o)
      /\ DOMAIN op = Procs /\ ReqOk(workload, o) /\ RowsOk(db, o)
  BY <1>1, <1>2 DEF LockInv, Shape, MemInv, Serves
<1>4. /\ ~Renames(o) /\ o.kind \notin Erasing /\ o.kind \notin Adds \cup Updates \cup Deletes
      /\ Plain(db)
  BY <1>2, <1>3 DEF Renames, Erasing, Adds, Updates, Deletes, RowsOk
<1>5. CASE AdjustCheck(p)
  <2>1. PICK E : /\ UNCHANGED db
                 /\ op' = [op EXCEPT ![p].depleted = E]
    BY <1>5 DEF AdjustCheck
  <2>2. PICK k : k = [o EXCEPT !.depleted = E] /\ op' = [op EXCEPT ![p] = k]
    BY <1>1, <1>3, <2>1
  <2>3. SameReq(o, k) /\ k.todo = o.todo /\ k.run = o.run /\ DOMAIN k = DOMAIN o
    BY <1>3, <2>2 DEF SameReq, ReqShape
  <2>4. ReqOk(workload, k) /\ ~Renames(k) /\ k.kind \notin Erasing
    BY <1>3, <1>4, <2>3, ReqGoesOn, SameReqFacts DEF SameReq
  <2>5. RowsOk(db', k) /\ RecInv(db') /\ SettingsNamed(db')
    BY <1>3, <1>4, <2>1, <2>4 DEF RowsOk
  <2>6. k # Empty
    <3>1. "kind" \in DOMAIN k /\ DOMAIN Empty = {}
      BY <1>3, <2>3 DEF ReqShape, Empty
    <3> QED BY <3>1
  <2> QED BY <1>2, <2>2, <2>4, <2>5, <2>6, OneMem
<1>6. CASE AdjustWrite(p)
  <2>0. PICK E : db' = Limited(db, E, o.payload)
    BY <1>1, <1>6, AdjustTo
  <2>1. /\ db' = [db EXCEPT !.stat = [e \in DOMAIN db.stat |->
                             IF e \in E THEN [db.stat[e] EXCEPT !.lim = o.payload[e]] ELSE db.stat[e]]]
        /\ op' = [op EXCEPT ![p].kind = "adjusted"]
    BY <1>6, <2>0 DEF AdjustWrite, Limited
  <2>2. PICK k : k = [o EXCEPT !.kind = "adjusted"] /\ op' = [op EXCEPT ![p] = k]
    BY <1>1, <1>3, <2>1
  <2>3. /\ k.kind = "adjusted" /\ k.load = o.load /\ k.emails = o.emails /\ k.todo = o.todo
        /\ k.run = o.run /\ DOMAIN k = DOMAIN o
    BY <1>3, <2>2 DEF ReqShape
  <2>4. ~Renames(k) /\ k.kind \notin Erasing \cup Adds \cup Updates \cup Deletes
    BY <2>3 DEF Renames, Erasing, Adds, Updates, Deletes
  <2>5. ASSUME NEW i \in Inbounds, k.run[i] # Empty PROVE i \notin k.todo /\ ShareOk(k, i, k.run[i])
    <3>1. i \notin o.todo /\ ShareOk(o, i, o.run[i])
      BY <1>3, <2>3, <2>5 DEF ReqOk
    <3> QED BY <1>2, <1>4, <2>3, <2>4, <3>1 DEF ShareOk
  <2>6. ReqOk(workload, k)
    BY <1>3, <2>3, <2>4, <2>5 DEF ReqOk, Updates
  <2>7. EnvTo(db, db')
    <3>1. PICK stat : /\ stat = [e \in DOMAIN db.stat |->
                             IF e \in E THEN [db.stat[e] EXCEPT !.lim = o.payload[e]] ELSE db.stat[e]]
                      /\ db' = [db EXCEPT !.stat = stat]
      BY <2>1
    <3>2. DOMAIN db.stat \subseteq DOMAIN stat
      BY <3>1
    <3> QED BY <1>3, <3>1, <3>2, StatEnv
  <2>8. Plain(db')
    BY <1>4, <2>7, EnvKeeps
  <2>9. RowsOk(db', k) /\ RecInv(db') /\ SettingsNamed(db')
    BY <1>3, <2>4, <2>7, <2>8 DEF RowsOk, EnvTo, SettingsNamed
  <2>10. k # Empty
    <3>1. "kind" \in DOMAIN k /\ DOMAIN Empty = {}
      BY <1>3, <2>3 DEF ReqShape, Empty
    <3> QED BY <3>1
  <2> QED BY <1>2, <2>2, <2>6, <2>9, <2>10, OneMem
<1>7. CASE AdjustEnable(p)
  <2>1. PICK yes : yes = TRUE
    OBVIOUS
  <2>2. PICK ids, k : /\ UNCHANGED db /\ ids \subseteq DOMAIN db.rec /\ op' = [op EXCEPT ![p] = k]
                      /\ k = Empty \/ k = EnableRequest(ids, yes)
    <3>1. PICK E : /\ UNCHANGED db
                   /\ op' = [op EXCEPT ![p] = IF E = {} THEN Empty ELSE EnableRequest(IdsOf(db, E), yes)]
      BY <1>7, <2>1 DEF AdjustEnable
    <3>2. PICK ids : ids = IdsOf(db, E) /\ ids \subseteq DOMAIN db.rec
      BY DEF IdsOf
    <3> QED BY <3>1, <3>2
  <2>3. k # Empty => ReqOk(workload, k) /\ RowsOk(db', k)
    <3> SUFFICES ASSUME k = EnableRequest(ids, yes) PROVE ReqOk(workload, k) /\ RowsOk(db', k)
      BY <2>2
    <3> DEFINE load == Attached(ids, Inbounds, [e \in Emails |-> yes])
    <3>1. \A i \in Inbounds : DOMAIN load[i] \subseteq Emails
      BY <1>3, <2>2, AttachedEmails
    <3>2. k = [Request("enable", ids, load) EXCEPT !.payload = yes]
      BY DEF EnableRequest
    <3> HIDE DEF load
    <3>3. Begun(db, k, "enable", ids, load)
      BY <3>2 DEF Begun, Request
    <3>4. ~Renames(k) /\ k.kind \notin Erasing \cup Updates /\ k.kind = "enable"
      BY <3>3 DEF Renames, Begun, Updates, Erasing
    <3>5. ReqOk(workload, k)
      BY <3>1, <3>3, <3>4 DEF ReqOk, Begun, Updates
    <3> QED BY <1>4, <2>2, <3>4, <3>5 DEF RowsOk
  <2> QED BY <1>2, <1>3, <1>4, <2>2, <2>3, OneMem
<1> QED BY <1>5, <1>6, <1>7

\* A stop leaves nothing half done of what may be stopped.
LEMMA CrashMem ==
  ASSUME LockInv, MemInv, Careful, Crash
  PROVE  MemInv'
<1>1. PICK q \in Procs : op[q] # Empty
  BY DEF Crash
<1>2. /\ "crash" \in workload.kinds /\ UNCHANGED <<db, workload>> /\ \A p \in Procs : op'[p] = Empty
  BY DEF Crash, Op
<1>3. ReqOk(workload, op[q]) /\ RowsOk(db, op[q])
  BY <1>1 DEF MemInv
<1>4. Plain(db)
  <2>1. ~Renames(op[q]) /\ op[q].kind # "bulkdelete"
    BY <1>2, <1>3, DrasticAlone DEF Erasing
  <2>2. CASE op[q].kind \in Erasing
    BY <1>3, <2>1, <2>2 DEF RowsOk, ErasingOk, Plain, Counted
  <2>3. CASE op[q].kind \notin Erasing
    BY <1>3, <2>1, <2>3 DEF RowsOk
  <2> QED BY <2>2, <2>3
<1> QED BY <1>2, <1>4 DEF MemInv

LEMMA InitMem == Init => MemInv
<1> SUFFICES ASSUME Init PROVE MemInv
  OBVIOUS
<1> DEFINE S == workload.seeded
           seed == SetToSeq(S)
           ids == DOMAIN seed
<1>0. /\ S \subseteq Emails /\ IsFiniteSet(S) /\ workload.home \subseteq Inbounds
  BY ClientStoreAssumption, FS_Subset DEF Init
<1>1. PICK cred, lim :
        LET entry(n) == [cred |-> cred[n], on |-> TRUE, lim |-> lim]
            idOf(e) == CHOOSE n \in ids : seed[n] = e
        IN  db = [settings |-> [i \in Inbounds |->
                         IF i \in workload.inbounds
                         THEN [e \in IF i \in workload.home THEN workload.seeded ELSE {} |-> entry(idOf(e))]
                         ELSE None],
                  rec |-> [n \in ids |-> Over([email |-> seed[n]], entry(n))],
                  link |-> ids \X workload.home,
                  stat |-> [e \in workload.seeded |-> [on |-> TRUE, lim |-> lim, used |-> 0]],
                  next |-> Cardinality(workload.seeded) + 1]
  BY DEF Init
<1> DEFINE entry(n) == [cred |-> cred[n], on |-> TRUE, lim |-> lim]
           idOf(e) == CHOOSE n \in ids : seed[n] = e
<1>2. db.settings = [i \in Inbounds |->
        IF i \in workload.inbounds
        THEN [e \in IF i \in workload.home THEN S ELSE {} |-> entry(idOf(e))]
        ELSE None]
  BY <1>1
<1>3. /\ db.rec = [n \in ids |-> Over([email |-> seed[n]], entry(n))]
      /\ db.link = ids \X workload.home /\ DOMAIN db.stat = S /\ db.next = Cardinality(S) + 1
  BY <1>1
<1>4. \A n : DOMAIN entry(n) = {"cred", "on", "lim"}
  OBVIOUS
<1>5. /\ ids = 1..Cardinality(S) /\ Cardinality(S) \in Nat /\ (\A k \in ids : seed[k] \in S)
      /\ (\A k, l \in ids : seed[k] = seed[l] => k = l) /\ \A e \in S : \E k \in ids : seed[k] = e
  <2>1. Len(seed) = Cardinality(S) /\ DOMAIN seed = 1..Len(seed)
    BY <1>0, CountFacts
  <2>2. /\ Len(seed) \in Nat /\ (\A k \in 1..Len(seed) : seed[k] \in S)
        /\ (\A k, l \in 1..Len(seed) : seed[k] = seed[l] => k = l)
        /\ \A e \in S : \E k \in 1..Len(seed) : seed[k] = e
    BY <1>0, ListFacts
  <2> QED BY <2>1, <2>2
<1> HIDE DEF entry, idOf, ids, seed
<1>6. \A n \in ids : db.rec[n].email = seed[n] /\ {"email", "cred", "on", "lim"} \subseteq DOMAIN db.rec[n]
  <2> SUFFICES ASSUME NEW n \in ids
               PROVE  db.rec[n].email = seed[n] /\ {"email", "cred", "on", "lim"} \subseteq DOMAIN db.rec[n]
    OBVIOUS
  <2>1. db.rec[n] = Over([email |-> seed[n]], entry(n))
    BY <1>3
  <2> QED BY <1>4, <2>1 DEF Over
<1>7. DOMAIN db.rec = ids
  BY <1>3
<1>8. RecInv(db)
  <2>1. \A n \in DOMAIN db.rec : /\ n \in Nat /\ n < db.next /\ db.rec[n].email \in Emails
                                 /\ {"email", "cred", "on", "lim"} \subseteq DOMAIN db.rec[n]
    BY <1>0, <1>3, <1>5, <1>6, <1>7
  <2>2. \A m, n \in DOMAIN db.rec : db.rec[m].email = db.rec[n].email => m = n
    BY <1>5, <1>6, <1>7
  <2>3. \A l \in db.link : l = <<l[1], l[2]>> /\ l[1] \in DOMAIN db.rec /\ l[2] \in Inbounds
    BY <1>0, <1>3, <1>7
  <2>4. db.next \in Nat
    BY <1>3, <1>5
  <2> QED BY <2>1, <2>2, <2>3, <2>4 DEF RecInv
<1>9. ASSUME NEW i \in Live(db)
      PROVE  DOMAIN db.settings[i] = IF i \in workload.home THEN S ELSE {}
  <2>1. i \in Inbounds /\ i \in workload.inbounds
    BY <1>2 DEF Live
  <2> QED BY <1>2, <2>1
<1>10. ASSUME NEW i \in Inbounds PROVE NamesAt(db, i) = IF i \in workload.home THEN S ELSE {}
  <2>1. \A n : <<n, i>> \in db.link <=> n \in ids /\ i \in workload.home
    BY <1>3
  <2>2. {x \in DOMAIN db.rec : <<x, i>> \in db.link} = IF i \in workload.home THEN ids ELSE {}
    BY <1>7, <2>1
  <2>3. CASE i \in workload.home
    <3>1. NamesAt(db, i) = {db.rec[n].email : n \in ids}
      BY <2>2, <2>3 DEF NamesAt
    <3> QED BY <1>5, <1>6, <2>3, <3>1
  <2>4. CASE i \notin workload.home
    BY <2>2, <2>4 DEF NamesAt
  <2> QED BY <2>3, <2>4
<1>11. Plain(db) /\ SettingsNamed(db)
  BY <1>0, <1>3, <1>9, <1>10 DEF Plain, Linked, Counted, SettingsNamed, Live
<1>12. \A p \in Procs : op[p] = Empty
  BY DEF Init
<1> QED BY <1>8, <1>11, <1>12 DEF MemInv

LEMMA WorkloadStays ==
  ASSUME [Next]_vars
  PROVE  workload' = workload
<1>1. ASSUME NEW p \in workload.procs, NEW i \in Inbounds,
             ApplyRead(p, i) \/ BulkPurge(p, i) \/ ApplyCommit(p, i) \/ ApplyFails(p, i)
      PROVE  workload' = workload
  BY <1>1 DEF ApplyRead, BulkPurge, ApplyCommit, ApplyFails
<1>2. ASSUME NEW p \in workload.procs,
             \/ Create(p) \/ Attach(p) \/ BulkAttach(p) \/ Detach(p)
             \/ Delete(p) \/ BulkDelete(p) \/ DeleteByEmail(p) \/ DeleteOrphans(p)
             \/ Update(p) \/ ApplyField(p) \/ BulkSetEnable(p) \/ BulkAdjust(p)
      PROVE  workload' = workload
  <2>1. ASSUME NEW kind, Idle(p, kind) PROVE workload' = workload
    BY <2>1 DEF Idle, Op
  <2>2. \E kind : Idle(p, kind)
    BY <1>2 DEF Create, Attach, BulkAttach, Detach, Delete, BulkDelete, DeleteByEmail, DeleteOrphans,
               Update, ApplyField, BulkSetEnable, BulkAdjust
  <2> QED BY <2>1, <2>2
<1>3. ASSUME NEW p \in workload.procs, Finish(p) \/ AdjustCheck(p) \/ AdjustWrite(p) \/ AdjustEnable(p)
      PROVE  workload' = workload
  BY <1>3 DEF Finish, AdjustCheck, AdjustWrite, AdjustEnable
<1>4. ASSUME NEW e \in Emails, Use(e) PROVE workload' = workload
  BY <1>4 DEF Use
<1>5. ASSUME NEW i \in Inbounds, UpdateInbound(i) \/ DelInbound(i) PROVE workload' = workload
  BY <1>5 DEF UpdateInbound, DelInbound, Op
<1>6. CASE Tick \/ Crash
  BY <1>6 DEF Tick, Crash, Op
<1>7. CASE UNCHANGED vars
  BY <1>7 DEF vars
<1> QED BY <1>1, <1>2, <1>3, <1>4, <1>5, <1>6, <1>7 DEF Next

\* MemInv holds in every workload that is careful.
LEMMA MemInvInductive == LockInv /\ (Careful => MemInv) /\ [Next]_vars => (Careful => MemInv)'
<1> SUFFICES ASSUME LockInv, Careful => MemInv, [Next]_vars, Careful' PROVE MemInv'
  OBVIOUS
<1>0. workload' = workload
  BY WorkloadStays
<1>1. Careful /\ MemInv /\ workload.procs \subseteq Procs
  BY <1>0, ClientStoreAssumption DEF Careful, LockInv
<1>2. ASSUME NEW p \in workload.procs, NEW i \in Inbounds,
             ApplyRead(p, i) \/ BulkPurge(p, i) \/ ApplyCommit(p, i) \/ ApplyFails(p, i)
      PROVE  MemInv'
  BY <1>1, <1>2, ReadMem, PurgeMem, CommitMem, FailMem
<1>3. ASSUME NEW p \in workload.procs,
             \/ Create(p) \/ Attach(p) \/ BulkAttach(p) \/ Detach(p)
             \/ Delete(p) \/ BulkDelete(p) \/ DeleteByEmail(p) \/ DeleteOrphans(p)
             \/ Update(p) \/ ApplyField(p) \/ BulkSetEnable(p) \/ BulkAdjust(p)
             \/ Finish(p) \/ AdjustCheck(p) \/ AdjustWrite(p) \/ AdjustEnable(p)
      PROVE  MemInv'
  BY <1>1, <1>3, AddMem, EditMem, EraseMem, NoGhosts, UpdateMem, FieldMem, FinishMem, AdjustMem
<1>4. ASSUME NEW e \in Emails, Use(e) PROVE MemInv'
  BY <1>1, <1>4, UseMem
<1>5. ASSUME NEW i \in Inbounds, UpdateInbound(i) \/ DelInbound(i) PROVE MemInv'
  BY <1>1, <1>5, SaveMem, DelInboundMem
<1>6. CASE Tick \/ Crash
  BY <1>1, <1>6, TickMem, CrashMem
<1>7. CASE UNCHANGED vars
  BY <1>1, <1>7 DEF vars, MemInv
<1> QED BY <1>2, <1>3, <1>4, <1>5, <1>6, <1>7 DEF Next

\* Membership for every workload: once nothing runs, an inbound's settings hold the
\* clients linked to it, each with its record and its traffic row.
THEOREM ClientsAreWhereLinked == Spec => []Membership
<1>1. (Careful => MemInv) => Membership
  <2> SUFFICES ASSUME MemInv, Settled, NEW i \in Live(db)
               PROVE  /\ \A e \in DOMAIN db.settings[i] : \E n \in IdsOf(db, {e}) : <<n, i>> \in db.link
                      /\ \A n \in DOMAIN db.rec : <<n, i>> \in db.link => db.rec[n].email \in DOMAIN db.settings[i]
                      /\ DOMAIN db.settings[i] \subseteq DOMAIN db.stat
    BY DEF Membership
  <2>1. Plain(db)
    BY DEF Settled, MemInv
  <2>2. DOMAIN db.settings[i] = NamesAt(db, i) /\ DOMAIN db.settings[i] \subseteq DOMAIN db.stat
    BY <2>1 DEF Plain, Linked, Counted
  <2>3. ASSUME NEW e \in DOMAIN db.settings[i] PROVE \E n \in IdsOf(db, {e}) : <<n, i>> \in db.link
    <3>1. PICK n \in DOMAIN db.rec : db.rec[n].email = e /\ <<n, i>> \in db.link
      BY <2>2 DEF NamesAt
    <3>2. n \in IdsOf(db, {e})
      BY <3>1 DEF IdsOf
    <3> QED BY <3>1, <3>2
  <2>4. \A n \in DOMAIN db.rec : <<n, i>> \in db.link => db.rec[n].email \in DOMAIN db.settings[i]
    BY <2>2 DEF NamesAt
  <2> QED BY <2>2, <2>3, <2>4
<1> QED BY <1>1, InitLock, LockInvInductive, InitMem, MemInvInductive, PTL DEF Spec

\* OthersUntouched for every workload: the list a share computed drops or adds
\* nobody it was not asked about, and the lock keeps its base current.
THEOREM CommitsAreLocal == Spec => OthersUntouched
<1> DEFINE Local == \A p \in Procs, i \in Live(db) :
         (Careful /\ op[p] # Empty /\ op[p].run[i] # Empty /\ op'[p] # Empty /\ op'[p].run[i] = Empty
          /\ i \in Live(db)')
         => \A e \in Emails \ (op[p].emails \cup DOMAIN op[p].load[i]) :
              e \in DOMAIN db.settings[i] <=> e \in DOMAIN db'.settings[i]
<1>1. LockInv /\ (Careful => MemInv) /\ Next => Local
  <2> SUFFICES ASSUME LockInv, MemInv, Next, NEW p \in Procs, NEW i \in Live(db), i \in Live(db'),
                      op[p] # Empty, op[p].run[i] # Empty,
                      NEW e \in Emails \ (op[p].emails \cup DOMAIN op[p].load[i])
               PROVE  e \in DOMAIN db.settings[i] <=> e \in DOMAIN db'.settings[i]
    BY DEF Live
  <2>0. workload.procs \subseteq Procs /\ i \in Inbounds
    BY ClientStoreAssumption DEF LockInv, Live
  <2>1. ASSUME NEW q \in workload.procs, NEW j \in Inbounds, ApplyCommit(q, j)
        PROVE  e \in DOMAIN db.settings[i] <=> e \in DOMAIN db'.settings[i]
    <3>1. /\ op[q] # Empty /\ op[q].run[j] # Empty /\ db' = Committed(db, op[q], j) /\ Serves(db, op[q])
          /\ j \in Live(db)
      BY <2>0, <2>1 DEF ApplyCommit, LockInv
    <3>2. CommitKeeps(db, op[q], j, db')
      BY <3>1, CommitShape DEF LockInv
    <3>3. CASE j # i
      BY <3>2, <3>3 DEF CommitKeeps
    <3>4. CASE j = i
      <4>1. q = p
        BY <2>0, <3>1, <3>4 DEF LockInv, Busy
      <4>2. PICK o, r : o = op[p] /\ r = o.run[i]
        OBVIOUS
      <4>3. DOMAIN db'.settings[i] = DOMAIN r.ours /\ DOMAIN db.settings[i] = DOMAIN r.base
        BY <3>1, <3>2, <3>4, <4>1, <4>2 DEF CommitKeeps, MergedTo, Serves, Holds
      <4>4. ReqOk(workload, o) /\ ShareOk(o, i, r)
        BY <2>0, <4>2 DEF MemInv, ReqOk
      <4>5. e \notin DOMAIN r.new /\ e \notin DOMAIN o.load[i]
        BY <4>2, <4>4 DEF ShareOk
      <4>6. CASE o.kind \in Adds
        BY <4>3, <4>4, <4>5, <4>6 DEF ShareOk
      <4>7. CASE o.kind \in Updates
        <5>1. e # From(o)
          BY <4>2, <4>4, <4>7 DEF ReqOk
        <5>2. e # Target(o)
          BY <4>4, <4>5, <4>7 DEF ShareOk
        <5> QED BY <4>3, <4>4, <4>7, <5>1, <5>2 DEF ShareOk
      <4>8. CASE o.kind \in Deletes
        BY <4>3, <4>4, <4>5, <4>8 DEF ShareOk
      <4>9. CASE o.kind \notin Adds \cup Updates \cup Deletes
        BY <4>3, <4>4, <4>5, <4>9 DEF ShareOk
      <4> QED BY <4>6, <4>7, <4>8, <4>9
    <3> QED BY <3>3, <3>4
  <2>2. CASE Tick
    BY <2>2, TickFacts DEF TickTo
  <2>3. ASSUME NEW j \in Inbounds, DelInbound(j)
        PROVE  e \in DOMAIN db.settings[i] <=> e \in DOMAIN db'.settings[i]
    BY <2>3, DelInboundLock
  <2> QED BY <2>1, <2>2, <2>3, WhoWrites
<1>2. LockInv /\ (Careful => MemInv) /\ [Next]_vars => [Local]_vars
  BY <1>1
<1> QED BY <1>2, InitLock, LockInvInductive, InitMem, MemInvInductive, PTL DEF Spec, OthersUntouched

----------------------------------------------------------------------------
(***************************************************************************)
(* Agreement: what a client is in its settings, record and traffic row.    *)
(***************************************************************************)

Entry == [cred : Creds, on : BOOLEAN, lim : Nat]

\* The clients of a list, with their entries.
Entries(s) == DOMAIN s \subseteq Emails /\ s \in [DOMAIN s -> Entry]

\* The record of e holds the entry v.
Has(d, e, v) == \E n \in DOMAIN d.rec : d.rec[n].email = e /\ EntryOf(d, n) = v

Typed(d) ==
    /\ \A i \in Live(d) : d.settings[i] \in [DOMAIN d.settings[i] -> Entry]
    /\ \A n \in DOMAIN d.rec : EntryOf(d, n) \in Entry
    /\ d.stat \in [DOMAIN d.stat -> [on : BOOLEAN, lim : Nat, used : {0}]]

LinksLive(d) == \A l \in d.link : l[2] \in Live(d)

\* No two clients have the same credentials.
Unique(d) ==
    \A e, f \in Emails, v, w \in Entry : Has(d, e, v) /\ Has(d, f, w) /\ v.cred = w.cred => e = f

\* The same but for the fields in X.
Same(a, b, X) ==
    ("cred" \in X \/ a.cred = b.cred) /\ ("on" \in X \/ a.on = b.on) /\ ("lim" \in X \/ a.lim = b.lim)
SameRow(row, b, X) == ("on" \in X \/ row.on = b.on) /\ ("lim" \in X \/ row.lim = b.lim)

AgreeAt(d, i, e, X) ==
    \A v \in Entry : Has(d, e, v) => /\ Same(d.settings[i][e], v, X)
                                     /\ e \in DOMAIN d.stat => SameRow(d.stat[e], v, X)

\* Settings, records and traffic rows agree, those of E but for the fields in X.
Agree(d, E, X) ==
    \A i \in Live(d) : \A e \in DOMAIN d.settings[i] : AgreeAt(d, i, e, IF e \in E THEN X ELSE {})

AllAgree(d) == Agree(d, {}, {})

\* The list a share writes onto base.
List(o, i, base) ==
    LET E == DOMAIN o.load[i]
    IN  CASE o.kind \in Adds -> Over(base, Without(o.load[i], DOMAIN base))
          [] o.kind \in Updates -> Over(o.load[i], Without(base, {From(o)}))
          [] o.kind \in Edits -> [e \in DOMAIN base |->
                                    IF e \in E THEN [base[e] EXCEPT ![o.field] = o.load[i][e]]
                                    ELSE base[e]]
          [] OTHER -> Without(base, E)

\* The settings a share has read are those it writes onto.
BaseOk(d, o, i) ==
    LET r == o.run[i]
    IN  /\ i \in Live(d) /\ r.base = d.settings[i] /\ r.ours = List(o, i, r.base)
        /\ o.kind \in Adds => r.new = Without(o.load[i], DOMAIN r.base)
        /\ o.kind \in Updates => r.new = o.load[i]

\* The entry of a client to add is its record, and its credentials nobody else's.
Fits(d, o, e, new) ==
    /\ new \in Entry
    /\ \A f \in Emails, v \in Entry : Has(d, f, v) =>
         (f = e => v = new) /\ (v.cred = new.cred => f = e)
    /\ \A j \in Inbounds : \A f \in DOMAIN o.load[j] :
         (f = e => o.load[j][f] = new) /\ (o.load[j][f].cred = new.cred => f = e)

AddsOk(d, o) == AllAgree(d) /\ \A i \in Inbounds : \A e \in DOMAIN o.load[i] : Fits(d, o, e, o.load[i][e])

\* The new value of the edited field.
Value(o, e) == IF o.kind = "enable" THEN o.payload ELSE o.payload[e]

\* The edited field of a client: set wherever its share has been committed.
EditedAt(d, o, i, e) ==
    /\ d.settings[i][e][o.field] = Value(o, e)
    /\ o.kind = "adjust" => \A v \in Entry : Has(d, e, v) => v.lim = Value(o, e)

EditsOk(d, o) ==
    /\ o.failed = {} /\ o.field = IF o.kind = "enable" THEN "on" ELSE "lim"
    /\ \A e \in o.emails : Value(o, e) \in IF o.kind = "enable" THEN BOOLEAN ELSE Nat
    /\ \A i \in Inbounds : \A e \in DOMAIN o.load[i] :
         i \in Live(d) /\ e \in DOMAIN d.settings[i] /\ e \in o.emails /\ o.load[i][e] = Value(o, e)
    /\ \A i \in Live(d) : \A e \in o.emails \cap DOMAIN d.settings[i] :
         e \in DOMAIN o.load[i] /\ (Waits(o, i) \/ EditedAt(d, o, i, e))
    /\ Agree(d, o.emails, {o.field})

\* The client has its new entry in its record and traffic row.
DoneTo(d, from, to, want) ==
    /\ \A v \in Entry : Has(d, to, v) => v = want
    /\ to \in DOMAIN d.stat => SameRow(d.stat[to], want, {})
    /\ from # to => ~HasRecord(d, from)

\* Its new entry is in the settings wherever its share has been committed.
WrittenAt(d, o, i, want) ==
    /\ i \in Live(d) /\ o.load[i] = Just(Target(o), want)
    /\ IF Waits(o, i) THEN From(o) \in DOMAIN d.settings[i]
       ELSE Target(o) \in DOMAIN d.settings[i] /\ d.settings[i][Target(o)] = want

UpdatesTo(d, o, want) ==
    LET from == From(o)
        to == Target(o)
    IN  /\ o.kind = "update" => want = o.payload.entry
        /\ \A i \in Inbounds : DOMAIN o.load[i] # {} => WrittenAt(d, o, i, want)
        /\ \A i \in Live(d) : {from, to} \cap DOMAIN d.settings[i] # {} => DOMAIN o.load[i] # {}
        /\ \A f \in Emails \ {from, to}, v \in Entry : Has(d, f, v) => v.cred # want.cred
        /\ \A n \in o.ids \cap DOMAIN d.rec : d.rec[n].email \in {from, to}
        /\ Agree(d, {from, to}, {"cred", "on", "lim"})
        /\ (AllAgree(d) /\ (from = to \/ ~HasRecord(d, to))) \/ DoneTo(d, from, to, want)

UpdatesOk(d, o) == o.failed = {} /\ o.ids # {} /\ \E want \in Entry : UpdatesTo(d, o, want)

\* A request alone.
AloneOk(d, o) ==
    /\ o.kind \notin Edits \cup Updates => AllAgree(d)
    /\ o.kind \in Adds => AddsOk(d, o)
    /\ o.kind \in Edits => EditsOk(d, o)
    /\ o.kind \in Updates => UpdatesOk(d, o)

\* A request among others on the one inbound there is: what it writes has the
\* credentials of the client's record.
SharedOk(d, o) ==
    /\ o.kind \in {"attach", "detach", "field"}
    /\ o.kind # "detach" => \A i \in Inbounds : \A e \in DOMAIN o.load[i] :
         /\ o.load[i][e] \in Entry /\ HasRecord(d, e)
         /\ \A f \in Emails, v \in Entry : Has(d, f, v) => (v.cred = o.load[i][e].cred <=> f = e)

Single == \A p, q \in workload.procs : p = q

\* What a request carries.
LoadTyped(o) ==
    /\ o.kind \in Adds \cup Updates => \A i \in Inbounds : Entries(o.load[i])
    /\ o.kind \in Edits => /\ o.field \in {"on", "lim"}
                           /\ \A i \in Inbounds : \A e \in DOMAIN o.load[i] :
                                o.load[i][e] \in IF o.field = "on" THEN BOOLEAN ELSE Nat

\* The depleted clients of an adjustment are noted once its shares have returned.
Checked(o) == o.kind = "adjust" /\ o.depleted # None => \A i \in Inbounds : ~Waits(o, i)

OpOk(d, o) ==
    /\ LoadTyped(o) /\ Checked(o) /\ \A i \in Inbounds : o.run[i] # Empty => BaseOk(d, o, i)
    /\ IF Single THEN AloneOk(d, o) ELSE SharedOk(d, o)

AgreeInv ==
    /\ Typed(db) /\ Unique(db) /\ LinksLive(db)
    /\ \A p \in Procs : op[p] # Empty => OpOk(db, op[p])
    /\ Single /\ (\A p \in Procs : op[p] = Empty) => AllAgree(db)
    /\ ~Single => AllAgree(db) /\ \A i, j \in Live(db) : i = j

----------------------------------------------------------------------------
(***************************************************************************)
(* Entries of records and traffic rows after a write.                      *)
(***************************************************************************)

\* The records after a write of entries.
HasTo(d, entries, m) ==
    /\ \A e, v : Has(m, e, v) => IF e \in DOMAIN entries THEN v = entries[e] ELSE Has(d, e, v)
    /\ \A n \in DOMAIN m.rec :
         m.rec[n].email \in DOMAIN entries \/ (n \in DOMAIN d.rec /\ m.rec[n].email = d.rec[n].email)

\* The traffic rows after a write of entries.
RowTo(d, entries, m) ==
    /\ m.stat \in [DOMAIN m.stat -> [on : BOOLEAN, lim : Nat, used : {0}]]
    /\ \A e \in DOMAIN m.stat : IF e \in DOMAIN entries THEN SameRow(m.stat[e], entries[e], {})
                                ELSE e \in DOMAIN d.stat /\ m.stat[e] = d.stat[e]

LEMMA HasTyped ==
  ASSUME NEW d, Typed(d), NEW e, NEW v, Has(d, e, v)
  PROVE  v \in Entry
BY DEF Has, Typed

LEMMA HasEmail ==
  ASSUME NEW d, RecInv(d), NEW e, NEW v, Has(d, e, v)
  PROVE  e \in Emails /\ HasRecord(d, e)
BY DEF Has, RecInv, HasRecord, IdsOf

LEMMA RecordHas ==
  ASSUME NEW d, Typed(d), NEW e, HasRecord(d, e)
  PROVE  \E v \in Entry : Has(d, e, v)
BY DEF Has, Typed, HasRecord, IdsOf

LEMMA EntryFull ==
  ASSUME NEW s, Entries(s)
  PROVE  Full(s)
BY DEF Entries, Entry, Full

\* The fields of a row made from an entry.
LEMMA RowOf ==
  ASSUME NEW e, NEW x \in Entry
  PROVE  LET row == Over([email |-> e], x)
         IN  row.email = e /\ [cred |-> row.cred, on |-> row.on, lim |-> row.lim] = x
BY DEF Over, Entry

LEMMA MergeHas ==
  ASSUME NEW d, Fields \subseteq DOMAIN d, RecInv(d), NEW entries, Entries(entries)
  PROVE  HasTo(d, entries, MergeRecords(d, entries))
<1> DEFINE S == {e \in DOMAIN entries : ~HasRecord(d, e)}
           new == SetToSeq(S)
           row(e) == Over([email |-> e], entries[e])
           old == [n \in DOMAIN d.rec |-> IF d.rec[n].email \in DOMAIN entries
                                          THEN row(d.rec[n].email) ELSE d.rec[n]]
           fresh == [n \in d.next .. d.next + Len(new) - 1 |-> row(new[n - d.next + 1])]
           m == MergeRecords(d, entries)
<1>1. m.rec = Over(old, fresh)
  <2>1. m = [d EXCEPT !.rec = Over(old, fresh), !.next = d.next + Len(new)]
    BY DEF MergeRecords
  <2> HIDE DEF old, fresh, new, m
  <2> QED BY <2>1 DEF Fields
<1>2. IsFiniteSet(S)
  BY ClientStoreAssumption, FS_Subset DEF Entries
<1>3. Len(new) \in Nat /\ \A k \in 1..Len(new) : new[k] \in S
  BY <1>2, ListFacts
<1>4. \A e \in DOMAIN entries :
        row(e).email = e /\ [cred |-> row(e).cred, on |-> row(e).on, lim |-> row(e).lim] = entries[e]
  BY RowOf DEF Entries
<1>5. \A e \in S : e \in DOMAIN entries
  OBVIOUS
<1> HIDE DEF new, row, S, m
<1>6. ASSUME NEW n \in DOMAIN m.rec
      PROVE  \/ n \in DOMAIN d.rec /\ d.rec[n].email \notin DOMAIN entries /\ m.rec[n] = d.rec[n]
             \/ \E e \in DOMAIN entries : m.rec[n] = row(e)
  <2>1. CASE n \in DOMAIN d.rec
    <3>1. m.rec[n] = IF d.rec[n].email \in DOMAIN entries THEN row(d.rec[n].email) ELSE d.rec[n]
      BY <1>1, <2>1 DEF Over
    <3> QED BY <2>1, <3>1
  <2>2. CASE n \notin DOMAIN d.rec
    <3>1. n \in DOMAIN fresh /\ m.rec[n] = fresh[n]
      BY <1>1, <2>2 DEF Over
    <3>2. n \in d.next .. d.next + Len(new) - 1 /\ fresh[n] = row(new[n - d.next + 1])
      BY <3>1
    <3>3. PICK x \in Nat, k \in Nat : x = d.next /\ k = Len(new)
      BY <1>3 DEF RecInv
    <3>4. n - x + 1 \in 1..k
      BY <3>2, <3>3
    <3>5. new[n - d.next + 1] \in DOMAIN entries
      BY <1>3, <1>5, <3>3, <3>4
    <3> QED BY <3>1, <3>2, <3>5
  <2> QED BY <2>1, <2>2
<1>7. ASSUME NEW e, NEW v, Has(m, e, v)
      PROVE  IF e \in DOMAIN entries THEN v = entries[e] ELSE Has(d, e, v)
  <2>1. PICK n \in DOMAIN m.rec : m.rec[n].email = e /\ EntryOf(m, n) = v
    BY <1>7 DEF Has
  <2>2. CASE n \in DOMAIN d.rec /\ d.rec[n].email \notin DOMAIN entries /\ m.rec[n] = d.rec[n]
    <3>1. EntryOf(d, n) = v /\ d.rec[n].email = e
      BY <2>1, <2>2 DEF EntryOf
    <3> QED BY <2>2, <3>1 DEF Has
  <2>3. CASE \E f \in DOMAIN entries : m.rec[n] = row(f)
    <3>1. PICK f \in DOMAIN entries : m.rec[n] = row(f)
      BY <2>3
    <3>2. e = f /\ v = entries[f]
      BY <1>4, <2>1, <3>1 DEF EntryOf
    <3> QED BY <3>2
  <2> QED BY <1>6, <2>2, <2>3
<1>8. ASSUME NEW n \in DOMAIN m.rec
      PROVE  m.rec[n].email \in DOMAIN entries \/ (n \in DOMAIN d.rec /\ m.rec[n].email = d.rec[n].email)
  BY <1>4, <1>6
<1> QED BY <1>7, <1>8 DEF HasTo, m

LEMMA SyncHas ==
  ASSUME NEW d, Fields \subseteq DOMAIN d, RecInv(d), NEW entries, Entries(entries),
         NEW i, NEW detach, NEW prune
  PROVE  HasTo(d, entries, SyncClients(d, i, entries, detach, prune))
<1>1. PICK m : m = MergeRecords(d, entries)
  OBVIOUS
<1>2. HasTo(d, entries, m) /\ Fields \subseteq DOMAIN m
  BY <1>1, MergeHas, MergeSettings DEF SameSettings
<1>3. PICK k : k = SyncClients(d, i, entries, detach, prune)
  OBVIOUS
<1>4. k.rec = m.rec
  BY <1>1, <1>2, <1>3 DEF SyncClients, Fields
<1>5. \A e, v : Has(k, e, v) <=> Has(m, e, v)
  BY <1>4 DEF Has, EntryOf
<1> QED BY <1>2, <1>3, <1>4, <1>5 DEF HasTo

StatTyped(d) == d.stat \in [DOMAIN d.stat -> [on : BOOLEAN, lim : Nat, used : {0}]]

LEMMA DelRow ==
  ASSUME NEW d, Fields \subseteq DOMAIN d, StatTyped(d), NEW E
  PROVE  RowTo(d, Empty, DelStats(d, E)) /\ SameRows(d, DelStats(d, E))
<1>1. DelStats(d, E).stat = Without(d.stat, E)
  BY DEF DelStats, Fields
<1>2. SameRows(d, DelStats(d, E))
  BY StatRows DEF DelTo
<1> QED BY <1>1, <1>2 DEF RowTo, StatTyped, Without, Empty

LEMMA AddRow ==
  ASSUME NEW d, Fields \subseteq DOMAIN d, StatTyped(d), NEW new, Entries(new)
  PROVE  RowTo(d, new, AddStats(d, new)) /\ SameRows(d, AddStats(d, new))
<1> DEFINE row(e) == [on |-> new[e].on, lim |-> new[e].lim,
                      used |-> IF e \in DOMAIN d.stat THEN d.stat[e].used ELSE 0]
           fresh == [e \in DOMAIN new |-> row(e)]
           m == AddStats(d, new)
<1>1. m.stat = Over(fresh, d.stat)
  <2>1. m = [d EXCEPT !.stat = Over(fresh, d.stat)]
    BY DEF AddStats
  <2> HIDE DEF fresh, m
  <2> QED BY <2>1 DEF Fields
<1>2. SameRows(d, m)
  BY StatRows DEF AddTo
<1>3. ASSUME NEW e \in DOMAIN new
      PROVE  row(e) \in [on : BOOLEAN, lim : Nat, used : {0}] /\ SameRow(row(e), new[e], {})
  <2>1. new[e] \in Entry
    BY DEF Entries
  <2>2. e \in DOMAIN d.stat => d.stat[e].used = 0
    BY DEF StatTyped
  <2> QED BY <2>1, <2>2 DEF Entry, SameRow
<1>4. ASSUME NEW e \in DOMAIN m.stat
      PROVE  m.stat[e] = IF e \in DOMAIN new THEN row(e) ELSE d.stat[e]
  BY <1>1 DEF Over
<1>5. DOMAIN m.stat = DOMAIN new \cup DOMAIN d.stat /\ m.stat = [e \in DOMAIN m.stat |-> m.stat[e]]
  BY <1>1 DEF Over
<1> HIDE DEF row, fresh, m
<1>6. RowTo(d, new, m)
  <2>1. ASSUME NEW e \in DOMAIN m.stat PROVE m.stat[e] \in [on : BOOLEAN, lim : Nat, used : {0}]
    BY <1>3, <1>4, <1>5 DEF StatTyped
  <2>2. m.stat \in [DOMAIN m.stat -> [on : BOOLEAN, lim : Nat, used : {0}]]
    BY <1>5, <2>1
  <2> QED BY <1>3, <1>4, <1>5, <2>2 DEF RowTo
<1> QED BY <1>2, <1>6 DEF m

LEMMA UpdateRow ==
  ASSUME NEW d, Fields \subseteq DOMAIN d, StatTyped(d), NEW e, NEW f, NEW entry \in Entry,
         e = f \/ f \notin DOMAIN d.stat
  PROVE  RowTo(d, Just(f, entry), UpdateStat(d, e, f, entry)) /\ SameRows(d, UpdateStat(d, e, f, entry))
<1> DEFINE m == UpdateStat(d, e, f, entry)
           row == [on |-> entry.on, lim |-> entry.lim, used |-> d.stat[e].used]
<1>1. SameRows(d, m)
  BY StatRows DEF UpdateTo
<1>2. DOMAIN Just(f, entry) = {f} /\ Just(f, entry)[f] = entry
  BY DEF Just
<1>3. CASE e \notin DOMAIN d.stat
  <2>1. m = d
    BY <1>3 DEF UpdateStat
  <2> QED BY <1>1, <1>2, <1>3, <2>1 DEF RowTo, StatTyped
<1>4. CASE e \in DOMAIN d.stat
  <2>1. m.stat = Over(Just(f, row), Without(d.stat, {e}))
    BY <1>4 DEF UpdateStat, Fields
  <2>2. row \in [on : BOOLEAN, lim : Nat, used : {0}] /\ SameRow(row, entry, {})
    <3>1. d.stat[e].used = 0
      BY <1>4 DEF StatTyped
    <3> QED BY <3>1 DEF Entry, SameRow
  <2> HIDE DEF row, m
  <2>3. /\ DOMAIN m.stat = {f} \cup (DOMAIN d.stat \ {e}) /\ m.stat = [x \in DOMAIN m.stat |-> m.stat[x]]
        /\ m.stat[f] = row /\ \A x \in DOMAIN m.stat \ {f} : m.stat[x] = d.stat[x]
    BY <2>1 DEF Over, Just, Without
  <2>4. ASSUME NEW x \in DOMAIN m.stat PROVE m.stat[x] \in [on : BOOLEAN, lim : Nat, used : {0}]
    BY <2>2, <2>3 DEF StatTyped
  <2>5. m.stat \in [DOMAIN m.stat -> [on : BOOLEAN, lim : Nat, used : {0}]]
    BY <2>3, <2>4
  <2>6. RowTo(d, Just(f, entry), m)
    BY <1>2, <2>2, <2>3, <2>5 DEF RowTo
  <2> QED BY <1>1, <2>6 DEF m
<1> QED BY <1>3, <1>4

LEMMA RenameRow ==
  ASSUME NEW d, Fields \subseteq DOMAIN d, StatTyped(d), NEW i, NEW e, NEW f, NEW entry \in Entry
  PROVE  RowTo(d, Just(f, entry), RenameStat(d, i, e, f, entry)) /\ SameRows(d, RenameStat(d, i, e, f, entry))
<1>1. CASE e = f \/ f \notin DOMAIN d.stat
  BY <1>1, UpdateRow DEF RenameStat
<1>2. CASE ~(e = f \/ f \notin DOMAIN d.stat)
  <2>1. PICK x : x = IF UsedElsewhere(d, e, i) THEN d ELSE DelStats(d, {e})
    OBVIOUS
  <2>2. RenameStat(d, i, e, f, entry) = UpdateStat(x, f, f, entry)
    BY <1>2, <2>1 DEF RenameStat
  <2>3. CASE x = d
    BY <2>2, <2>3, UpdateRow
  <2>4. CASE x = DelStats(d, {e})
    <3>1. RowTo(d, Empty, x) /\ SameRows(d, x)
      BY <2>4, DelRow
    <3>2. StatTyped(x) /\ Fields \subseteq DOMAIN x
      BY <3>1 DEF RowTo, StatTyped, SameRows
    <3>3. RowTo(x, Just(f, entry), UpdateStat(x, f, f, entry)) /\ SameRows(x, UpdateStat(x, f, f, entry))
      BY <3>2, UpdateRow
    <3>4. \A y \in DOMAIN x.stat : y \in DOMAIN d.stat /\ x.stat[y] = d.stat[y]
      BY <3>1 DEF RowTo, Empty
    <3> QED BY <2>2, <3>1, <3>3, <3>4 DEF RowTo, SameRows
  <2> QED BY <2>1, <2>3, <2>4
<1> QED BY <1>1, <1>2

\* The rename of a record moves its entry and no other.
MovedTo(d, e, f, m) ==
    /\ Fields \subseteq DOMAIN m /\ m.stat = d.stat
    /\ \A x, v : Has(m, x, v) /\ x # f => Has(d, x, v)
    /\ \A n \in DOMAIN m.rec : m.rec[n].email = f \/ (n \in DOMAIN d.rec /\ m.rec[n].email = d.rec[n].email)
    /\ e # f /\ (HasRecord(d, e) => ~HasRecord(d, f)) => ~HasRecord(m, e)

LEMMA RenameHas ==
  ASSUME NEW d, Fields \subseteq DOMAIN d, RecInv(d), NEW e, NEW f
  PROVE  MovedTo(d, e, f, RenameRecord(d, e, f))
<1>1. CASE e = f \/ HasRecord(d, f)
  <2>1. RenameRecord(d, e, f) = d
    BY <1>1 DEF RenameRecord
  <2> QED BY <1>1, <2>1 DEF MovedTo
<1>2. CASE ~(e = f \/ HasRecord(d, f))
  <2>1. PICK rec : rec = [n \in DOMAIN d.rec |->
                            IF d.rec[n].email = e THEN [d.rec[n] EXCEPT !.email = f] ELSE d.rec[n]]
    OBVIOUS
  <2>2. PICK m : m = RenameRecord(d, e, f)
    OBVIOUS
  <2>3. m.rec = rec /\ m.stat = d.stat /\ Fields \subseteq DOMAIN m
    BY <1>2, <2>1, <2>2 DEF RenameRecord, Fields
  <2>4. ASSUME NEW n \in DOMAIN d.rec
        PROVE  IF d.rec[n].email = e THEN m.rec[n].email = f ELSE m.rec[n] = d.rec[n]
    <3>1. "email" \in DOMAIN d.rec[n]
      BY DEF RecInv
    <3> QED BY <2>1, <2>3, <3>1
  <2>5. DOMAIN m.rec = DOMAIN d.rec
    BY <2>1, <2>3
  <2>6. ~HasRecord(m, e)
    BY <1>2, <2>4, <2>5 DEF HasRecord, IdsOf
  <2>7. ASSUME NEW x, NEW v, Has(m, x, v), x # f PROVE Has(d, x, v)
    <3>1. PICK n \in DOMAIN d.rec : m.rec[n].email = x /\ EntryOf(m, n) = v
      BY <2>5, <2>7 DEF Has
    <3>2. m.rec[n] = d.rec[n]
      BY <2>4, <2>7, <3>1
    <3> QED BY <3>1, <3>2 DEF Has, EntryOf
  <2> QED BY <2>2, <2>3, <2>4, <2>5, <2>6, <2>7 DEF MovedTo
<1> QED BY <1>1, <1>2

LEMMA SameHas ==
  ASSUME NEW d, NEW m, m.rec = d.rec
  PROVE  /\ \A e, v : Has(m, e, v) <=> Has(d, e, v)
         /\ \A e : HasRecord(m, e) <=> HasRecord(d, e)
BY DEF Has, EntryOf, HasRecord, IdsOf

\* A merge onto the settings that were read.
LEMMA RebaseSame ==
  ASSUME NEW base, NEW ours, Entries(base), Entries(ours)
  PROVE  Rebase(base, ours, base) = ours
<1> DEFINE s == Rebase(base, ours, base)
<1>1. DOMAIN s = DOMAIN ours
  BY DEF Rebase
<1>2. ASSUME NEW e \in DOMAIN ours PROVE s[e] = ours[e]
  <2>1. CASE e \notin DOMAIN base
    BY <2>1 DEF Rebase
  <2>2. CASE e \in DOMAIN base
    <3>1. s[e] = MergeFields(base[e], ours[e], base[e])
      BY <2>2 DEF Rebase
    <3>2. ours[e] \in Entry /\ base[e] \in Entry
      BY <2>2 DEF Entries
    <3> QED BY <3>1, <3>2 DEF MergeFields, Entry
  <2> QED BY <2>1, <2>2
<1>3. s = [e \in DOMAIN s |-> s[e]]
  BY DEF Rebase
<1> HIDE DEF s
<1>4. s = ours
  BY <1>1, <1>2, <1>3 DEF Entries
<1> QED BY <1>4 DEF s

\* The entries a commit writes to the records, and those it writes to the traffic
\* rows.
ToRecords(o, r) ==
    IF o.kind \in Adds \cup Updates THEN r.new ELSE IF o.kind \in Deletes THEN Empty ELSE r.ours
ToRows(o, r) == IF o.kind \in Adds \cup Updates THEN r.new ELSE Empty

\* What the share of i writes: entries, onto the settings it has read.
Writes(d, o, i) ==
    /\ BaseOk(d, o, i) /\ Entries(o.run[i].ours)
    /\ o.kind \in Adds \cup Updates => Entries(o.run[i].new)

CommitVals(d, o, i, m) ==
    /\ m.settings = [d.settings EXCEPT ![i] = o.run[i].ours]
    /\ HasTo(d, ToRecords(o, o.run[i]), m) /\ RowTo(d, ToRows(o, o.run[i]), m)
    /\ o.kind \in Updates /\ From(o) # Target(o) /\ (HasRecord(d, From(o)) => ~HasRecord(d, Target(o)))
         => ~HasRecord(m, From(o))

LEMMA EmptyEntries == Entries(Empty) /\ DOMAIN Empty = {}
BY DEF Entries, Empty

LEMMA CommitWrites ==
  ASSUME NEW v, NEW d, NEW o, NEW i \in Inbounds, Shape(d), Serves(d, o), RecInv(d), ReqOk(v, o),
         o.run[i] # Empty, Typed(d), SettingsNamed(d), Writes(d, o, i)
  PROVE  CommitVals(d, o, i, Committed(d, o, i))
<1> DEFINE r == o.run[i]
           c == CHOOSE e \in DOMAIN r.new : TRUE
           s == Rebase(r.base, r.ours, d.settings[i])
           w == [d EXCEPT !.settings[i] = s]
           m == Committed(d, o, i)
<1>0. /\ Fields \subseteq DOMAIN d /\ ShareOk(o, i, r) /\ i \in Live(d) /\ r.base = d.settings[i]
      /\ DOMAIN d.settings = Inbounds /\ StatTyped(d)
  BY DEF Shape, ReqOk, Writes, BaseOk, Typed, StatTyped
<1>1. m = CASE o.kind \in Adds -> ApplyDelta(AddStats(w, r.new), i, r.new, {})
            [] o.kind \in Updates ->
                 ApplyDelta(RenameRecord(RenameStat(w, i, From(o), c, r.new[c]), From(o), c),
                            i, r.new, {From(o)} \ {c})
            [] o.kind \in Deletes -> ApplyDelta(DelStats(w, r.drop), i, Empty, DOMAIN r.new)
            [] OTHER -> SyncInbound(w, i, s)
  BY DEF Committed
<1>2. SameRows(d, w) /\ w.stat = d.stat
  BY <1>0, WrittenRows
<1>3. s = r.ours
  <2>1. Entries(r.base)
    BY <1>0 DEF Typed, SettingsNamed, Entries
  <2>2. s = Rebase(r.base, r.ours, r.base)
    BY <1>0
  <2> QED BY <2>1, <2>2, RebaseSame DEF Writes
<1>4. m.settings = [d.settings EXCEPT ![i] = r.ours]
  <2>1. CommitTo(d, o, i, m)
    BY <1>0, CommitFacts
  <2> QED BY <1>0, <1>3, <2>1 DEF CommitTo
<1>5. PICK no, yes : no = FALSE /\ yes = TRUE
  OBVIOUS
<1>6. RecInv(w) /\ Fields \subseteq DOMAIN w /\ StatTyped(w) /\ w.rec = d.rec
  BY <1>0, <1>2, SameRowsFacts DEF SameRows, StatTyped
<1> HIDE DEF w, s, m, r
<1>7. ASSUME NEW a, SameRows(w, a)
      PROVE  /\ Fields \subseteq DOMAIN a /\ RecInv(a) /\ a.rec = d.rec
             /\ \A e, x : Has(a, e, x) <=> Has(d, e, x)
             /\ \A e : HasRecord(a, e) <=> HasRecord(d, e)
  BY <1>6, <1>7, SameRowsFacts, SameHas DEF SameRows
<1>8. ASSUME NEW a, SameRows(w, a), NEW entries, Entries(entries), NEW detach, NEW prune \in BOOLEAN,
             m = SyncClients(a, i, entries, detach, prune)
      PROVE  HasTo(d, entries, m) /\ m.stat = a.stat
  <2>1. HasTo(a, entries, m)
    BY <1>7, <1>8, SyncHas
  <2>2. SyncTo(a, i, entries, detach, prune, m)
    BY <1>7, <1>8, SyncFacts, EntryFull DEF Entries
  <2> QED BY <1>7, <1>8, <2>1, <2>2 DEF HasTo, SyncTo
<1>9. ASSUME NEW a, NEW entries, RowTo(w, entries, a), NEW b, b.stat = a.stat
      PROVE  RowTo(d, entries, b)
  BY <1>2, <1>9 DEF RowTo
<1>10. CASE o.kind \in Adds
  <2>1. PICK a : a = AddStats(w, r.new) /\ RowTo(w, r.new, a) /\ SameRows(w, a)
    BY <1>6, <1>10, AddRow DEF Writes, r
  <2>2. m = SyncClients(a, i, r.new, {}, no)
    BY <1>1, <1>5, <1>10, <2>1 DEF ApplyDelta, Adds, Updates, Deletes
  <2>3. HasTo(d, r.new, m) /\ m.stat = a.stat
    BY <1>5, <1>8, <1>10, <2>1, <2>2 DEF Writes, r
  <2>4. RowTo(d, r.new, m)
    BY <1>9, <2>1, <2>3
  <2> QED BY <1>4, <1>10, <2>3, <2>4 DEF CommitVals, ToRecords, ToRows, Adds, Updates, m, r
<1>11. CASE o.kind \in Updates
  <2>0. PICK from, to : from = From(o) /\ to = Target(o)
    OBVIOUS
  <2>1. /\ DOMAIN r.new = {to} /\ Entries(r.new)
    BY <1>0, <1>11, <2>0 DEF ShareOk, Writes, r
  <2>2. c = to
    BY <2>1
  <2>3. r.new[to] \in Entry /\ r.new = Just(to, r.new[to])
    BY <2>1 DEF Entries, Just
  <2>4. PICK a : a = RenameStat(w, i, from, to, r.new[to]) /\ RowTo(w, r.new, a) /\ SameRows(w, a)
    BY <1>6, <2>3, RenameRow
  <2>5. PICK b : b = RenameRecord(a, from, to) /\ MovedTo(a, from, to, b)
    BY <1>7, <2>4, RenameHas
  <2>6. RecInv(b) /\ Fields \subseteq DOMAIN b /\ b.stat = a.stat
    <3>1. RecordTo(a, from, to, b)
      BY <1>7, <2>1, <2>4, <2>5, RecordFacts DEF Entries
    <3> QED BY <3>1 DEF RecordTo, SameSettings
  <2>7. PICK x : x = {from} \ {to}
    OBVIOUS
  <2>8. m = SyncClients(b, i, r.new, x, no)
    BY <1>1, <1>5, <1>11, <2>0, <2>2, <2>4, <2>5, <2>7 DEF ApplyDelta, Adds, Updates, Deletes
  <2>9. HasTo(b, r.new, m) /\ m.stat = b.stat
    <3>1. SyncTo(b, i, r.new, x, no, m)
      BY <1>5, <2>1, <2>6, <2>8, SyncFacts, EntryFull DEF Entries
    <3> QED BY <2>1, <2>6, <2>8, <3>1, SyncHas DEF SyncTo
  <2>10. ASSUME NEW e, NEW y, Has(m, e, y)
         PROVE  IF e \in DOMAIN r.new THEN y = r.new[e] ELSE Has(d, e, y)
    <3>1. CASE e \in DOMAIN r.new
      BY <2>9, <2>10, <3>1 DEF HasTo
    <3>2. CASE e \notin DOMAIN r.new
      <4>1. Has(b, e, y) /\ e # to
        BY <2>1, <2>9, <2>10, <3>2 DEF HasTo
      <4> QED BY <1>7, <2>4, <2>5, <3>2, <4>1 DEF MovedTo
    <3> QED BY <3>1, <3>2
  <2>10a. ASSUME NEW n \in DOMAIN m.rec
          PROVE  m.rec[n].email \in DOMAIN r.new \/ (n \in DOMAIN d.rec /\ m.rec[n].email = d.rec[n].email)
    <3>1. m.rec[n].email \in DOMAIN r.new \/ (n \in DOMAIN b.rec /\ m.rec[n].email = b.rec[n].email)
      BY <2>9 DEF HasTo
    <3> QED BY <1>7, <2>1, <2>4, <2>5, <3>1 DEF MovedTo
  <2>10b. HasTo(d, r.new, m)
    BY <2>10, <2>10a DEF HasTo
  <2>11. RowTo(d, r.new, m)
    BY <1>9, <2>4, <2>6, <2>9
  <2>12. ASSUME from # to, HasRecord(d, from) => ~HasRecord(d, to) PROVE ~HasRecord(m, from)
    <3>1. ~HasRecord(b, from)
      BY <1>7, <2>4, <2>5, <2>12 DEF MovedTo
    <3>2. ASSUME HasRecord(m, from) PROVE FALSE
      <4>1. PICK n \in DOMAIN m.rec : m.rec[n].email = from
        BY <3>2 DEF HasRecord, IdsOf
      <4>2. Has(m, from, EntryOf(m, n))
        BY <4>1 DEF Has
      <4>3. Has(b, from, EntryOf(m, n))
        BY <2>1, <2>9, <2>12, <4>2 DEF HasTo
      <4> QED BY <2>6, <3>1, <4>3, HasEmail
    <3> QED BY <3>2
  <2> QED BY <1>4, <1>11, <2>0, <2>10b, <2>11, <2>12 DEF CommitVals, ToRecords, ToRows, m, r
<1>12. CASE o.kind \in Deletes
  <2>1. PICK a : a = DelStats(w, r.drop) /\ RowTo(w, Empty, a) /\ SameRows(w, a)
    BY <1>6, DelRow
  <2>2. m = SyncClients(a, i, Empty, DOMAIN r.new, no)
    BY <1>1, <1>5, <1>12, <2>1 DEF ApplyDelta, Adds, Updates, Deletes
  <2>3. HasTo(d, Empty, m) /\ m.stat = a.stat
    BY <1>5, <1>8, <2>1, <2>2, EmptyEntries
  <2>4. RowTo(d, Empty, m)
    BY <1>9, <2>1, <2>3
  <2> QED BY <1>4, <1>12, <2>3, <2>4 DEF CommitVals, ToRecords, ToRows, Adds, Updates, Deletes, m, r
<1>13. CASE o.kind \notin Adds \cup Updates \cup Deletes
  <2>1. m = SyncClients(w, i, s, {}, yes)
    BY <1>1, <1>5, <1>13 DEF SyncInbound
  <2>2. SameRows(w, w)
    BY <1>6 DEF SameRows
  <2>3. HasTo(d, r.ours, m) /\ m.stat = w.stat
    BY <1>3, <1>5, <1>8, <2>1, <2>2 DEF Writes, r
  <2>4. RowTo(w, Empty, w)
    BY <1>6, EmptyEntries DEF RowTo, StatTyped
  <2>5. RowTo(d, Empty, m)
    BY <1>9, <2>3, <2>4
  <2> QED BY <1>4, <1>13, <2>3, <2>5 DEF CommitVals, ToRecords, ToRows, m, r
<1> QED BY <1>10, <1>11, <1>12, <1>13

----------------------------------------------------------------------------
(***************************************************************************)
(* What a request must keep.                                               *)
(***************************************************************************)

\* Records stay, and with them the credentials of the clients.
CredsStay(d, m) ==
    /\ \A e : HasRecord(d, e) => HasRecord(m, e)
    /\ \A f \in Emails, v \in Entry : Has(m, f, v) => \E w \in Entry : Has(d, f, w) /\ w.cred = v.cred

LEMMA SharedStays ==
  ASSUME NEW d, NEW m, NEW o, SharedOk(d, o), CredsStay(d, m)
  PROVE  SharedOk(m, o)
BY DEF SharedOk, CredsStay

LEMMA BaseStays ==
  ASSUME NEW d, NEW m, NEW o, NEW i, BaseOk(d, o, i), i \in Live(m), m.settings[i] = d.settings[i]
  PROVE  BaseOk(m, o, i)
BY DEF BaseOk

\* A step of one request.
LEMMA OneAgree ==
  ASSUME LockInv, MemInv, AgreeInv, NEW p \in Procs, p \in workload.procs,
         NEW k, op' = [op EXCEPT ![p] = k], workload' = workload, Typed(db'), Unique(db'), LinksLive(db'),
         k # Empty => OpOk(db', k),
         Single /\ k = Empty => AllAgree(db'),
         ~Single => AllAgree(db') /\ Live(db') \subseteq Live(db) /\ CredsStay(db, db'),
         \A q \in Procs \ {p}, i \in Inbounds : Busy(op[q], i) => i \in Live(db') /\ db'.settings[i] = db.settings[i]
  PROVE  AgreeInv'
<1>1. DOMAIN op = Procs /\ (Single' <=> Single)
  BY DEF LockInv, Single
<1>2. ASSUME NEW q \in Procs, op'[q] # Empty PROVE OpOk(db, op[q])' 
  <2>1. CASE q = p
    <3>1. op'[q] = k
      BY <1>1, <2>1
    <3>2. OpOk(db', k)
      BY <1>2, <3>1
    <3> QED BY <1>1, <3>1, <3>2 DEF OpOk, Single
  <2>2. CASE q # p
    <3>1. op'[q] = op[q] /\ op[q] # Empty
      BY <1>1, <1>2, <2>2
    <3>2. ~Single
      BY <2>2, <3>1 DEF MemInv, Single
    <3>3. OpOk(db, op[q])
      BY <3>1 DEF AgreeInv
    <3>4. SharedOk(db', op[q])
      BY <3>2, <3>3, SharedStays DEF OpOk
    <3>5. \A i \in Inbounds : op[q].run[i] # Empty => BaseOk(db', op[q], i)
      BY <2>2, <3>1, <3>3, BaseStays DEF OpOk, Busy
    <3>6. OpOk(db', op[q])
      BY <3>2, <3>3, <3>4, <3>5 DEF OpOk
    <3> QED BY <1>1, <3>1, <3>6 DEF OpOk, Single
  <2> QED BY <2>1, <2>2
<1>3. Single' /\ (\A q \in Procs : op'[q] = Empty) => AllAgree(db')
  <2> SUFFICES ASSUME Single', \A q \in Procs : op'[q] = Empty PROVE AllAgree(db')
    OBVIOUS
  <2>1. op'[p] = k
    BY <1>1
  <2> QED BY <1>1, <2>1
<1>4. ~Single' => AllAgree(db') /\ \A i, j \in Live(db') : i = j
  BY <1>1 DEF AgreeInv
<1>5. Typed(db') /\ Unique(db') /\ LinksLive(db')
  OBVIOUS
<1> QED BY <1>2, <1>3, <1>4, <1>5 DEF AgreeInv

LEMMA CredsSame ==
  ASSUME NEW d, NEW m, m.rec = d.rec
  PROVE  CredsStay(d, m)
BY SameHas DEF CredsStay

\* A step of one request that writes nothing.
LEMMA OneReads ==
  ASSUME LockInv, MemInv, AgreeInv, NEW p \in Procs, p \in workload.procs,
         NEW k, op' = [op EXCEPT ![p] = k], workload' = workload, UNCHANGED db,
         k # Empty => OpOk(db, k), Single /\ k = Empty => AllAgree(db)
  PROVE  AgreeInv'
<1>1. Typed(db') /\ Unique(db') /\ LinksLive(db') /\ (~Single => AllAgree(db'))
  BY DEF AgreeInv
<1>2. Live(db') \subseteq Live(db) /\ CredsStay(db, db')
  BY CredsSame
<1>3. ASSUME NEW q \in Procs \ {p}, NEW i \in Inbounds, Busy(op[q], i) PROVE i \in Live(db')
  <2>1. OpOk(db, op[q]) /\ op[q].run[i] # Empty
    BY <1>3 DEF AgreeInv, Busy
  <2> QED BY <2>1 DEF OpOk, BaseOk
<1>4. k # Empty => OpOk(db', k)
  OBVIOUS
<1>5. Single /\ k = Empty => AllAgree(db')
  OBVIOUS
<1> QED BY <1>1, <1>2, <1>3, <1>4, <1>5, OneAgree

----------------------------------------------------------------------------
(***************************************************************************)
(* The lists shares write.                                                 *)
(***************************************************************************)

LEMMA ListTyped ==
  ASSUME NEW o, NEW i \in Inbounds, LoadTyped(o), NEW base, Entries(base)
  PROVE  Entries(List(o, i, base))
<1> DEFINE E == DOMAIN o.load[i]
           s == List(o, i, base)
<1>1. CASE o.kind \in Adds
  <2>1. s = Over(base, Without(o.load[i], DOMAIN base))
    BY <1>1 DEF List, Adds, Updates, Edits
  <2>2. Entries(o.load[i])
    BY <1>1 DEF LoadTyped
  <2> QED BY <2>1, <2>2 DEF Entries, Over, Without
<1>2. CASE o.kind \in Updates
  <2>1. s = Over(o.load[i], Without(base, {From(o)}))
    BY <1>2 DEF List, Adds, Updates, Edits
  <2>2. Entries(o.load[i])
    BY <1>2 DEF LoadTyped
  <2> QED BY <2>1, <2>2 DEF Entries, Over, Without
<1>3. CASE o.kind \in Edits
  <2>1. s = [e \in DOMAIN base |-> IF e \in E THEN [base[e] EXCEPT ![o.field] = o.load[i][e]] ELSE base[e]]
    BY <1>3 DEF List, Adds, Updates, Edits
  <2>2. ASSUME NEW e \in DOMAIN base, e \in E PROVE [base[e] EXCEPT ![o.field] = o.load[i][e]] \in Entry
    <3>1. base[e] \in Entry
      BY DEF Entries
    <3>2. \/ o.field = "on" /\ o.load[i][e] \in BOOLEAN
          \/ o.field = "lim" /\ o.load[i][e] \in Nat
      BY <1>3, <2>2 DEF LoadTyped
    <3> QED BY <3>1, <3>2 DEF Entry
  <2>3. \A e \in DOMAIN s : s[e] \in Entry
    BY <2>1, <2>2 DEF Entries
  <2> QED BY <2>1, <2>3 DEF Entries
<1>4. CASE o.kind \notin Adds \cup Updates \cup Edits
  <2>1. s = Without(base, E)
    BY <1>4 DEF List
  <2> QED BY <2>1 DEF Entries, Without
<1> QED BY <1>1, <1>2, <1>3, <1>4

LEMMA CompactAll ==
  ASSUME NEW d, NEW s, Entries(s), \A e \in DOMAIN s : HasRecord(d, e)
  PROVE  CompactOrphans(d, s) = s
<1>1. {e \in DOMAIN s : ~HasRecord(d, e)} = {}
  OBVIOUS
<1>2. CompactOrphans(d, s) = [x \in DOMAIN s |-> s[x]]
  BY <1>1 DEF CompactOrphans, Without
<1> QED BY <1>2 DEF Entries

\* A share that reads writes its list.
LEMMA OursList ==
  ASSUME NEW d, NEW o, NEW i \in Live(d), LoadTyped(o), Entries(d.settings[i]),
         o.kind \notin Updates => \A e \in DOMAIN d.settings[i] : HasRecord(d, e)
  PROVE  Ours(d, o, i) = List(o, i, d.settings[i])
<1>1. PICK base : base = d.settings[i]
  OBVIOUS
<1>2. CASE o.kind \in Adds
  <2>1. CompactOrphans(d, base) = base
    BY <1>1, <1>2, CompactAll DEF Adds, Updates
  <2> QED BY <1>1, <1>2, <2>1 DEF Ours, List, Adds, Updates, Edits
<1>3. CASE o.kind \in Updates
  BY <1>3 DEF Ours, List, Adds, Updates, Edits
<1>4. CASE o.kind \in Edits
  BY <1>4 DEF Ours, List, Adds, Updates, Edits
<1>5. CASE o.kind \notin Adds \cup Updates \cup Edits
  <2>1. PICK s : s = Without(base, DOMAIN o.load[i])
    OBVIOUS
  <2>2. Entries(s) /\ \A e \in DOMAIN s : HasRecord(d, e)
    BY <1>1, <1>5, <2>1 DEF Entries, Without
  <2>3. CompactOrphans(d, s) = s
    BY <2>2, CompactAll
  <2> QED BY <1>1, <1>5, <2>1, <2>3 DEF Ours, List
<1> QED BY <1>2, <1>3, <1>4, <1>5

----------------------------------------------------------------------------
(***************************************************************************)
(* A share reads its inbound.                                              *)
(***************************************************************************)

\* Who is in the settings has a record, but for a client that is being renamed.
LEMMA SettingsHave ==
  ASSUME NEW d, NEW o, RowsOk(d, o), ~Renames(o), NEW i \in Live(d), NEW e \in DOMAIN d.settings[i]
  PROVE  HasRecord(d, e)
<1>1. Linked(d)
  BY DEF RowsOk, Plain, ErasingOk
<1>2. e \in NamesAt(d, i)
  BY <1>1 DEF Linked
<1> QED BY <1>2 DEF NamesAt, HasRecord, IdsOf

LEMMA SettingsTyped ==
  ASSUME NEW d, Typed(d), SettingsNamed(d), NEW i \in Live(d)
  PROVE  Entries(d.settings[i])
BY DEF Typed, SettingsNamed, Entries

\* The same request, further on: what SameReq leaves open.
ReadMore(d, o, i, k) ==
    /\ k.field = o.field /\ k.depleted = o.depleted
    /\ (~Refused(d, o, i) => k.failed = o.failed \cup Missing(d, o, i))

LEMMA ReadMoreFacts ==
  ASSUME NEW d, NEW o, ReqShape(o), NEW i \in o.todo
  PROVE  ReadMore(d, o, i, AfterRead(d, o, i))
<1> DEFINE rest == [o EXCEPT !.todo = @ \ {i}]
           x == IF NothingToDo(d, o, i) THEN Empty
                ELSE [base |-> d.settings[i], ours |-> Ours(d, o, i),
                      new |-> Changed(d, o, i), drop |-> Dropped(d, o, i)]
<1>1. CASE Refused(d, o, i)
  <2>1. PICK k : k = AfterRead(d, o, i) /\ k = [rest EXCEPT !.failed = @ \cup DOMAIN o.load[i]]
    BY <1>1 DEF AfterRead
  <2>2. k.field = o.field /\ k.depleted = o.depleted
    BY <2>1 DEF ReqShape
  <2> QED BY <1>1, <2>1, <2>2 DEF ReadMore
<1>2. CASE ~Refused(d, o, i)
  <2>1. PICK k : /\ k = AfterRead(d, o, i)
                 /\ k = [rest EXCEPT !.failed = @ \cup Missing(d, o, i), !.run[i] = x]
    BY <1>2 DEF AfterRead
  <2> HIDE DEF x
  <2>2. k.field = o.field /\ k.depleted = o.depleted /\ k.failed = o.failed \cup Missing(d, o, i)
    BY <2>1 DEF ReqShape
  <2> QED BY <1>2, <2>1, <2>2 DEF ReadMore
<1> QED BY <1>1, <1>2

\* The rest of the request is the same and its shares wait as before, but for i.
GoesOn(o, i, k) ==
    /\ SameReq(o, k) /\ k.field = o.field
    /\ \A j \in Inbounds \ {i} : k.run[j] = o.run[j] /\ (Waits(k, j) <=> Waits(o, j))

LEMMA CheckGoesOn ==
  ASSUME NEW o, NEW i, NEW k, GoesOn(o, i, k), k.depleted = o.depleted, Waits(o, i), Checked(o)
  PROVE  Checked(k)
BY DEF Checked, GoesOn, SameReq

LEMMA AddsGoOn ==
  ASSUME NEW d, NEW o, NEW k, SameReq(o, k), AddsOk(d, o)
  PROVE  AddsOk(d, k)
BY DEF AddsOk, Fits, SameReq

LEMMA SharedGoesOn ==
  ASSUME NEW d, NEW o, NEW k, SameReq(o, k), SharedOk(d, o)
  PROVE  SharedOk(d, k)
BY DEF SharedOk, SameReq

LEMMA EditsGoOn ==
  ASSUME NEW d, NEW o, NEW i, NEW k, EditsOk(d, o), GoesOn(o, i, k), k.failed = {},
         i \in Live(d) => \A e \in o.emails \cap DOMAIN d.settings[i] : Waits(k, i) \/ EditedAt(d, o, i, e)
  PROVE  EditsOk(d, k)
<1>1. k.kind = o.kind /\ k.load = o.load /\ k.emails = o.emails /\ k.payload = o.payload /\ k.field = o.field
  BY DEF GoesOn, SameReq
<1>2. \A e : Value(k, e) = Value(o, e)
  BY <1>1 DEF Value
<1>3. \A j, e : EditedAt(d, o, j, e) <=> EditedAt(d, k, j, e)
  BY <1>1, <1>2 DEF EditedAt
<1>4. ASSUME NEW j \in Live(d), NEW e \in k.emails \cap DOMAIN d.settings[j]
      PROVE  e \in DOMAIN k.load[j] /\ (Waits(k, j) \/ EditedAt(d, k, j, e))
  <2>1. e \in DOMAIN o.load[j] /\ (Waits(o, j) \/ EditedAt(d, o, j, e))
    BY <1>1, <1>4 DEF EditsOk
  <2>2. CASE j = i
    BY <1>1, <1>3, <1>4, <2>1, <2>2
  <2>3. CASE j # i
    BY <1>1, <1>3, <2>1, <2>3 DEF GoesOn, Live
  <2> QED BY <2>2, <2>3
<1> QED BY <1>1, <1>2, <1>4 DEF EditsOk

LEMMA UpdatesGoOn ==
  ASSUME NEW d, NEW o, NEW i, NEW k, GoesOn(o, i, k), NEW want, UpdatesTo(d, o, want),
         i \in Inbounds /\ DOMAIN o.load[i] # {} => WrittenAt(d, k, i, want)
  PROVE  UpdatesTo(d, k, want)
<1>1. /\ k.kind = o.kind /\ k.load = o.load /\ k.emails = o.emails /\ k.payload = o.payload /\ k.ids = o.ids
      /\ From(k) = From(o) /\ Target(k) = Target(o)
  BY SameReqFacts DEF GoesOn, SameReq
<1>2. ASSUME NEW j \in Inbounds, DOMAIN k.load[j] # {} PROVE WrittenAt(d, k, j, want)
  <2>1. CASE j = i
    BY <1>1, <1>2, <2>1
  <2>2. CASE j # i
    <3>1. WrittenAt(d, o, j, want)
      BY <1>1, <1>2 DEF UpdatesTo
    <3>2. Waits(k, j) <=> Waits(o, j)
      BY <2>2 DEF GoesOn
    <3> QED BY <1>1, <3>1, <3>2 DEF WrittenAt
  <2> QED BY <2>1, <2>2
<1> QED BY <1>1, <1>2 DEF UpdatesTo

\* A share has nothing to write where everything is as it should be.
LEMMA ReadEdits ==
  ASSUME NEW v, NEW d, NEW o, NEW i \in o.todo, i \in Inbounds, ReqOk(v, o), o.kind \in Edits, EditsOk(d, o),
         Typed(d), NEW k, ReadTo(d, o, i, k), ReadMore(d, o, i, k), GoesOn(o, i, k)
  PROVE  EditsOk(d, k)
<1>1. PICK x : x \in DOMAIN o.load[i]
  BY DEF ReqOk
<1>2. i \in Live(d) /\ \A e \in DOMAIN o.load[i] : e \in DOMAIN d.settings[i] /\ o.load[i][e] = Value(o, e)
  BY <1>1 DEF EditsOk
<1>3. ~Refused(d, o, i)
  BY <1>2 DEF Refused, Adds, Updates, Edits
<1>4. Missing(d, o, i) = {} /\ k.failed = {}
  <2>1. Missing(d, o, i) = {}
    BY <1>2 DEF Missing
  <2> QED BY <1>3, <2>1 DEF ReadMore, EditsOk
<1>5. ASSUME NEW e \in o.emails \cap DOMAIN d.settings[i], ~Waits(k, i) PROVE EditedAt(d, o, i, e)
  <2>1. NothingToDo(d, o, i)
    <3>1. k.run[i] = Empty
      BY <1>5 DEF Waits
    <3> QED BY <1>3, <3>1, SomeShare DEF ReadTo
  <2>2. o.kind = "enable"
    <3>1. CASE o.kind = "adjust"
      <4>1. DOMAIN o.load[i] \cap DOMAIN d.settings[i] = {}
        BY <2>1, <3>1 DEF NothingToDo, Adds, Updates, Deletes
      <4> QED BY <1>1, <1>2, <4>1
    <3> QED BY <3>1 DEF Edits
  <2>3. Ours(d, o, i) = d.settings[i] /\ o.field = "on"
    BY <2>1, <2>2 DEF NothingToDo, Adds, Updates, Deletes, EditsOk
  <2>4. Ours(d, o, i)[e] = IF e \in DOMAIN o.load[i] THEN [d.settings[i][e] EXCEPT ![o.field] = o.load[i][e]]
                           ELSE d.settings[i][e]
    BY <2>2 DEF Ours, Adds, Updates, Edits
  <2>5. e \in DOMAIN o.load[i] /\ o.load[i][e] = Value(o, e)
    BY <1>2 DEF EditsOk
  <2>6. d.settings[i][e] \in Entry
    BY <1>2 DEF Typed
  <2>7. d.settings[i][e].on = Value(o, e)
    BY <2>3, <2>4, <2>5, <2>6 DEF Entry
  <2> QED BY <2>2, <2>3, <2>7 DEF EditedAt
<1> QED BY <1>4, <1>5, EditsGoOn

LEMMA ReadUpdates ==
  ASSUME NEW v, NEW d, NEW o, NEW i \in o.todo, i \in Inbounds, ReqOk(v, o), o.kind \in Updates,
         UpdatesOk(d, o), Typed(d), NEW k, ReadTo(d, o, i, k), ReadMore(d, o, i, k), GoesOn(o, i, k)
  PROVE  UpdatesOk(d, k)
<1>1. PICK want \in Entry : UpdatesTo(d, o, want)
  BY DEF UpdatesOk
<1>2. DOMAIN o.load[i] # {}
  BY DEF ReqOk
<1>3. PICK from, to : from = From(o) /\ to = Target(o)
  OBVIOUS
<1>4. i \in Live(d) /\ o.load[i] = Just(to, want) /\ from \in DOMAIN d.settings[i]
  BY <1>1, <1>2, <1>3 DEF UpdatesTo, WrittenAt, Waits
<1>5. DOMAIN o.load[i] = {to} /\ o.load[i][to] = want
  BY <1>4 DEF Just
<1>6. ~Refused(d, o, i)
  <2>1. ASSUME from \notin DOMAIN o.load[i], EmailsExist(d, o.load[i]) PROVE FALSE
    <3>1. PICK n \in DOMAIN d.rec : d.rec[n].email = to /\ d.rec[n].cred # want.cred
      BY <1>5, <2>1 DEF EmailsExist, IdsOf
    <3>2. from # to /\ HasRecord(d, to)
      BY <1>5, <2>1, <3>1 DEF HasRecord, IdsOf
    <3>3. DoneTo(d, from, to, want)
      BY <1>1, <1>3, <3>2 DEF UpdatesTo
    <3>4. Has(d, to, EntryOf(d, n)) /\ EntryOf(d, n).cred # want.cred
      BY <3>1 DEF Has, EntryOf
    <3> QED BY <3>3, <3>4, HasTyped DEF DoneTo
  <2> QED BY <1>3, <1>4, <2>1 DEF Refused, Adds, Updates
<1>7. k.failed = {}
  BY <1>6 DEF ReadMore, Missing, Updates, Edits, UpdatesOk
<1>8. /\ From(k) = from /\ Target(k) = to /\ k.load = o.load
  BY <1>3, SameReqFacts DEF GoesOn, SameReq
<1>9. WrittenAt(d, k, i, want)
  <2>1. CASE Waits(k, i)
    BY <1>4, <1>8, <2>1 DEF WrittenAt
  <2>2. CASE ~Waits(k, i)
    <3>1. NothingToDo(d, o, i)
      <4>1. k.run[i] = Empty
        BY <2>2 DEF Waits
      <4> QED BY <1>6, <4>1, SomeShare DEF ReadTo
    <3>2. Ours(d, o, i) = d.settings[i]
      BY <3>1 DEF NothingToDo, Adds, Updates, Deletes
    <3>3. Ours(d, o, i) = Over(o.load[i], Without(d.settings[i], {From(o)}))
      BY DEF Ours, Adds, Updates, Edits
    <3>4. to \in DOMAIN d.settings[i] /\ d.settings[i][to] = want
      BY <1>5, <3>2, <3>3 DEF Over
    <3> QED BY <1>4, <1>8, <2>2, <3>4 DEF WrittenAt
  <2> QED BY <2>1, <2>2
<1>10. UpdatesTo(d, k, want)
  BY <1>1, <1>9, UpdatesGoOn
<1> QED BY <1>1, <1>7, <1>10 DEF UpdatesOk, GoesOn, SameReq

LEMMA ReadAgree ==
  ASSUME LockInv, MemInv, AgreeInv, NEW p \in Procs, p \in workload.procs, NEW i \in Inbounds, ApplyRead(p, i)
  PROVE  AgreeInv'
<1>0. /\ op[p] # Empty /\ i \in op[p].todo /\ Unlocked(i) /\ UNCHANGED <<db, workload>>
      /\ op' = [op EXCEPT ![p] = AfterRead(db, op[p], i)]
  BY DEF ApplyRead
<1>1. PICK o : o = op[p]
  OBVIOUS
<1>2. /\ Shape(db) /\ ReqShape(o) /\ o.run[i] = Empty /\ RecInv(db) /\ SettingsNamed(db)
      /\ ReqOk(workload, o) /\ RowsOk(db, o) /\ Typed(db) /\ OpOk(db, o)
  BY <1>0, <1>1 DEF LockInv, Serves, Unlocked, MemInv, AgreeInv
<1>3. PICK k : k = AfterRead(db, o, i) /\ ReadTo(db, o, i, k) /\ ReadMore(db, o, i, k)
  BY <1>0, <1>1, <1>2, ReadFacts, ReadMoreFacts
<1>4. GoesOn(o, i, k)
  BY <1>3 DEF GoesOn, ReadTo, ReadMore, Waits
<1>5. k.kind = o.kind /\ k.load = o.load /\ k.field = o.field /\ From(k) = From(o)
  BY <1>4, SameReqFacts DEF GoesOn, SameReq
<1>6. LoadTyped(k)
  BY <1>2, <1>5 DEF LoadTyped, OpOk
<1>7. ASSUME NEW j, NEW base PROVE List(k, j, base) = List(o, j, base)
  BY <1>5 DEF List
<1>8. ASSUME NEW j \in Inbounds, k.run[j] # Empty PROVE BaseOk(db, k, j)
  <2>1. CASE j # i \/ Refused(db, o, i)
    <3>1. k.run[j] = o.run[j]
      BY <1>2, <1>3, <1>8, <2>1 DEF ReadTo
    <3>2. BaseOk(db, o, j)
      BY <1>2, <1>8, <3>1 DEF OpOk
    <3> QED BY <1>5, <1>7, <3>1, <3>2 DEF BaseOk
  <2>2. CASE j = i /\ ~Refused(db, o, i)
    <3>1. k.run[i] = [base |-> db.settings[i], ours |-> Ours(db, o, i),
                      new |-> Changed(db, o, i), drop |-> Dropped(db, o, i)]
      BY <1>3, <1>8, <2>2 DEF ReadTo
    <3>2. i \in Live(db)
      BY <2>2 DEF Refused
    <3>3. Entries(db.settings[i])
      BY <1>2, <3>2, SettingsTyped
    <3>4. Ours(db, o, i) = List(o, i, db.settings[i])
      <4>1. o.kind \notin Updates => \A e \in DOMAIN db.settings[i] : HasRecord(db, e)
        BY <1>2, <3>2, SettingsHave DEF Renames, Updates
      <4> QED BY <1>2, <3>2, <3>3, <4>1, OursList DEF OpOk
    <3>5. /\ o.kind \in Adds => Changed(db, o, i) = Without(o.load[i], DOMAIN db.settings[i])
          /\ o.kind \in Updates => Changed(db, o, i) = o.load[i]
      BY DEF Changed, Adds, Updates, Deletes
    <3> QED BY <1>5, <1>7, <2>2, <3>1, <3>2, <3>4, <3>5 DEF BaseOk
  <2> QED BY <2>1, <2>2
<1>9. Single => AloneOk(db, k)
  <2> SUFFICES ASSUME Single PROVE AloneOk(db, k)
    OBVIOUS
  <2>1. AloneOk(db, o)
    BY <1>2 DEF OpOk
  <2>2. o.kind \in Adds => AddsOk(db, k)
    BY <1>4, <2>1, AddsGoOn DEF AloneOk, GoesOn
  <2>3. o.kind \in Edits => EditsOk(db, k)
    BY <1>0, <1>1, <1>2, <1>3, <1>4, <2>1, ReadEdits DEF AloneOk
  <2>4. o.kind \in Updates => UpdatesOk(db, k)
    BY <1>0, <1>1, <1>2, <1>3, <1>4, <2>1, ReadUpdates DEF AloneOk
  <2> QED BY <1>5, <2>1, <2>2, <2>3, <2>4 DEF AloneOk
<1>10. ~Single => SharedOk(db, k)
  BY <1>2, <1>4, SharedGoesOn DEF OpOk, GoesOn
<1>11. OpOk(db, k)
  <2>1. Checked(k)
    BY <1>0, <1>1, <1>2, <1>3, <1>4, CheckGoesOn DEF OpOk, ReadMore, Waits
  <2> QED BY <1>6, <1>8, <1>9, <1>10, <2>1 DEF OpOk
<1>12. k # Empty
  <2>1. Serves(db, k)
    BY <1>0, <1>1, <1>3, ReadServes DEF LockInv
  <2> QED BY <2>1, RequestSome DEF Serves
<1> QED BY <1>0, <1>1, <1>3, <1>11, <1>12, OneReads

----------------------------------------------------------------------------
(***************************************************************************)
(* A share is committed.                                                   *)
(***************************************************************************)

\* What a commit on i has written.
Landed(d, o, i, m) ==
    /\ i \in Live(d) /\ Live(m) = Live(d) /\ Writes(d, o, i)
    /\ m.settings[i] = o.run[i].ours /\ \A j \in Live(d) \ {i} : m.settings[j] = d.settings[j]
    /\ HasTo(d, ToRecords(o, o.run[i]), m) /\ RowTo(d, ToRows(o, o.run[i]), m)

LEMMA ListIsNotNone ==
  ASSUME NEW s, Entries(s)
  PROVE  s # None
BY ClientStoreAssumption DEF Entries, Entry

LEMMA ShareWrites ==
  ASSUME NEW v, NEW d, NEW o, NEW i \in Inbounds, ReqOk(v, o), LoadTyped(o), Typed(d), SettingsNamed(d),
         BaseOk(d, o, i)
  PROVE  Writes(d, o, i)
<1>1. Entries(d.settings[i])
  BY SettingsTyped DEF BaseOk
<1>2. Entries(o.run[i].ours)
  BY <1>1, ListTyped DEF BaseOk
<1>3. o.kind \in Adds \cup Updates => Entries(o.run[i].new)
  <2>1. CASE o.kind \in Adds
    <3>1. o.run[i].new = Without(o.load[i], DOMAIN o.run[i].base) /\ Entries(o.load[i])
      BY <2>1 DEF BaseOk, LoadTyped
    <3> QED BY <3>1 DEF Entries, Without
  <2>2. CASE o.kind \in Updates
    BY <2>2 DEF BaseOk, LoadTyped
  <2> QED BY <2>1, <2>2
<1> QED BY <1>2, <1>3 DEF Writes

LEMMA CommitLands ==
  ASSUME NEW d, Shape(d), NEW o, NEW i \in Inbounds, Writes(d, o, i), NEW m, CommitVals(d, o, i, m)
  PROVE  Landed(d, o, i, m)
<1>1. i \in Live(d) /\ DOMAIN d.settings = Inbounds
  BY DEF Writes, BaseOk, Shape
<1>2. m.settings = [d.settings EXCEPT ![i] = o.run[i].ours]
  BY DEF CommitVals
<1>3. o.run[i].ours # None
  BY ListIsNotNone DEF Writes
<1>4. m.settings[i] = o.run[i].ours /\ \A j \in Inbounds \ {i} : m.settings[j] = d.settings[j]
  BY <1>1, <1>2
<1>5. Live(m) = Live(d)
  BY <1>1, <1>3, <1>4 DEF Live
<1> QED BY <1>1, <1>4, <1>5 DEF Landed, CommitVals, Live

LEMMA LandedTyped ==
  ASSUME NEW d, NEW o, NEW i, NEW m, Landed(d, o, i, m), Typed(d)
  PROVE  Typed(m)
<1>1. ASSUME NEW j \in Live(m) PROVE m.settings[j] \in [DOMAIN m.settings[j] -> Entry]
  BY <1>1 DEF Landed, Typed, Writes, Entries
<1>2. ASSUME NEW n \in DOMAIN m.rec PROVE EntryOf(m, n) \in Entry
  <2>1. PICK e, v : Has(m, e, v) /\ v = EntryOf(m, n)
    BY <1>2 DEF Has
  <2>2. PICK s : s = ToRecords(o, o.run[i])
    OBVIOUS
  <2>3. IF e \in DOMAIN s THEN v = s[e] ELSE Has(d, e, v)
    BY <2>1, <2>2 DEF Landed, HasTo
  <2>4. Entries(s)
    BY <2>2, EmptyEntries DEF ToRecords, Landed, Writes
  <2>5. \A x \in DOMAIN s : s[x] \in Entry
    BY <2>4 DEF Entries
  <2> QED BY <2>1, <2>3, <2>5, HasTyped
<1>3. m.stat \in [DOMAIN m.stat -> [on : BOOLEAN, lim : Nat, used : {0}]]
  BY DEF Landed, RowTo
<1> QED BY <1>1, <1>2, <1>3 DEF Typed

LEMMA SameAll ==
  ASSUME NEW a \in Entry, NEW b \in Entry, Same(a, b, {})
  PROVE  a = b
BY DEF Same, Entry

LEMMA SameRefl ==
  ASSUME NEW a, NEW X
  PROVE  Same(a, a, X)
BY DEF Same

\* The records are as the settings say.
LEMMA AllAgreeSays ==
  ASSUME NEW d, Typed(d), AllAgree(d), NEW i \in Live(d), NEW e \in DOMAIN d.settings[i], NEW v, Has(d, e, v)
  PROVE  d.settings[i][e] = v /\ (e \in DOMAIN d.stat => SameRow(d.stat[e], v, {}))
<1>1. v \in Entry /\ d.settings[i][e] \in Entry
  BY HasTyped DEF Typed
<1>2. AgreeAt(d, i, e, {})
  <2>1. (IF e \in {} THEN {} ELSE {}) = {}
    OBVIOUS
  <2> QED BY <2>1 DEF AllAgree, Agree
<1> QED BY <1>1, <1>2, SameAll DEF AgreeAt

LEMMA AllAgreeIs ==
  ASSUME NEW d,
         \A i \in Live(d) : \A e \in DOMAIN d.settings[i], v \in Entry : Has(d, e, v) =>
           d.settings[i][e] = v /\ (e \in DOMAIN d.stat => SameRow(d.stat[e], v, {}))
  PROVE  AllAgree(d)
<1> SUFFICES ASSUME NEW i \in Live(d), NEW e \in DOMAIN d.settings[i]
             PROVE  AgreeAt(d, i, e, IF e \in {} THEN {} ELSE {})
  BY DEF AllAgree, Agree
<1>1. AgreeAt(d, i, e, {})
  BY SameRefl DEF AgreeAt
<1> QED BY <1>1

\* A commit after which everybody has the record, the settings and the traffic row
\* there were before, or none.
Sheds(d, i, m) ==
    /\ Live(m) = Live(d) /\ \A j \in Live(d) \ {i} : m.settings[j] = d.settings[j]
    /\ i \in Live(d) => \A e \in DOMAIN m.settings[i] :
         e \in DOMAIN d.settings[i] /\ m.settings[i][e] = d.settings[i][e]
    /\ \A e, v : Has(m, e, v) => Has(d, e, v)
    /\ \A e \in DOMAIN m.stat : e \in DOMAIN d.stat /\ m.stat[e] = d.stat[e]

LEMMA ShedAgree ==
  ASSUME NEW d, NEW i, NEW m, Sheds(d, i, m), Typed(d), AllAgree(d), Unique(d)
  PROVE  AllAgree(m) /\ Unique(m)
<1>1. ASSUME NEW j \in Live(m), NEW e \in DOMAIN m.settings[j], NEW v \in Entry, Has(m, e, v)
      PROVE  m.settings[j][e] = v /\ (e \in DOMAIN m.stat => SameRow(m.stat[e], v, {}))
  <2>1. j \in Live(d) /\ e \in DOMAIN d.settings[j] /\ m.settings[j][e] = d.settings[j][e] /\ Has(d, e, v)
    <3>1. CASE j = i
      BY <1>1, <3>1 DEF Sheds
    <3>2. CASE j # i
      BY <1>1, <3>2 DEF Sheds
    <3> QED BY <3>1, <3>2
  <2>2. d.settings[j][e] = v /\ (e \in DOMAIN d.stat => SameRow(d.stat[e], v, {}))
    BY <2>1, AllAgreeSays
  <2> QED BY <2>1, <2>2 DEF Sheds
<1>2. Unique(m)
  BY DEF Unique, Sheds
<1> QED BY <1>1, <1>2, AllAgreeIs

\* A delete sheds.
LEMMA DeleteSheds ==
  ASSUME NEW d, NEW o, NEW i, NEW m, Landed(d, o, i, m), o.kind \notin Adds \cup Updates \cup Edits,
         Typed(d), AllAgree(d), \A e \in DOMAIN d.settings[i] : HasRecord(d, e)
  PROVE  Sheds(d, i, m)
<1>1. m.settings[i] = Without(d.settings[i], DOMAIN o.load[i]) /\ i \in Live(d)
  BY DEF Landed, Writes, BaseOk, List
<1>2. ASSUME NEW e \in DOMAIN m.settings[i]
      PROVE  e \in DOMAIN d.settings[i] /\ m.settings[i][e] = d.settings[i][e]
  BY <1>1 DEF Without
<1>3. ASSUME NEW e, NEW v, Has(m, e, v) PROVE Has(d, e, v)
  <2>1. CASE o.kind \in Deletes
    <3>1. HasTo(d, Empty, m)
      BY <2>1 DEF Landed, ToRecords
    <3> QED BY <1>3, <3>1, EmptyEntries DEF HasTo
  <2>2. CASE o.kind \notin Deletes
    <3>1. HasTo(d, m.settings[i], m)
      BY <2>2 DEF Landed, ToRecords
    <3>2. CASE e \notin DOMAIN m.settings[i]
      BY <1>3, <3>1, <3>2 DEF HasTo
    <3>3. CASE e \in DOMAIN m.settings[i]
      <4>1. v = d.settings[i][e] /\ e \in DOMAIN d.settings[i]
        BY <1>2, <1>3, <3>1, <3>3 DEF HasTo
      <4>2. PICK w \in Entry : Has(d, e, w)
        BY <4>1, RecordHas
      <4>3. d.settings[i][e] = w
        BY <1>1, <4>1, <4>2, AllAgreeSays
      <4> QED BY <4>1, <4>2, <4>3
    <3> QED BY <3>2, <3>3
  <2> QED BY <2>1, <2>2
<1>4. RowTo(d, Empty, m)
  BY DEF Landed, ToRows
<1>5. \A e \in DOMAIN m.stat : e \in DOMAIN d.stat /\ m.stat[e] = d.stat[e]
  BY <1>4, EmptyEntries DEF RowTo
<1> QED BY <1>2, <1>3, <1>5 DEF Sheds, Landed

\* The entries an add writes, onto settings that keep theirs.
LEMMA AddLands ==
  ASSUME NEW d, NEW o, NEW i, NEW m, Landed(d, o, i, m), o.kind \in Adds
  PROVE  LET new == Without(o.load[i], DOMAIN d.settings[i])
         IN  /\ DOMAIN m.settings[i] = DOMAIN d.settings[i] \cup DOMAIN new
             /\ \A e \in DOMAIN d.settings[i] : m.settings[i][e] = d.settings[i][e]
             /\ \A e \in DOMAIN new : /\ e \in DOMAIN o.load[i] /\ e \notin DOMAIN d.settings[i]
                                      /\ new[e] = o.load[i][e] /\ m.settings[i][e] = new[e]
             /\ HasTo(d, new, m) /\ RowTo(d, new, m)
<1>1. PICK new : new = Without(o.load[i], DOMAIN d.settings[i])
  OBVIOUS
<1>2. m.settings[i] = Over(d.settings[i], new)
  BY <1>1 DEF Landed, Writes, BaseOk, List, Adds, Updates, Edits
<1>3. HasTo(d, new, m) /\ RowTo(d, new, m)
  BY <1>1 DEF Landed, Writes, BaseOk, ToRecords, ToRows
<1>4. /\ DOMAIN m.settings[i] = DOMAIN d.settings[i] \cup DOMAIN new
      /\ \A e \in DOMAIN d.settings[i] : m.settings[i][e] = d.settings[i][e]
      /\ \A e \in DOMAIN new : e \notin DOMAIN d.settings[i] => m.settings[i][e] = new[e]
  BY <1>2 DEF Over
<1>5. \A e \in DOMAIN new : e \in DOMAIN o.load[i] /\ e \notin DOMAIN d.settings[i] /\ new[e] = o.load[i][e]
  BY <1>1 DEF Without
<1> QED BY <1>1, <1>3, <1>4, <1>5

LEMMA CommitAdds ==
  ASSUME NEW d, NEW o, NEW i \in Inbounds, NEW m, Landed(d, o, i, m), o.kind \in Adds, Typed(d), Unique(d),
         RecInv(d), AddsOk(d, o), \A j \in Live(d) : \A e \in DOMAIN d.settings[j] : HasRecord(d, e)
  PROVE  AddsOk(m, o) /\ Unique(m)
<1>1. PICK new : /\ new = Without(o.load[i], DOMAIN d.settings[i])
                 /\ DOMAIN m.settings[i] = DOMAIN d.settings[i] \cup DOMAIN new
                 /\ \A e \in DOMAIN d.settings[i] : m.settings[i][e] = d.settings[i][e]
                 /\ \A e \in DOMAIN new : /\ e \in DOMAIN o.load[i] /\ e \notin DOMAIN d.settings[i]
                                          /\ new[e] = o.load[i][e] /\ m.settings[i][e] = new[e]
                 /\ HasTo(d, new, m) /\ RowTo(d, new, m)
  BY AddLands
<1>2. AllAgree(d) /\ \A j \in Inbounds : \A e \in DOMAIN o.load[j] : Fits(d, o, e, o.load[j][e])
  BY DEF AddsOk
<1>3. Live(m) = Live(d) /\ \A j \in Live(d) \ {i} : m.settings[j] = d.settings[j]
  BY DEF Landed
<1>4. \A e, v : Has(m, e, v) => IF e \in DOMAIN new THEN v = new[e] ELSE Has(d, e, v)
  BY <1>1 DEF HasTo
<1>5. \A e \in DOMAIN m.stat : IF e \in DOMAIN new THEN SameRow(m.stat[e], new[e], {})
                               ELSE e \in DOMAIN d.stat /\ m.stat[e] = d.stat[e]
  BY <1>1 DEF RowTo
<1>6. ASSUME NEW j \in Live(m), NEW e \in DOMAIN m.settings[j], NEW v \in Entry, Has(m, e, v)
      PROVE  m.settings[j][e] = v /\ (e \in DOMAIN m.stat => SameRow(m.stat[e], v, {}))
  <2>1. CASE e \in DOMAIN new
    <3>1. v = new[e] /\ v = o.load[i][e]
      BY <1>1, <1>4, <1>6, <2>1
    <3>2. CASE j = i
      BY <1>1, <1>5, <2>1, <3>1, <3>2
    <3>3. CASE j # i
      <4>1. j \in Live(d) /\ m.settings[j] = d.settings[j] /\ e \in DOMAIN d.settings[j]
        BY <1>3, <1>6, <3>3
      <4>2. PICK w \in Entry : Has(d, e, w)
        BY <4>1, RecordHas
      <4>3. d.settings[j][e] = w
        BY <1>2, <4>1, <4>2, AllAgreeSays
      <4>4. Fits(d, o, e, o.load[i][e]) /\ e \in Emails
        BY <1>1, <1>2, <2>1, <4>2, HasEmail
      <4>5. w = v
        BY <3>1, <4>2, <4>4 DEF Fits
      <4> QED BY <1>5, <2>1, <3>1, <4>1, <4>3, <4>5
    <3> QED BY <3>2, <3>3
  <2>2. CASE e \notin DOMAIN new
    <3>1. Has(d, e, v) /\ j \in Live(d) /\ e \in DOMAIN d.settings[j] /\ m.settings[j][e] = d.settings[j][e]
      <4>1. CASE j = i
        BY <1>1, <1>3, <1>4, <1>6, <2>2, <4>1
      <4>2. CASE j # i
        BY <1>3, <1>4, <1>6, <2>2, <4>2
      <4> QED BY <4>1, <4>2
    <3>2. d.settings[j][e] = v /\ (e \in DOMAIN d.stat => SameRow(d.stat[e], v, {}))
      BY <1>2, <3>1, AllAgreeSays
    <3> QED BY <1>5, <2>2, <3>1, <3>2
  <2> QED BY <2>1, <2>2
<1>7. AllAgree(m)
  BY <1>6, AllAgreeIs
<1>8. Unique(m)
  <2> SUFFICES ASSUME NEW e \in Emails, NEW f \in Emails, NEW v \in Entry, NEW w \in Entry,
                      Has(m, e, v), Has(m, f, w), v.cred = w.cred
               PROVE  e = f
    BY DEF Unique
  <2>1. ASSUME NEW a \in DOMAIN new PROVE Fits(d, o, a, o.load[i][a]) /\ new[a] = o.load[i][a] /\ a \in DOMAIN o.load[i]
    BY <1>1, <1>2
  <2>2. CASE e \in DOMAIN new /\ f \in DOMAIN new
    BY <1>4, <2>1, <2>2 DEF Fits
  <2>3. CASE e \in DOMAIN new /\ f \notin DOMAIN new
    BY <1>4, <2>1, <2>3 DEF Fits
  <2>4. CASE e \notin DOMAIN new /\ f \in DOMAIN new
    BY <1>4, <2>1, <2>4 DEF Fits
  <2>5. CASE e \notin DOMAIN new /\ f \notin DOMAIN new
    BY <1>4, <2>5 DEF Unique
  <2> QED BY <2>2, <2>3, <2>4, <2>5
<1>9. ASSUME NEW j \in Inbounds, NEW e \in DOMAIN o.load[j] PROVE Fits(m, o, e, o.load[j][e])
  <2>1. Fits(d, o, e, o.load[j][e])
    BY <1>2
  <2>2. ASSUME NEW f \in Emails, NEW v \in Entry, Has(m, f, v)
        PROVE  (f = e => v = o.load[j][e]) /\ (v.cred = o.load[j][e].cred => f = e)
    <3>1. CASE f \in DOMAIN new
      <4>1. v = o.load[i][f] /\ f \in DOMAIN o.load[i]
        BY <1>1, <1>4, <2>2, <3>1
      <4> QED BY <2>1, <4>1 DEF Fits
    <3>2. CASE f \notin DOMAIN new
      BY <1>4, <2>1, <2>2, <3>2 DEF Fits
    <3> QED BY <3>1, <3>2
  <2> QED BY <2>1, <2>2 DEF Fits
<1> QED BY <1>7, <1>8, <1>9 DEF AddsOk

----------------------------------------------------------------------------
\* The entries of an inbound after an edit of one field.
EditLandsTo(d, o, i, m) ==
    /\ DOMAIN m.settings[i] = DOMAIN d.settings[i] /\ HasTo(d, m.settings[i], m)
    /\ \A e \in DOMAIN d.settings[i] : Same(m.settings[i][e], d.settings[i][e], IF e \in o.emails THEN {o.field} ELSE {})
    /\ \A e \in DOMAIN d.settings[i] \cap o.emails : m.settings[i][e][o.field] = Value(o, e)
    /\ \A e \in DOMAIN m.stat : e \in DOMAIN d.stat /\ m.stat[e] = d.stat[e]

LEMMA EditLands ==
  ASSUME NEW d, NEW o, NEW i \in Inbounds, NEW m, Landed(d, o, i, m), o.kind \in Edits, Typed(d), EditsOk(d, o)
  PROVE  EditLandsTo(d, o, i, m)
<1>0. i \in Live(d)
  BY DEF Landed
<1>1. m.settings[i] = [e \in DOMAIN d.settings[i] |->
        IF e \in DOMAIN o.load[i] THEN [d.settings[i][e] EXCEPT ![o.field] = o.load[i][e]] ELSE d.settings[i][e]]
  BY DEF Landed, Writes, BaseOk, List, Adds, Updates, Edits
<1>2. HasTo(d, m.settings[i], m) /\ RowTo(d, Empty, m)
  BY DEF Landed, ToRecords, ToRows, Adds, Updates, Edits, Deletes
<1>3. o.field \in {"on", "lim"}
  BY DEF EditsOk
<1>4. ASSUME NEW e \in DOMAIN d.settings[i]
      PROVE  /\ Same(m.settings[i][e], d.settings[i][e], IF e \in o.emails THEN {o.field} ELSE {})
             /\ e \in o.emails => m.settings[i][e][o.field] = Value(o, e)
  <2>1. d.settings[i][e] \in Entry
    BY <1>0 DEF Typed
  <2>2. CASE e \in o.emails
    <3>1. e \in DOMAIN o.load[i] /\ o.load[i][e] = Value(o, e)
      BY <1>0, <2>2 DEF EditsOk
    <3>2. m.settings[i][e] = [d.settings[i][e] EXCEPT ![o.field] = Value(o, e)]
      BY <1>1, <3>1
    <3>3. m.settings[i][e][o.field] = Value(o, e)
      BY <1>3, <2>1, <3>2 DEF Entry
    <3>4. Same(m.settings[i][e], d.settings[i][e], {o.field})
      <4>1. CASE o.field = "on"
        BY <2>1, <3>2, <4>1 DEF Same, Entry
      <4>2. CASE o.field = "lim"
        BY <2>1, <3>2, <4>2 DEF Same, Entry
      <4> QED BY <1>3, <4>1, <4>2
    <3> QED BY <2>2, <3>3, <3>4
  <2>3. CASE e \notin o.emails
    <3>1. e \notin DOMAIN o.load[i]
      BY <2>3 DEF EditsOk
    <3>2. m.settings[i][e] = d.settings[i][e]
      BY <1>1, <3>1
    <3> QED BY <2>3, <3>2, SameRefl
  <2> QED BY <2>2, <2>3
<1>5. \A e \in DOMAIN m.stat : e \in DOMAIN d.stat /\ m.stat[e] = d.stat[e]
  BY <1>2, EmptyEntries DEF RowTo
<1> QED BY <1>1, <1>2, <1>4, <1>5 DEF EditLandsTo

LEMMA SameCred ==
  ASSUME NEW a, NEW b, NEW X, "cred" \notin X, Same(a, b, X)
  PROVE  a.cred = b.cred
BY DEF Same

LEMMA CommitEdits ==
  ASSUME NEW d, NEW o, NEW i \in Inbounds, NEW m, Landed(d, o, i, m), o.kind \in Edits, Typed(d), Unique(d),
         EditsOk(d, o), \A j \in Live(d) : \A e \in DOMAIN d.settings[j] : HasRecord(d, e),
         NEW k, GoesOn(o, i, k), k.failed = o.failed
  PROVE  EditsOk(m, k) /\ Unique(m)
<1>0. i \in Live(d) /\ Live(m) = Live(d) /\ \A j \in Live(d) \ {i} : m.settings[j] = d.settings[j]
  BY DEF Landed
<1>1. EditLandsTo(d, o, i, m)
  BY EditLands
<1>2. PICK s : s = m.settings[i] /\ DOMAIN s = DOMAIN d.settings[i] /\ HasTo(d, s, m)
  BY <1>1 DEF EditLandsTo
<1>3. \A e, v : Has(m, e, v) => IF e \in DOMAIN s THEN v = s[e] ELSE Has(d, e, v)
  BY <1>2 DEF HasTo
<1> DEFINE X(e) == IF e \in o.emails THEN {o.field} ELSE {}
<1>4. o.field \in {"on", "lim"} /\ \A e : "cred" \notin X(e)
  BY DEF EditsOk
<1>5. \A e \in DOMAIN s : Same(s[e], d.settings[i][e], X(e))
  BY <1>1, <1>2 DEF EditLandsTo
<1>5a. \A j \in Live(d) : \A e \in DOMAIN d.settings[j] : AgreeAt(d, j, e, X(e))
  BY DEF EditsOk, Agree
<1> HIDE DEF X
<1>6. ASSUME NEW e \in DOMAIN s
      PROVE  \E w \in Entry : Has(d, e, w) /\ Same(s[e], w, X(e))
  <2>1. PICK w \in Entry : Has(d, e, w)
    BY <1>0, <1>2, RecordHas
  <2>2. Same(d.settings[i][e], w, X(e))
    BY <1>0, <1>2, <1>5a, <2>1 DEF AgreeAt
  <2>3. Same(s[e], w, X(e))
    BY <1>5, <2>2 DEF Same
  <2> QED BY <2>1, <2>3
<1>7. ASSUME NEW j \in Live(m), NEW e \in DOMAIN m.settings[j] PROVE AgreeAt(m, j, e, X(e))
  <2> SUFFICES ASSUME NEW v \in Entry, Has(m, e, v)
               PROVE  /\ Same(m.settings[j][e], v, X(e))
                      /\ e \in DOMAIN m.stat => SameRow(m.stat[e], v, X(e))
    BY DEF AgreeAt
  <2>0. \A x \in DOMAIN m.stat : x \in DOMAIN d.stat /\ m.stat[x] = d.stat[x]
    BY <1>1 DEF EditLandsTo
  <2>1. e \in DOMAIN d.settings[j] /\ j \in Live(d)
    BY <1>0, <1>2
  <2>2. CASE e \in DOMAIN s
    <3>1. v = s[e]
      BY <1>3, <2>2
    <3>2. PICK w \in Entry : Has(d, e, w) /\ Same(s[e], w, X(e))
      BY <1>6, <2>2
    <3>3. Same(d.settings[j][e], w, X(e)) /\ (e \in DOMAIN d.stat => SameRow(d.stat[e], w, X(e)))
      BY <1>5a, <2>1, <3>2 DEF AgreeAt
    <3>4. Same(d.settings[j][e], v, X(e))
      BY <3>1, <3>2, <3>3 DEF Same
    <3>5. e \in DOMAIN d.stat => SameRow(d.stat[e], v, X(e))
      BY <3>1, <3>2, <3>3 DEF Same, SameRow
    <3>6. Same(m.settings[j][e], v, X(e))
      <4>1. CASE j = i
        BY <1>2, <3>1, <4>1, SameRefl
      <4>2. CASE j # i
        BY <1>0, <3>4, <4>2
      <4> QED BY <4>1, <4>2
    <3> QED BY <2>0, <3>5, <3>6
  <2>3. CASE e \notin DOMAIN s
    <3>1. Has(d, e, v) /\ j # i
      BY <1>2, <1>3, <2>1, <2>3
    <3>2. Same(d.settings[j][e], v, X(e)) /\ (e \in DOMAIN d.stat => SameRow(d.stat[e], v, X(e)))
      BY <1>5a, <2>1, <3>1 DEF AgreeAt
    <3> QED BY <1>0, <2>0, <3>1, <3>2
  <2> QED BY <2>2, <2>3
<1>8. Agree(m, o.emails, {o.field})
  BY <1>7 DEF Agree, X
<1>9. Unique(m)
  <2>1. ASSUME NEW e, NEW v \in Entry, Has(m, e, v) PROVE \E w \in Entry : Has(d, e, w) /\ w.cred = v.cred
    <3>1. CASE e \in DOMAIN s
      <4>1. PICK w \in Entry : Has(d, e, w) /\ Same(s[e], w, X(e))
        BY <1>6, <3>1
      <4> QED BY <1>3, <1>4, <2>1, <3>1, <4>1, SameCred
    <3>2. CASE e \notin DOMAIN s
      BY <1>3, <2>1, <3>2
    <3> QED BY <3>1, <3>2
  <2> QED BY <2>1 DEF Unique
<1>10. ASSUME NEW j \in Live(m), NEW e \in o.emails \cap DOMAIN m.settings[j]
       PROVE  e \in DOMAIN o.load[j] /\ (j = i \/ ~Waits(o, j) => EditedAt(m, o, j, e))
  <2>1. e \in DOMAIN d.settings[j] /\ j \in Live(d) /\ j \in Inbounds
    BY <1>0, <1>2 DEF Live
  <2>2. e \in DOMAIN o.load[j] /\ (Waits(o, j) \/ EditedAt(d, o, j, e))
    BY <2>1 DEF EditsOk
  <2>3. e \in DOMAIN s => s[e][o.field] = Value(o, e)
    BY <1>1, <1>2 DEF EditLandsTo
  <2>4. ASSUME o.kind = "adjust", NEW v \in Entry, Has(m, e, v), j = i \/ ~Waits(o, j) PROVE v.lim = Value(o, e)
    <3>1. CASE e \in DOMAIN s
      <4>1. o.field = "lim"
        BY <2>4 DEF EditsOk
      <4> QED BY <1>3, <2>3, <2>4, <3>1, <4>1
    <3>2. CASE e \notin DOMAIN s
      <4>1. Has(d, e, v) /\ j # i
        BY <1>2, <1>3, <2>1, <2>4, <3>2
      <4> QED BY <2>2, <2>4, <4>1 DEF EditedAt
    <3> QED BY <3>1, <3>2
  <2>5. ASSUME j = i \/ ~Waits(o, j) PROVE EditedAt(m, o, j, e)
    <3>1. m.settings[j][e][o.field] = Value(o, e)
      <4>1. CASE j = i
        BY <1>2, <2>1, <2>3, <4>1
      <4>2. CASE j # i
        BY <1>0, <2>1, <2>2, <2>5, <4>2 DEF EditedAt
      <4> QED BY <4>1, <4>2
    <3> QED BY <2>4, <2>5, <3>1 DEF EditedAt
  <2> QED BY <2>2, <2>5
<1>11. ASSUME NEW j \in Inbounds, NEW e \in DOMAIN o.load[j]
       PROVE  j \in Live(m) /\ e \in DOMAIN m.settings[j] /\ e \in o.emails /\ o.load[j][e] = Value(o, e)
  <2>1. j \in Live(d) /\ e \in DOMAIN d.settings[j] /\ e \in o.emails /\ o.load[j][e] = Value(o, e)
    BY DEF EditsOk
  <2> QED BY <1>0, <1>2, <2>1
<1>12. /\ k.kind = o.kind /\ k.load = o.load /\ k.emails = o.emails /\ k.payload = o.payload /\ k.field = o.field
       /\ \A e : Value(k, e) = Value(o, e)
  BY DEF GoesOn, SameReq, Value
<1>13. ASSUME NEW j \in Live(m), NEW e \in k.emails \cap DOMAIN m.settings[j]
       PROVE  e \in DOMAIN k.load[j] /\ (Waits(k, j) \/ EditedAt(m, k, j, e))
  <2>1. e \in DOMAIN k.load[j] /\ j \in Inbounds
    BY <1>10, <1>12 DEF Live
  <2>2. CASE j # i /\ Waits(o, j)
    BY <2>1, <2>2 DEF GoesOn
  <2>3. CASE j = i \/ ~Waits(o, j)
    <3>1. EditedAt(m, o, j, e)
      BY <1>10, <1>12, <2>3
    <3> QED BY <1>12, <2>1, <3>1 DEF EditedAt
  <2> QED BY <2>2, <2>3
<1> QED BY <1>8, <1>9, <1>11, <1>12, <1>13 DEF EditsOk

----------------------------------------------------------------------------
\* The entries of an inbound after an update or a change of one field.
UpdateLandsTo(d, o, i, want, m) ==
    LET from == From(o)
        to == Target(o)
    IN  /\ DOMAIN m.settings[i] = {to} \cup (DOMAIN d.settings[i] \ {from}) /\ m.settings[i][to] = want
        /\ \A e \in DOMAIN m.settings[i] \ {to} : m.settings[i][e] = d.settings[i][e]
        /\ \A e, v : Has(m, e, v) => IF e = to THEN v = want ELSE Has(d, e, v)
        /\ \A n \in DOMAIN m.rec : m.rec[n].email = to \/ (n \in DOMAIN d.rec /\ m.rec[n].email = d.rec[n].email)
        /\ \A e \in DOMAIN m.stat : IF e = to THEN SameRow(m.stat[e], want, {})
                                    ELSE e \in DOMAIN d.stat /\ m.stat[e] = d.stat[e]

LEMMA UpdateLands ==
  ASSUME NEW d, NEW o, NEW i, NEW m, Landed(d, o, i, m), o.kind \in Updates, NEW want,
         o.load[i] = Just(Target(o), want)
  PROVE  UpdateLandsTo(d, o, i, want, m)
<1>1. PICK from, to : from = From(o) /\ to = Target(o)
  OBVIOUS
<1>2. m.settings[i] = Over(Just(to, want), Without(d.settings[i], {from}))
  BY <1>1 DEF Landed, Writes, BaseOk, List, Adds, Updates, Edits
<1>3. HasTo(d, Just(to, want), m) /\ RowTo(d, Just(to, want), m)
  BY <1>1 DEF Landed, Writes, BaseOk, ToRecords, ToRows
<1>4. DOMAIN Just(to, want) = {to} /\ Just(to, want)[to] = want
  BY DEF Just
<1>5. /\ DOMAIN m.settings[i] = {to} \cup (DOMAIN d.settings[i] \ {from}) /\ m.settings[i][to] = want
      /\ \A e \in DOMAIN m.settings[i] \ {to} : m.settings[i][e] = d.settings[i][e]
  BY <1>2, <1>4 DEF Over, Without
<1>6. /\ \A e, v : Has(m, e, v) => IF e = to THEN v = want ELSE Has(d, e, v)
      /\ \A n \in DOMAIN m.rec : m.rec[n].email = to \/ (n \in DOMAIN d.rec /\ m.rec[n].email = d.rec[n].email)
  BY <1>3, <1>4 DEF HasTo
<1>7. \A e \in DOMAIN m.stat : IF e = to THEN SameRow(m.stat[e], want, {})
                               ELSE e \in DOMAIN d.stat /\ m.stat[e] = d.stat[e]
  BY <1>3, <1>4 DEF RowTo
<1> QED BY <1>1, <1>5, <1>6, <1>7 DEF UpdateLandsTo

\* Everybody but the client that is updated stays in agreement.
LEMMA OthersAgree ==
  ASSUME NEW d, NEW o, NEW i, NEW m, Landed(d, o, i, m), NEW want, UpdateLandsTo(d, o, i, want, m),
         NEW from, NEW to, from = From(o), to = Target(o),
         NEW j \in Live(m), NEW e \in DOMAIN m.settings[j], e # to,
         e \in DOMAIN d.settings[j] => AgreeAt(d, j, e, {})
  PROVE  AgreeAt(m, j, e, {})
<1>1. e \in DOMAIN d.settings[j] /\ m.settings[j][e] = d.settings[j][e]
  <2>1. CASE j = i
    BY <2>1 DEF UpdateLandsTo
  <2>2. CASE j # i
    BY <2>2 DEF Landed
  <2> QED BY <2>1, <2>2
<1> SUFFICES ASSUME NEW v \in Entry, Has(m, e, v)
             PROVE  Same(m.settings[j][e], v, {}) /\ (e \in DOMAIN m.stat => SameRow(m.stat[e], v, {}))
  BY DEF AgreeAt
<1>2. Has(d, e, v)
  BY DEF UpdateLandsTo
<1>3. Same(d.settings[j][e], v, {}) /\ (e \in DOMAIN d.stat => SameRow(d.stat[e], v, {}))
  BY <1>1, <1>2 DEF AgreeAt
<1>4. e \in DOMAIN m.stat => e \in DOMAIN d.stat /\ m.stat[e] = d.stat[e]
  BY DEF UpdateLandsTo
<1> QED BY <1>1, <1>3, <1>4

LEMMA CommitUpdates ==
  ASSUME NEW v, NEW d, NEW o, NEW i \in Inbounds, o.run[i] # Empty, NEW m, Landed(d, o, i, m),
         CommitVals(d, o, i, m), o.kind \in Updates, ReqOk(v, o), RecInv(m), Unique(d), UpdatesOk(d, o),
         DOMAIN o.load[i] # {}, NEW k, GoesOn(o, i, k), k.failed = o.failed, ~Waits(k, i)
  PROVE  UpdatesOk(m, k) /\ Unique(m)
<1>1. PICK want \in Entry : UpdatesTo(d, o, want)
  BY DEF UpdatesOk
<1>2. PICK from, to : from = From(o) /\ to = Target(o)
  OBVIOUS
<1>3. o.load[i] = Just(to, want)
  BY <1>1, <1>2 DEF UpdatesTo, WrittenAt
<1>4. UpdateLandsTo(d, o, i, want, m)
  BY <1>2, <1>3, UpdateLands
<1>5. Live(m) = Live(d) /\ i \in Live(d) /\ \A j \in Live(d) \ {i} : m.settings[j] = d.settings[j]
  BY DEF Landed
<1>6. /\ \A e, x : Has(m, e, x) => IF e = to THEN x = want ELSE Has(d, e, x)
      /\ DOMAIN m.settings[i] = {to} \cup (DOMAIN d.settings[i] \ {from}) /\ m.settings[i][to] = want
  BY <1>2, <1>4 DEF UpdateLandsTo
<1>7. DoneTo(m, from, to, want)
  <2>1. \A x \in Entry : Has(m, to, x) => x = want
    BY <1>6
  <2>2. to \in DOMAIN m.stat => SameRow(m.stat[to], want, {})
    BY <1>2, <1>4 DEF UpdateLandsTo
  <2>3. from # to /\ HasRecord(d, from) => ~HasRecord(d, to)
    BY <1>1, <1>2 DEF UpdatesTo, DoneTo
  <2>4. from # to => ~HasRecord(m, from)
    BY <1>2, <2>3 DEF CommitVals
  <2> QED BY <2>1, <2>2, <2>4 DEF DoneTo
<1>8. /\ k.kind = o.kind /\ k.load = o.load /\ k.emails = o.emails /\ k.payload = o.payload /\ k.ids = o.ids
      /\ From(k) = from /\ Target(k) = to
  BY <1>2, SameReqFacts DEF GoesOn, SameReq
<1>9. ASSUME NEW j \in Inbounds, DOMAIN k.load[j] # {} PROVE WrittenAt(m, k, j, want)
  <2>1. WrittenAt(d, o, j, want)
    BY <1>1, <1>8, <1>9 DEF UpdatesTo
  <2>2. CASE j = i
    BY <1>2, <1>5, <1>6, <1>8, <2>1, <2>2 DEF WrittenAt
  <2>3. CASE j # i
    <3>1. (Waits(k, j) <=> Waits(o, j)) /\ m.settings[j] = d.settings[j]
      BY <1>5, <2>1, <2>3 DEF GoesOn, WrittenAt
    <3> QED BY <1>2, <1>5, <1>8, <2>1, <3>1 DEF WrittenAt
  <2> QED BY <2>2, <2>3
<1>10. ASSUME NEW j \in Live(m), {from, to} \cap DOMAIN m.settings[j] # {} PROVE DOMAIN k.load[j] # {}
  <2>1. CASE j = i
    BY <1>8, <2>1
  <2>2. CASE j # i
    BY <1>1, <1>2, <1>5, <1>8, <1>10, <2>2 DEF UpdatesTo
  <2> QED BY <2>1, <2>2
<1>11. \A f \in Emails \ {from, to}, x \in Entry : Has(m, f, x) => x.cred # want.cred
  BY <1>1, <1>2, <1>6 DEF UpdatesTo
<1>12. \A n \in k.ids \cap DOMAIN m.rec : m.rec[n].email \in {from, to}
  BY <1>1, <1>2, <1>4, <1>8 DEF UpdatesTo, UpdateLandsTo
<1>13. Agree(m, {from, to}, {"cred", "on", "lim"})
  <2> SUFFICES ASSUME NEW j \in Live(m), NEW e \in DOMAIN m.settings[j]
               PROVE  AgreeAt(m, j, e, IF e \in {from, to} THEN {"cred", "on", "lim"} ELSE {})
    BY DEF Agree
  <2>1. CASE e \in {from, to}
    BY <2>1 DEF AgreeAt, Same, SameRow
  <2>2. CASE e \notin {from, to}
    <3>1. e \in DOMAIN d.settings[j] => AgreeAt(d, j, e, {})
      <4> SUFFICES ASSUME e \in DOMAIN d.settings[j] PROVE AgreeAt(d, j, e, {})
        OBVIOUS
      <4>1. Agree(d, {from, to}, {"cred", "on", "lim"}) /\ j \in Live(d)
        BY <1>1, <1>2, <1>5 DEF UpdatesTo
      <4>2. AgreeAt(d, j, e, IF e \in {from, to} THEN {"cred", "on", "lim"} ELSE {})
        BY <4>1 DEF Agree
      <4>3. (IF e \in {from, to} THEN {"cred", "on", "lim"} ELSE {}) = {}
        BY <2>2
      <4> QED BY <4>2, <4>3
    <3>2. AgreeAt(m, j, e, {})
      BY <1>2, <1>4, <2>2, <3>1, OthersAgree
    <3>3. (IF e \in {from, to} THEN {"cred", "on", "lim"} ELSE {}) = {}
      BY <2>2
    <3> QED BY <3>2, <3>3
  <2> QED BY <2>1, <2>2
<1>14. UpdatesTo(m, k, want)
  <2>1. k.kind = "update" => want = k.payload.entry
    BY <1>1, <1>8 DEF UpdatesTo
  <2> QED BY <1>7, <1>8, <1>9, <1>10, <1>11, <1>12, <1>13, <2>1 DEF UpdatesTo
<1>15. Unique(m)
  <2> SUFFICES ASSUME NEW e \in Emails, NEW f \in Emails, NEW x \in Entry, NEW w \in Entry,
                      Has(m, e, x), Has(m, f, w), x.cred = w.cred, e # f
               PROVE  FALSE
    BY DEF Unique
  <2>1. ASSUME NEW y \in Entry, Has(m, from, y), from # to PROVE FALSE
    BY <1>7, <2>1, HasEmail DEF DoneTo
  <2>2. CASE e = to
    <3>1. x = want /\ f # from
      BY <1>6, <2>1, <2>2
    <3> QED BY <1>11, <2>2, <3>1
  <2>3. CASE f = to
    <3>1. w = want /\ e # from
      BY <1>6, <2>1, <2>3
    <3> QED BY <1>11, <2>3, <3>1
  <2>4. CASE e # to /\ f # to
    BY <1>6, <2>4 DEF Unique
  <2> QED BY <2>2, <2>3, <2>4
<1> QED BY <1>1, <1>8, <1>14, <1>15 DEF UpdatesOk

\* A commit among others, on the one inbound there is.
SharedCommitOf(d, o, i, m) ==
    /\ Landed(d, o, i, m) /\ KeepsNames(d, m) /\ SharedOk(d, o) /\ Typed(d) /\ AllAgree(d) /\ Unique(d)
    /\ \A j, k \in Live(d) : j = k
    /\ \A e \in DOMAIN d.settings[i] : HasRecord(d, e)

LEMMA KeptCreds ==
  ASSUME NEW d, NEW m, KeepsNames(d, m), Unique(d),
         \A f \in Emails, v \in Entry : Has(m, f, v) => \E w \in Entry : Has(d, f, w) /\ w.cred = v.cred
  PROVE  CredsStay(d, m) /\ Unique(m)
<1>1. CredsStay(d, m)
  BY DEF CredsStay, KeepsNames, HasRecord, IdsOf
<1>2. ASSUME NEW e \in Emails, NEW f \in Emails, NEW v \in Entry, NEW w \in Entry,
             Has(m, e, v), Has(m, f, w), v.cred = w.cred
      PROVE  e = f
  <2>1. PICK x \in Entry : Has(d, e, x) /\ x.cred = v.cred
    BY <1>2
  <2>2. PICK y \in Entry : Has(d, f, y) /\ y.cred = w.cred
    BY <1>2
  <2> QED BY <1>2, <2>1, <2>2 DEF Unique
<1> QED BY <1>1, <1>2 DEF Unique

\* The client of an attachment or of an edited field has its credentials already.
LEMMA SharedCred ==
  ASSUME NEW d, NEW o, NEW i \in Inbounds, SharedOk(d, o), o.kind # "detach", Typed(d), NEW e \in DOMAIN o.load[i],
         e \in Emails
  PROVE  \E w \in Entry : Has(d, e, w) /\ w.cred = o.load[i][e].cred
<1>1. HasRecord(d, e) /\ \A w \in Entry : Has(d, e, w) => w.cred = o.load[i][e].cred
  BY DEF SharedOk
<1> QED BY <1>1, RecordHas

LEMMA SharedAttach ==
  ASSUME NEW d, NEW o, NEW i \in Inbounds, NEW m, SharedCommitOf(d, o, i, m), o.kind = "attach"
  PROVE  AllAgree(m) /\ Unique(m) /\ CredsStay(d, m)
<1>0. /\ Landed(d, o, i, m) /\ KeepsNames(d, m) /\ SharedOk(d, o) /\ Typed(d) /\ AllAgree(d) /\ Unique(d)
      /\ \A j, k \in Live(d) : j = k
  BY DEF SharedCommitOf
<1>1. PICK new : /\ DOMAIN m.settings[i] = DOMAIN d.settings[i] \cup DOMAIN new
                 /\ \A e \in DOMAIN d.settings[i] : m.settings[i][e] = d.settings[i][e]
                 /\ \A e \in DOMAIN new : /\ e \in DOMAIN o.load[i] /\ e \notin DOMAIN d.settings[i]
                                          /\ new[e] = o.load[i][e] /\ m.settings[i][e] = new[e]
                 /\ HasTo(d, new, m) /\ RowTo(d, new, m)
  BY <1>0, AddLands DEF Adds
<1>2. Live(m) = Live(d) /\ i \in Live(d)
  BY <1>0 DEF Landed
<1>3. \A e, v : Has(m, e, v) => IF e \in DOMAIN new THEN v = new[e] ELSE Has(d, e, v)
  BY <1>1 DEF HasTo
<1>4. \A e \in DOMAIN m.stat : IF e \in DOMAIN new THEN SameRow(m.stat[e], new[e], {})
                               ELSE e \in DOMAIN d.stat /\ m.stat[e] = d.stat[e]
  BY <1>1 DEF RowTo
<1>5. ASSUME NEW j \in Live(m), NEW e \in DOMAIN m.settings[j], NEW v \in Entry, Has(m, e, v)
      PROVE  m.settings[j][e] = v /\ (e \in DOMAIN m.stat => SameRow(m.stat[e], v, {}))
  <2>0. j = i
    BY <1>0, <1>2, <1>5
  <2>1. CASE e \in DOMAIN new
    BY <1>1, <1>3, <1>4, <1>5, <2>0, <2>1
  <2>2. CASE e \notin DOMAIN new
    <3>1. e \in DOMAIN d.settings[i] /\ Has(d, e, v) /\ m.settings[i][e] = d.settings[i][e]
      BY <1>1, <1>3, <1>5, <2>0, <2>2
    <3>2. d.settings[i][e] = v /\ (e \in DOMAIN d.stat => SameRow(d.stat[e], v, {}))
      BY <1>0, <1>2, <3>1, AllAgreeSays
    <3> QED BY <1>4, <2>0, <2>2, <3>1, <3>2
  <2> QED BY <2>1, <2>2
<1>6. ASSUME NEW f \in Emails, NEW v \in Entry, Has(m, f, v)
      PROVE  \E w \in Entry : Has(d, f, w) /\ w.cred = v.cred
  <2>1. CASE f \in DOMAIN new
    <3>1. v = o.load[i][f] /\ f \in DOMAIN o.load[i]
      BY <1>1, <1>3, <1>6, <2>1
    <3> QED BY <1>0, <3>1, SharedCred
  <2>2. CASE f \notin DOMAIN new
    BY <1>3, <1>6, <2>2
  <2> QED BY <2>1, <2>2
<1> QED BY <1>0, <1>5, <1>6, AllAgreeIs, KeptCreds

LEMMA SharedField ==
  ASSUME NEW d, NEW o, NEW i \in Inbounds, NEW m, SharedCommitOf(d, o, i, m), o.kind = "field",
         NEW to \in Emails, NEW want, to = Target(o), o.load[i] = Just(to, want)
  PROVE  AllAgree(m) /\ Unique(m) /\ CredsStay(d, m)
<1>0. /\ Landed(d, o, i, m) /\ KeepsNames(d, m) /\ SharedOk(d, o) /\ Typed(d) /\ AllAgree(d) /\ Unique(d)
      /\ \A j, k \in Live(d) : j = k
  BY DEF SharedCommitOf
<1>1. UpdateLandsTo(d, o, i, want, m) /\ to = From(o)
  BY <1>0, UpdateLands DEF Updates, Target
<1>2. Live(m) = Live(d) /\ i \in Live(d)
  BY <1>0 DEF Landed
<1>3. DOMAIN o.load[i] = {to} /\ o.load[i][to] = want
  BY DEF Just
<1>4. /\ m.settings[i][to] = want
      /\ \A e, v : Has(m, e, v) => IF e = to THEN v = want ELSE Has(d, e, v)
      /\ to \in DOMAIN m.stat => SameRow(m.stat[to], want, {})
  BY <1>1 DEF UpdateLandsTo
<1>5. ASSUME NEW j \in Live(m), NEW e \in DOMAIN m.settings[j] PROVE AgreeAt(m, j, e, {})
  <2>0. j = i
    BY <1>0, <1>2, <1>5
  <2>1. CASE e = to
    BY <1>4, <2>0, <2>1, SameRefl DEF AgreeAt
  <2>2. CASE e # to
    <3>1. e \in DOMAIN d.settings[j] => AgreeAt(d, j, e, {})
      <4>1. (IF e \in {} THEN {} ELSE {}) = {}
        OBVIOUS
      <4> QED BY <1>0, <1>2, <1>5, <4>1 DEF AllAgree, Agree
    <3> QED BY <1>0, <1>1, <1>5, <2>2, <3>1, OthersAgree
  <2> QED BY <2>1, <2>2
<1>6. AllAgree(m)
  <2>1. \A e : (IF e \in {} THEN {} ELSE {}) = {}
    OBVIOUS
  <2> QED BY <1>5, <2>1 DEF AllAgree, Agree
<1>7. ASSUME NEW f \in Emails, NEW v \in Entry, Has(m, f, v)
      PROVE  \E w \in Entry : Has(d, f, w) /\ w.cred = v.cred
  <2>1. CASE f = to
    <3>1. v = o.load[i][f] /\ f \in DOMAIN o.load[i]
      BY <1>3, <1>4, <1>7, <2>1
    <3> QED BY <1>0, <3>1, SharedCred
  <2>2. CASE f # to
    BY <1>4, <1>7, <2>2
  <2> QED BY <2>1, <2>2
<1> QED BY <1>0, <1>6, <1>7, KeptCreds

LEMMA SharedCommit ==
  ASSUME NEW v, NEW d, NEW o, NEW i \in Inbounds, o.run[i] # Empty, NEW m, SharedCommitOf(d, o, i, m),
         ReqOk(v, o), LoadTyped(o)
  PROVE  AllAgree(m) /\ Unique(m) /\ CredsStay(d, m)
<1>0. /\ Landed(d, o, i, m) /\ KeepsNames(d, m) /\ SharedOk(d, o) /\ Typed(d) /\ AllAgree(d) /\ Unique(d)
      /\ \A e \in DOMAIN d.settings[i] : HasRecord(d, e)
  BY DEF SharedCommitOf
<1>1. CASE o.kind = "attach"
  BY <1>1, SharedAttach
<1>2. CASE o.kind = "field"
  <2>1. o.run[i].new = o.load[i] /\ DOMAIN o.run[i].new = {Target(o)} /\ Target(o) \in Emails /\ Entries(o.load[i])
    BY <1>0, <1>2 DEF Landed, Writes, BaseOk, ReqOk, ShareOk, LoadTyped, Updates
  <2>2. o.load[i] = Just(Target(o), o.load[i][Target(o)])
    BY <2>1 DEF Entries, Just
  <2> QED BY <1>2, <2>1, <2>2, SharedField
<1>3. CASE o.kind = "detach"
  <2>1. Sheds(d, i, m)
    BY <1>0, <1>3, DeleteSheds DEF Adds, Updates, Edits
  <2>2. \A f \in Emails, x \in Entry : Has(m, f, x) => \E w \in Entry : Has(d, f, w) /\ w.cred = x.cred
    BY <2>1 DEF Sheds
  <2> QED BY <1>0, <2>1, <2>2, ShedAgree, KeptCreds
<1> QED BY <1>0, <1>1, <1>2, <1>3 DEF SharedOk

\* A link that a commit leaves or makes is to an inbound there is.
LEMMA CommitLinks ==
  ASSUME NEW d, NEW o, NEW i \in Inbounds, NEW m, RecInv(m), Live(m) = Live(d), i \in Live(d), LinksLive(d),
         CommitRows(d, o, i, m) \/ MoveRows(d, o, i, m)
  PROVE  LinksLive(m)
<1> SUFFICES ASSUME NEW l \in m.link, l[2] # i PROVE l[2] \in Live(d)
  BY DEF LinksLive
<1>1. PICK n, j : l = <<n, j>> /\ n = l[1] /\ j = l[2] /\ n \in DOMAIN m.rec /\ j \in Inbounds \ {i}
  BY DEF RecInv
<1>2. m.rec[n].email \in NamesAt(m, j)
  BY <1>1 DEF NamesAt
<1>3. NamesAt(d, j) # {}
  <2>1. CASE CommitRows(d, o, i, m)
    BY <1>1, <1>2, <2>1 DEF CommitRows
  <2>2. CASE MoveRows(d, o, i, m)
    <3>1. From(o) \notin NamesAt(d, j) => NamesAt(m, j) = NamesAt(d, j)
      BY <1>1, <2>2 DEF MoveRows
    <3> QED BY <1>2, <3>1
  <2> QED BY <2>1, <2>2
<1>4. PICK x : <<x, j>> \in d.link
  BY <1>3 DEF NamesAt
<1>5. <<x, j>>[2] \in Live(d)
  BY <1>4 DEF LinksLive
<1> QED BY <1>1, <1>5

LEMMA ListGoesOn ==
  ASSUME NEW d, NEW o, NEW i, NEW k, GoesOn(o, i, k), NEW j, k.run[j] = o.run[j], BaseOk(d, o, j)
  PROVE  BaseOk(d, k, j)
<1>1. k.kind = o.kind /\ k.load = o.load /\ k.field = o.field /\ From(k) = From(o)
  BY SameReqFacts DEF GoesOn, SameReq
<1>2. \A base : List(k, j, base) = List(o, j, base)
  BY <1>1 DEF List
<1> QED BY <1>1, <1>2 DEF BaseOk

LEMMA LoadGoesOn ==
  ASSUME NEW o, NEW i, NEW k, GoesOn(o, i, k), LoadTyped(o)
  PROVE  LoadTyped(k)
BY DEF LoadTyped, GoesOn, SameReq

\* The commit of a request alone.
LEMMA CommitAlone ==
  ASSUME NEW v, NEW d, NEW o, NEW i \in Inbounds, o.run[i] # Empty, NEW m, Landed(d, o, i, m),
         CommitVals(d, o, i, m), ReqOk(v, o), RowsOk(d, o), RecInv(d), RecInv(m), Typed(d), Unique(d),
         AloneOk(d, o), NEW k, GoesOn(o, i, k), k.failed = o.failed, ~Waits(k, i)
  PROVE  AloneOk(m, k) /\ Unique(m)
<1>1. k.kind = o.kind
  BY DEF GoesOn, SameReq
<1>2. o.kind \notin Updates => \A j \in Live(d) : \A e \in DOMAIN d.settings[j] : HasRecord(d, e)
  BY SettingsHave DEF Renames, Updates
<1>3. CASE o.kind \in Adds
  <2>1. AddsOk(d, o) /\ o.kind \notin Updates
    BY <1>3 DEF AloneOk, Adds, Updates
  <2>2. AddsOk(m, o) /\ Unique(m)
    BY <1>2, <1>3, <2>1, CommitAdds
  <2>3. AddsOk(m, k)
    BY <2>2, AddsGoOn DEF GoesOn
  <2> QED BY <1>1, <1>3, <2>2, <2>3 DEF AloneOk, AddsOk, Adds, Updates, Edits
<1>4. CASE o.kind \in Edits
  <2>1. EditsOk(d, o) /\ o.kind \notin Updates
    BY <1>4 DEF AloneOk, Edits, Updates
  <2>2. EditsOk(m, k) /\ Unique(m)
    BY <1>2, <1>4, <2>1, CommitEdits
  <2> QED BY <1>1, <1>4, <2>2 DEF AloneOk, Adds, Updates, Edits
<1>5. CASE o.kind \in Updates
  <2>1. UpdatesOk(d, o)
    BY <1>5 DEF AloneOk
  <2>2. DOMAIN o.load[i] # {}
    BY <1>5 DEF ReqOk, ShareOk
  <2>3. UpdatesOk(m, k) /\ Unique(m)
    BY <1>5, <2>1, <2>2, CommitUpdates
  <2> QED BY <1>1, <1>5, <2>3 DEF AloneOk, Adds, Updates, Edits
<1>6. CASE o.kind \notin Adds \cup Updates \cup Edits
  <2>1. AllAgree(d) /\ i \in Live(d)
    BY <1>6 DEF AloneOk, Landed
  <2>2. Sheds(d, i, m)
    BY <1>2, <1>6, <2>1, DeleteSheds
  <2>3. AllAgree(m) /\ Unique(m)
    BY <2>1, <2>2, ShedAgree
  <2> QED BY <1>1, <1>6, <2>3 DEF AloneOk
<1> QED BY <1>3, <1>4, <1>5, <1>6

LEMMA CommitAgree ==
  ASSUME LockInv, MemInv, AgreeInv, NEW p \in Procs, p \in workload.procs, NEW i \in Inbounds, ApplyCommit(p, i)
  PROVE  AgreeInv'
<1>1. PICK o : o = op[p]
  OBVIOUS
<1>2. /\ o # Empty /\ o.run[i] # Empty /\ workload' = workload /\ db' = Committed(db, o, i)
      /\ op' = [op EXCEPT ![p].run[i] = Empty] /\ i \in Live(db)
  BY <1>1 DEF ApplyCommit
<1>3. /\ Shape(db) /\ Serves(db, o) /\ ReqShape(o) /\ RecInv(db) /\ SettingsNamed(db) /\ DOMAIN op = Procs
      /\ ReqOk(workload, o) /\ RowsOk(db, o) /\ Typed(db) /\ Unique(db) /\ LinksLive(db) /\ OpOk(db, o)
  BY <1>1, <1>2 DEF LockInv, Serves, MemInv, AgreeInv
<1>4. PICK k : k = [o EXCEPT !.run[i] = Empty] /\ op' = [op EXCEPT ![p] = k]
  BY <1>1, <1>2, <1>3
<1>5. ShareTo(o, i, k) /\ k.run[i] = Empty /\ k.failed = o.failed
  <2>1. EndsWith(o, i, {}, k)
    BY <1>4 DEF EndsWith
  <2> QED BY <1>3, <2>1, ShareEnds
<1>6. GoesOn(o, i, k) /\ ~Waits(k, i) /\ k.depleted = o.depleted
  <2>1. k.field = o.field /\ k.depleted = o.depleted
    BY <1>3, <1>4 DEF ReqShape
  <2>2. i \notin k.todo
    BY <1>2, <1>3, <1>5 DEF ReqOk, ShareTo
  <2> QED BY <1>5, <2>1, <2>2 DEF GoesOn, ShareTo, Waits
<1>7. LoadTyped(o) /\ BaseOk(db, o, i) /\ Writes(db, o, i)
  <2>1. LoadTyped(o) /\ BaseOk(db, o, i)
    BY <1>2, <1>3 DEF OpOk
  <2> QED BY <1>3, <2>1, ShareWrites
<1>8. PICK d, m : d = db /\ m = db'
  OBVIOUS
<1>9. CommitVals(d, o, i, m)
  BY <1>2, <1>3, <1>7, <1>8, CommitWrites
<1>10. Landed(d, o, i, m) /\ Typed(m)
  <2>1. Landed(d, o, i, m)
    BY <1>3, <1>7, <1>8, <1>9, CommitLands
  <2> QED BY <1>3, <1>8, <2>1, LandedTyped
<1>11. RecInv(m) /\ (CommitRows(d, o, i, m) \/ MoveRows(d, o, i, m)) /\ (~Renames(o) => KeepsNames(d, m))
  <2>1. CASE Renames(o)
    <3>1. MoveRows(d, o, i, m)
      BY <1>2, <1>3, <1>8, <2>1, CommitMoves
    <3> QED BY <2>1, <3>1 DEF MoveRows
  <2>2. CASE ~Renames(o)
    <3>1. CommitRows(d, o, i, m)
      BY <1>2, <1>3, <1>8, <2>2, CommitNames
    <3> QED BY <3>1 DEF CommitRows
  <2> QED BY <2>1, <2>2
<1>12. Live(m) = Live(d) /\ i \in Live(d) /\ \A j \in Live(d) \ {i} : m.settings[j] = d.settings[j]
  BY <1>10 DEF Landed
<1>13. LinksLive(m)
  BY <1>3, <1>8, <1>11, <1>12, CommitLinks
<1>14. \A j \in Inbounds : k.run[j] # Empty => BaseOk(m, k, j)
  <2> SUFFICES ASSUME NEW j \in Inbounds, k.run[j] # Empty PROVE BaseOk(m, k, j)
    OBVIOUS
  <2>1. j # i /\ k.run[j] = o.run[j]
    BY <1>5 DEF ShareTo
  <2>2. BaseOk(d, o, j)
    BY <1>3, <1>8, <2>1 DEF OpOk
  <2>3. j \in Live(m) /\ m.settings[j] = d.settings[j]
    BY <1>12, <2>1, <2>2 DEF BaseOk
  <2> QED BY <1>6, <2>1, <2>2, <2>3, BaseStays, ListGoesOn
<1>14a. Checked(k)
  BY <1>2, <1>3, <1>6, CheckGoesOn DEF OpOk, Waits
<1>15. CASE Single
  <2>1. AloneOk(d, o)
    BY <1>3, <1>8, <1>15 DEF OpOk
  <2>2. AloneOk(m, k) /\ Unique(m)
    BY <1>2, <1>3, <1>5, <1>6, <1>8, <1>9, <1>10, <1>11, <2>1, CommitAlone
  <2>3. OpOk(m, k)
    BY <1>6, <1>7, <1>14, <1>14a, <1>15, <2>2, LoadGoesOn DEF OpOk
  <2>4. k # Empty
    BY <1>5, RequestSome DEF ShareTo
  <2>5. ASSUME NEW q \in Procs \ {p}, NEW j \in Inbounds, Busy(op[q], j) PROVE FALSE
    BY <1>15, <2>5 DEF MemInv, Busy, Single
  <2> QED BY <1>2, <1>4, <1>8, <1>10, <1>13, <1>15, <2>2, <2>3, <2>4, <2>5, OneAgree
<1>16. CASE ~Single
  <2>1. SharedOk(d, o) /\ AllAgree(d) /\ \A j, l \in Live(d) : j = l
    BY <1>3, <1>8, <1>16 DEF OpOk, AgreeInv
  <2>2. ~Renames(o)
    BY <2>1 DEF SharedOk, Renames
  <2>3. \A e \in DOMAIN d.settings[i] : HasRecord(d, e)
    BY <1>3, <1>8, <1>12, <2>2, SettingsHave
  <2>4. SharedCommitOf(d, o, i, m)
    BY <1>3, <1>8, <1>10, <1>11, <2>1, <2>2, <2>3 DEF SharedCommitOf
  <2>5. AllAgree(m) /\ Unique(m) /\ CredsStay(d, m)
    BY <1>2, <1>3, <1>7, <2>4, SharedCommit
  <2>6. SharedOk(m, k)
    BY <1>6, <2>1, <2>5, SharedStays, SharedGoesOn DEF GoesOn
  <2>7. OpOk(m, k)
    BY <1>6, <1>7, <1>14, <1>14a, <1>16, <2>6, LoadGoesOn DEF OpOk
  <2>8. ASSUME NEW q \in Procs \ {p}, NEW j \in Inbounds, Busy(op[q], j)
        PROVE  j \in Live(m) /\ m.settings[j] = d.settings[j]
    <3>1. j # i
      <4>1. Busy(op[p], i)
        BY <1>1, <1>2 DEF Busy
      <4> QED BY <2>8, <4>1 DEF LockInv
    <3>2. BaseOk(d, op[q], j)
      BY <1>8, <2>8 DEF AgreeInv, OpOk, Busy
    <3> QED BY <1>12, <3>1, <3>2 DEF BaseOk
  <2>9. /\ Typed(db') /\ Unique(db') /\ LinksLive(db') /\ OpOk(db', k) /\ AllAgree(db')
        /\ Live(db') \subseteq Live(db) /\ CredsStay(db, db')
    BY <1>8, <1>10, <1>12, <1>13, <2>5, <2>7
  <2>10. \A q \in Procs \ {p}, j \in Inbounds :
           Busy(op[q], j) => j \in Live(db') /\ db'.settings[j] = db.settings[j]
    BY <1>8, <2>8
  <2> QED BY <1>2, <1>4, <1>16, <2>9, <2>10, OneAgree
<1> QED BY <1>15, <1>16

\* A step of a request alone.
LEMMA OneAlone ==
  ASSUME LockInv, MemInv, AgreeInv, Single, NEW p \in Procs, p \in workload.procs,
         NEW k, op' = [op EXCEPT ![p] = k], workload' = workload, Typed(db'), Unique(db'), LinksLive(db'),
         k # Empty => OpOk(db', k), k = Empty => AllAgree(db')
  PROVE  AgreeInv'
<1>1. ASSUME NEW q \in Procs \ {p}, NEW i \in Inbounds, Busy(op[q], i) PROVE FALSE
  BY <1>1 DEF MemInv, Busy, Single
<1> QED BY <1>1, OneAgree

\* A step that leaves settings and records as they are, but for those that go.
LEMMA ShedRest ==
  ASSUME NEW d, NEW m, m.settings = d.settings, \A e, v : Has(m, e, v) => Has(d, e, v),
         \A e \in DOMAIN m.stat : e \in DOMAIN d.stat /\ m.stat[e] = d.stat[e],
         m.stat = [e \in DOMAIN m.stat |-> m.stat[e]], Typed(d)
  PROVE  Typed(m) /\ Live(m) = Live(d) /\ \A i : Sheds(d, i, m)
<1>1. Live(m) = Live(d)
  BY DEF Live
<1>2. \A n \in DOMAIN m.rec : EntryOf(m, n) \in Entry
  <2> SUFFICES ASSUME NEW n \in DOMAIN m.rec PROVE EntryOf(m, n) \in Entry
    OBVIOUS
  <2>1. Has(m, m.rec[n].email, EntryOf(m, n))
    BY DEF Has
  <2> QED BY <2>1, HasTyped
<1>3. m.stat \in [DOMAIN m.stat -> [on : BOOLEAN, lim : Nat, used : {0}]]
  BY DEF Typed
<1>4. Typed(m)
  BY <1>1, <1>2, <1>3 DEF Typed
<1> QED BY <1>1, <1>4 DEF Sheds

LEMMA PurgeAgree ==
  ASSUME LockInv, MemInv, AgreeInv, Undisturbed, NEW p \in Procs, p \in workload.procs, NEW i \in Inbounds,
         BulkPurge(p, i)
  PROVE  AgreeInv'
<1>1. PICK o, r : o = op[p] /\ r = o.run[i]
  OBVIOUS
<1>2. /\ o # Empty /\ o.kind = "bulkdelete" /\ r # Empty /\ workload' = workload /\ "fail" \notin workload.kinds
  BY <1>1 DEF BulkPurge, Undisturbed
<1>3. /\ Fields \subseteq DOMAIN db /\ ReqShape(o) /\ Holds(db, o, i, r) /\ OpOk(db, o) /\ Typed(db) /\ Unique(db)
      /\ LinksLive(db)
  BY <1>1, <1>2 DEF LockInv, Serves, Shape, AgreeInv
<1>4. PICK k : k = [o EXCEPT !.run[i].drop = {}] /\ op' = [op EXCEPT ![p] = k] /\ db' = DelStats(db, r.drop)
  BY <1>1, <1>2 DEF BulkPurge
<1>5. /\ SameReq(o, k) /\ k.field = o.field /\ k.run = [o.run EXCEPT ![i].drop = {}]
  BY <1>3, <1>4 DEF ReqShape, SameReq
<1>6. /\ k.run[i] = [r EXCEPT !.drop = {}] /\ \A j \in Inbounds \ {i} : k.run[j] = o.run[j]
  BY <1>1, <1>3, <1>5 DEF ReqShape
<1>7. k.run[i].base = r.base /\ k.run[i].ours = r.ours
  BY <1>3, <1>6 DEF Holds
<1>8. Single /\ AloneOk(db, o) /\ AllAgree(db)
  <2>1. Single
    BY <1>2, <1>3 DEF OpOk, SharedOk
  <2> QED BY <1>2, <1>3, <2>1 DEF OpOk, AloneOk, Updates, Edits
<1>9. /\ db'.settings = db.settings /\ db'.rec = db.rec /\ db'.link = db.link
      /\ db'.stat = [e \in DOMAIN db.stat \ r.drop |-> db.stat[e]]
  BY <1>3, <1>4 DEF DelStats, Without, Fields
<1>10. /\ DOMAIN db'.stat = DOMAIN db.stat \ r.drop
       /\ \A e \in DOMAIN db'.stat : e \in DOMAIN db.stat /\ db'.stat[e] = db.stat[e]
       /\ db'.stat = [e \in DOMAIN db'.stat |-> db'.stat[e]]
  BY <1>9
<1>11. \A e, v : Has(db', e, v) => Has(db, e, v)
  BY <1>9, SameHas
<1>12. Typed(db') /\ Live(db') = Live(db) /\ Sheds(db, i, db')
  BY <1>3, <1>9, <1>10, <1>11, ShedRest
<1>13. AllAgree(db') /\ Unique(db') /\ LinksLive(db')
  BY <1>3, <1>8, <1>9, <1>12, ShedAgree DEF LinksLive
<1>14. k.kind = "bulkdelete" /\ k.kind \notin Adds \cup Updates \cup Edits
  BY <1>2, <1>5 DEF SameReq, Adds, Updates, Edits
<1>15. ASSUME NEW j \in Inbounds, k.run[j] # Empty PROVE BaseOk(db', k, j)
  <2>1. BaseOk(db, o, j) /\ k.run[j].base = o.run[j].base /\ k.run[j].ours = o.run[j].ours
    <3>1. CASE j = i
      BY <1>1, <1>2, <1>3, <1>7, <3>1 DEF OpOk
    <3>2. CASE j # i
      BY <1>3, <1>6, <1>15, <3>2 DEF OpOk
    <3> QED BY <3>1, <3>2
  <2>2. \A base : List(k, j, base) = List(o, j, base)
    BY <1>5, SameReqFacts DEF List, SameReq
  <2> QED BY <1>9, <1>12, <1>14, <2>1, <2>2 DEF BaseOk
<1>16. OpOk(db', k)
  BY <1>8, <1>13, <1>14, <1>15 DEF OpOk, AloneOk, LoadTyped, Checked
<1>17. k # Empty
  <2>1. "kind" \in DOMAIN k /\ DOMAIN Empty = {}
    BY <1>3, <1>4 DEF ReqShape, Empty
  <2> QED BY <2>1
<1> QED BY <1>2, <1>4, <1>8, <1>12, <1>13, <1>16, <1>17, OneAlone

----------------------------------------------------------------------------
(***************************************************************************)
(* Requests begin.                                                         *)
(***************************************************************************)

LEMMA UndisturbedCareful ==
  ASSUME Undisturbed
  PROVE  Careful /\ (~Single => workload.kinds \subseteq {"attach", "detach", "field"})
BY DEF Undisturbed, Careful, Single

\* Before a request of a process that serves none.
LEMMA IdleAgree ==
  ASSUME MemInv, AgreeInv, Undisturbed, NEW p \in Procs, p \in workload.procs, op[p] = Empty
  PROVE  Plain(db) /\ AllAgree(db) /\ Typed(db) /\ Unique(db) /\ LinksLive(db) /\ RecInv(db)
<1>1. Plain(db)
  BY UndisturbedCareful, IdleIsPlain
<1>2. AllAgree(db)
  <2>1. CASE Single
    <3>1. \A q \in Procs : op[q] = Empty
      BY <2>1 DEF MemInv, Single
    <3> QED BY <2>1, <3>1 DEF AgreeInv
  <2>2. CASE ~Single
    BY <2>2 DEF AgreeInv
  <2> QED BY <2>1, <2>2
<1> QED BY <1>1, <1>2 DEF AgreeInv, MemInv

LEMMA BeginAgree ==
  ASSUME LockInv, MemInv, AgreeInv, Undisturbed, NEW p \in Procs, p \in workload.procs, op[p] = Empty,
         NEW k, op' = [op EXCEPT ![p] = k], workload' = workload, UNCHANGED db,
         NEW kind, NEW ids, NEW load, Begun(db, k, kind, ids, load), k.depleted = None, LoadTyped(k),
         Single => AloneOk(db, k), ~Single => SharedOk(db, k)
  PROVE  AgreeInv'
<1>1. AllAgree(db)
  BY IdleAgree
<1>2. OpOk(db, k)
  BY DEF OpOk, Begun, Checked
<1> QED BY <1>1, <1>2, OneReads

LEMMA HasOne ==
  ASSUME NEW d, RecInv(d), NEW e, NEW v, NEW w, Has(d, e, v), Has(d, e, w)
  PROVE  v = w
<1>1. PICK n \in DOMAIN d.rec : d.rec[n].email = e /\ EntryOf(d, n) = v
  BY DEF Has
<1>2. PICK m \in DOMAIN d.rec : d.rec[m].email = e /\ EntryOf(d, m) = w
  BY DEF Has
<1>3. m = n
  BY <1>1, <1>2 DEF RecInv
<1> QED BY <1>1, <1>2, <1>3

\* A request to attach clients with the entries of their records.
Copies(d, o) ==
    /\ o.kind = "attach"
    /\ \A i \in Inbounds : /\ o.load[i] = [e \in DOMAIN o.load[i] |-> o.load[i][e]]
                           /\ \A e \in DOMAIN o.load[i] : Has(d, e, o.load[i][e])

LEMMA CopiesFit ==
  ASSUME NEW d, RecInv(d), Typed(d), Unique(d), AllAgree(d), NEW o, Copies(d, o)
  PROVE  LoadTyped(o) /\ AloneOk(d, o) /\ SharedOk(d, o)
<1>1. ASSUME NEW i \in Inbounds, NEW e \in DOMAIN o.load[i]
      PROVE  o.load[i][e] \in Entry /\ Has(d, e, o.load[i][e]) /\ e \in Emails /\ HasRecord(d, e)
  <2>1. Has(d, e, o.load[i][e])
    BY DEF Copies
  <2> QED BY <2>1, HasTyped, HasEmail
<1>2. ASSUME NEW i \in Inbounds, NEW e \in DOMAIN o.load[i], NEW f \in Emails, NEW v \in Entry, Has(d, f, v)
      PROVE  (f = e => v = o.load[i][e]) /\ (v.cred = o.load[i][e].cred <=> f = e)
  <2>1. f = e => v = o.load[i][e]
    BY <1>1, <1>2, HasOne
  <2>2. v.cred = o.load[i][e].cred => f = e
    BY <1>1, <1>2 DEF Unique
  <2> QED BY <2>1, <2>2
<1>3. LoadTyped(o)
  <2>1. ASSUME NEW i \in Inbounds PROVE Entries(o.load[i])
    <3>1. DOMAIN o.load[i] \subseteq Emails /\ \A e \in DOMAIN o.load[i] : o.load[i][e] \in Entry
      BY <1>1
    <3>2. o.load[i] = [e \in DOMAIN o.load[i] |-> o.load[i][e]]
      BY DEF Copies
    <3> QED BY <3>1, <3>2 DEF Entries
  <2> QED BY <2>1 DEF LoadTyped, Copies, Adds, Updates, Edits
<1>4. ASSUME NEW i \in Inbounds, NEW e \in DOMAIN o.load[i] PROVE Fits(d, o, e, o.load[i][e])
  <2>1. PICK x \in Entry : x = o.load[i][e] /\ Has(d, e, x) /\ e \in Emails
    BY <1>1
  <2>2. ASSUME NEW f \in Emails, NEW v \in Entry, Has(d, f, v)
        PROVE  (f = e => v = x) /\ (v.cred = x.cred => f = e)
    BY <1>2, <2>1, <2>2
  <2>3. ASSUME NEW j \in Inbounds, NEW f \in DOMAIN o.load[j]
        PROVE  (f = e => o.load[j][f] = x) /\ (o.load[j][f].cred = x.cred => f = e)
    <3>1. o.load[j][f] \in Entry /\ Has(d, f, o.load[j][f]) /\ f \in Emails
      BY <1>1
    <3> QED BY <2>2, <3>1
  <2> QED BY <2>1, <2>2, <2>3 DEF Fits
<1>5. AddsOk(d, o)
  BY <1>4 DEF AddsOk
<1> QED BY <1>1, <1>2, <1>3, <1>5 DEF AloneOk, SharedOk, Copies, Adds, Updates, Edits

LEMMA CreateAgree ==
  ASSUME LockInv, MemInv, AgreeInv, Undisturbed, NEW p \in Procs, p \in workload.procs, Create(p)
  PROVE  AgreeInv'
<1>0. op[p] = Empty /\ UNCHANGED <<db, workload>> /\ "create" \in workload.kinds /\ "readd" \notin workload.kinds
  BY DEF Create, Idle, Op, Undisturbed
<1>1. Single
  BY <1>0, UndisturbedCareful
<1>2. RecInv(db) /\ AllAgree(db) /\ workload.limits \subseteq Nat
  BY <1>0, IdleAgree, ClientStoreAssumption DEF LockInv
<1>3. PICK E \in SUBSET Emails, S \in SUBSET Live(db) :
      \E new \in [E -> [cred : Creds, on : {TRUE}, lim : workload.limits]] :
         /\ \A e, f \in E : e # f => new[e].cred # new[f].cred
         /\ \A e \in E : ~Taken(new[e].cred, {e}) /\ ~HasRecord(db, e)
         /\ Serve(p, Request("create", {}, [i \in Inbounds |-> IF i \in S THEN new ELSE Empty]))
  BY <1>0 DEF Create
<1>4. PICK new \in [E -> [cred : Creds, on : {TRUE}, lim : workload.limits]] :
         /\ \A e, f \in E : e # f => new[e].cred # new[f].cred
         /\ \A e \in E : ~Taken(new[e].cred, {e}) /\ ~HasRecord(db, e)
         /\ Serve(p, Request("create", {}, [i \in Inbounds |-> IF i \in S THEN new ELSE Empty]))
  BY <1>3
<1> DEFINE load == [i \in Inbounds |-> IF i \in S THEN new ELSE Empty]
<1>5. op' = [op EXCEPT ![p] = Request("create", {}, load)]
  BY <1>4 DEF Serve
<1>6. Entries(new) /\ DOMAIN new = E
  <2>1. \A e \in E : new[e] \in Entry
    BY <1>2 DEF Entry
  <2> QED BY <2>1 DEF Entries
<1>7. \A i \in Inbounds : Entries(load[i]) /\ (DOMAIN load[i] = {} \/ load[i] = new)
  BY <1>6, EmptyEntries
<1> HIDE DEF load
<1>8. PICK k : op' = [op EXCEPT ![p] = k] /\ Begun(db, k, "create", {}, load) /\ k.depleted = None
  <2>1. PICK k : k = Request("create", {}, load)
    OBVIOUS
  <2>2. Begun(db, k, "create", {}, load)
    BY <2>1, RequestBegun
  <2>3. k.depleted = None
    BY <2>1 DEF Request
  <2> QED BY <1>5, <2>1, <2>2, <2>3
<1>9. k.kind = "create" /\ k.load = load
  BY <1>8 DEF Begun
<1>10. LoadTyped(k)
  BY <1>7, <1>9 DEF LoadTyped, Adds, Updates, Edits
<1>11. ASSUME NEW i \in Inbounds, NEW e \in DOMAIN load[i] PROVE Fits(db, k, e, load[i][e])
  <2>1. PICK x \in Entry : x = load[i][e] /\ x = new[e] /\ e \in E
    BY <1>6, <1>7, <1>11 DEF Entries
  <2>2. ASSUME NEW f \in Emails, NEW v \in Entry, Has(db, f, v)
        PROVE  (f = e => v = x) /\ (v.cred = x.cred => f = e)
    <3>1. f # e
      BY <1>2, <1>4, <2>1, <2>2, HasEmail
    <3>2. PICK n \in DOMAIN db.rec : db.rec[n].email = f /\ db.rec[n].cred = v.cred
      BY <2>2 DEF Has, EntryOf
    <3>3. v.cred = x.cred => FALSE
      BY <1>4, <2>1, <3>1, <3>2 DEF Taken
    <3> QED BY <3>1, <3>3
  <2>3. ASSUME NEW j \in Inbounds, NEW f \in DOMAIN load[j]
        PROVE  (f = e => load[j][f] = x) /\ (load[j][f].cred = x.cred => f = e)
    <3>1. load[j] = new /\ f \in E
      BY <1>6, <1>7, <2>3
    <3> QED BY <1>4, <2>1, <3>1
  <2> QED BY <1>9, <2>1, <2>2, <2>3 DEF Fits
<1>12. AloneOk(db, k)
  BY <1>2, <1>9, <1>11 DEF AloneOk, AddsOk, Adds, Updates, Edits
<1> QED BY <1>0, <1>1, <1>8, <1>10, <1>12, BeginAgree

LEMMA AttachAgree ==
  ASSUME LockInv, MemInv, AgreeInv, Undisturbed, NEW p \in Procs, p \in workload.procs, Attach(p) \/ BulkAttach(p)
  PROVE  AgreeInv'
<1>0. op[p] = Empty /\ UNCHANGED <<db, workload>>
  BY DEF Attach, BulkAttach, Idle, Op
<1>1. RecInv(db) /\ AllAgree(db) /\ Typed(db) /\ Unique(db)
  BY <1>0, IdleAgree
<1>2. ASSUME NEW ids, NEW load, op' = [op EXCEPT ![p] = Request("attach", ids, load)],
             \A i \in Inbounds : /\ load[i] = [e \in DOMAIN load[i] |-> load[i][e]]
                                 /\ \A e \in DOMAIN load[i] : Has(db, e, load[i][e])
      PROVE  AgreeInv'
  <2>1. PICK k : k = Request("attach", ids, load)
    OBVIOUS
  <2>2. Begun(db, k, "attach", ids, load)
    BY <2>1, RequestBegun
  <2>3. k.depleted = None
    BY <2>1 DEF Request
  <2>4. Copies(db, k)
    BY <1>2, <2>2 DEF Copies, Begun
  <2> QED BY <1>0, <1>1, <1>2, <2>1, <2>2, <2>3, <2>4, CopiesFit, BeginAgree
<1>3. CASE Attach(p)
  <2>1. PICK n \in DOMAIN db.rec, S \in SUBSET Inbounds :
          Serve(p, Request("attach", {n},
              [i \in Inbounds |-> IF i \in S THEN Just(db.rec[n].email, EntryOf(db, n)) ELSE Empty]))
    BY <1>3 DEF Attach
  <2> DEFINE one == Just(db.rec[n].email, EntryOf(db, n))
             load == [i \in Inbounds |-> IF i \in S THEN one ELSE Empty]
  <2>2. Has(db, db.rec[n].email, EntryOf(db, n))
    BY DEF Has
  <2>3. /\ one = [e \in DOMAIN one |-> one[e]] /\ \A e \in DOMAIN one : Has(db, e, one[e])
    BY <2>2 DEF Just
  <2>4. Empty = [e \in DOMAIN Empty |-> Empty[e]] /\ DOMAIN Empty = {}
    BY DEF Empty
  <2>5. op' = [op EXCEPT ![p] = Request("attach", {n}, load)]
    BY <2>1 DEF Serve
  <2> HIDE DEF one
  <2>6. \A i \in Inbounds : /\ load[i] = [e \in DOMAIN load[i] |-> load[i][e]]
                            /\ \A e \in DOMAIN load[i] : Has(db, e, load[i][e])
    BY <2>3, <2>4
  <2> HIDE DEF load
  <2> QED BY <1>2, <2>5, <2>6
<1>4. CASE BulkAttach(p)
  <2>1. PICK ids \in SUBSET DOMAIN db.rec, S \in SUBSET Live(db) :
         LET E == {db.rec[n].email : n \in ids}
             entry(e) == EntryOf(db, CHOOSE n \in ids : db.rec[n].email = e)
         IN  Serve(p, Request("attach", ids,
               [i \in Inbounds |-> IF i \in S THEN [e \in E \ DOMAIN db.settings[i] |-> entry(e)]
                                   ELSE Empty]))
    BY <1>4 DEF BulkAttach
  <2> DEFINE E == {db.rec[n].email : n \in ids}
             entry(e) == EntryOf(db, CHOOSE n \in ids : db.rec[n].email = e)
             load == [i \in Inbounds |-> IF i \in S THEN [e \in E \ DOMAIN db.settings[i] |-> entry(e)]
                                         ELSE Empty]
  <2>2. op' = [op EXCEPT ![p] = Request("attach", ids, load)]
    BY <2>1 DEF Serve
  <2>3. ASSUME NEW e \in E PROVE Has(db, e, entry(e))
    <3>1. PICK n \in ids : n = (CHOOSE x \in ids : db.rec[x].email = e) /\ db.rec[n].email = e
      BY <2>3
    <3> QED BY <2>1, <3>1 DEF Has
  <2>4. Empty = [e \in DOMAIN Empty |-> Empty[e]] /\ DOMAIN Empty = {}
    BY DEF Empty
  <2> HIDE DEF E, entry
  <2>5. \A i \in Inbounds : /\ load[i] = [e \in DOMAIN load[i] |-> load[i][e]]
                            /\ \A e \in DOMAIN load[i] : Has(db, e, load[i][e])
    BY <2>3, <2>4
  <2> HIDE DEF load
  <2> QED BY <1>2, <2>2, <2>5
<1> QED BY <1>3, <1>4

LEMMA RemoveAgree ==
  ASSUME LockInv, MemInv, AgreeInv, Undisturbed, NEW p \in Procs, p \in workload.procs,
         Detach(p) \/ Delete(p) \/ BulkDelete(p) \/ DeleteOrphans(p)
  PROVE  AgreeInv'
<1>0. op[p] = Empty /\ UNCHANGED <<db, workload>>
  BY DEF Detach, Delete, BulkDelete, DeleteOrphans, Idle, Op
<1>1. AllAgree(db)
  BY <1>0, IdleAgree
<1>2. ASSUME NEW kind \in {"detach", "delete", "bulkdelete", "orphans"}, kind \in workload.kinds,
             NEW k, op' = [op EXCEPT ![p] = k],
             NEW ids, NEW load, Begun(db, k, kind, ids, load), k.depleted = None
      PROVE  AgreeInv'
  <2>1. k.kind = kind /\ kind \notin Adds \cup Updates \cup Edits
    BY <1>2 DEF Begun, Adds, Updates, Edits
  <2>2. LoadTyped(k) /\ AloneOk(db, k)
    BY <1>1, <2>1 DEF LoadTyped, AloneOk
  <2>3. ~Single => SharedOk(db, k)
    <3>1. ~Single => kind = "detach"
      BY <1>2, UndisturbedCareful
    <3> QED BY <2>1, <3>1 DEF SharedOk
  <2> QED BY <1>0, <1>2, <2>2, <2>3, BeginAgree
<1>3. CASE Detach(p)
  <2>1. PICK ids, load : op' = [op EXCEPT ![p] = Request("detach", ids, load)] /\ "detach" \in workload.kinds
    BY <1>3 DEF Detach, Serve, Idle, Op
  <2>2. PICK k : k = Request("detach", ids, load)
    OBVIOUS
  <2>3. Begun(db, k, "detach", ids, load)
    BY <2>2, RequestBegun
  <2>4. k.depleted = None
    BY <2>2 DEF Request
  <2> QED BY <1>2, <2>1, <2>2, <2>3, <2>4
<1>4. CASE Delete(p)
  <2>1. PICK ids, load, keep : /\ op' = [op EXCEPT ![p] = [Request("delete", ids, load) EXCEPT !.keep = keep]]
                               /\ "delete" \in workload.kinds
    BY <1>4 DEF Delete, Serve, Idle, Op
  <2>2. PICK k : k = [Request("delete", ids, load) EXCEPT !.keep = keep]
    OBVIOUS
  <2>3. Begun(db, k, "delete", ids, load)
    BY <2>2, RequestBegun
  <2>4. k.depleted = None
    BY <2>2 DEF Request
  <2> QED BY <1>2, <2>1, <2>2, <2>3, <2>4
<1>5. CASE BulkDelete(p)
  <2>1. PICK ids, load, keep : /\ op' = [op EXCEPT ![p] = [Request("bulkdelete", ids, load) EXCEPT !.keep = keep]]
                               /\ "bulkdelete" \in workload.kinds
    BY <1>5 DEF BulkDelete, Serve, Idle, Op
  <2>2. PICK k : k = [Request("bulkdelete", ids, load) EXCEPT !.keep = keep]
    OBVIOUS
  <2>3. Begun(db, k, "bulkdelete", ids, load)
    BY <2>2, RequestBegun
  <2>4. k.depleted = None
    BY <2>2 DEF Request
  <2> QED BY <1>2, <2>1, <2>2, <2>3, <2>4
<1>6. CASE DeleteOrphans(p)
  <2>1. PICK ids, load : op' = [op EXCEPT ![p] = Request("orphans", ids, load)] /\ "orphans" \in workload.kinds
    BY <1>6 DEF DeleteOrphans, Serve, Idle, Op
  <2>2. PICK k : k = Request("orphans", ids, load)
    OBVIOUS
  <2>3. Begun(db, k, "orphans", ids, load)
    BY <2>2, RequestBegun
  <2>4. k.depleted = None
    BY <2>2 DEF Request
  <2> QED BY <1>2, <2>1, <2>2, <2>3, <2>4
<1> QED BY <1>3, <1>4, <1>5, <1>6

\* A client that is in the settings is linked, and by its own record.
LEMMA OwnLink ==
  ASSUME NEW d, RecInv(d), Plain(d), NEW n \in DOMAIN d.rec, NEW i \in Live(d)
  PROVE  d.rec[n].email \in DOMAIN d.settings[i] <=> <<n, i>> \in d.link
<1>1. DOMAIN d.settings[i] = NamesAt(d, i)
  BY DEF Plain, Linked
<1>2. ASSUME d.rec[n].email \in NamesAt(d, i) PROVE <<n, i>> \in d.link
  <2>1. PICK m \in DOMAIN d.rec : <<m, i>> \in d.link /\ d.rec[m].email = d.rec[n].email
    BY <1>2 DEF NamesAt
  <2>2. m = n
    BY <2>1 DEF RecInv
  <2> QED BY <2>1, <2>2
<1>3. <<n, i>> \in d.link => d.rec[n].email \in NamesAt(d, i)
  BY DEF NamesAt
<1> QED BY <1>1, <1>2, <1>3

LEMMA AgreeLess ==
  ASSUME NEW d, AllAgree(d), NEW E, NEW X
  PROVE  Agree(d, E, X)
<1> SUFFICES ASSUME NEW i \in Live(d), NEW e \in DOMAIN d.settings[i]
             PROVE  AgreeAt(d, i, e, IF e \in E THEN X ELSE {})
  BY DEF Agree
<1>1. AgreeAt(d, i, e, {})
  <2>1. (IF e \in {} THEN {} ELSE {}) = {}
    OBVIOUS
  <2> QED BY <2>1 DEF AllAgree, Agree
<1>2. AgreeAt(d, i, e, X)
  BY <1>1 DEF AgreeAt, Same, SameRow
<1> QED BY <1>1, <1>2

\* A change of one field of the clients in ids.
EditBegun(o, ids, value) ==
    /\ Begun(db, o, o.kind, ids, Attached(ids, Inbounds, value))
    /\ o.field = IF o.kind = "enable" THEN "on" ELSE "lim"
    /\ \A n \in ids : /\ Value(o, db.rec[n].email) = value[db.rec[n].email]
                      /\ value[db.rec[n].email] \in IF o.kind = "enable" THEN BOOLEAN ELSE Nat

LEMMA EditBegins ==
  ASSUME RecInv(db), Plain(db), LinksLive(db), AllAgree(db), NEW ids, ids \subseteq DOMAIN db.rec, NEW value,
         NEW o, o.kind \in Edits, EditBegun(o, ids, value)
  PROVE  LoadTyped(o) /\ AloneOk(db, o)
<1> DEFINE load == Attached(ids, Inbounds, value)
<1>1. /\ o.load = load /\ o.failed = {} /\ o.emails = {db.rec[n].email : n \in ids}
      /\ o.todo = {i \in Inbounds : DOMAIN load[i] # {}}
  BY DEF EditBegun, Begun
<1>2. ASSUME NEW i \in Inbounds
      PROVE  /\ DOMAIN load[i] = {db.rec[n].email : n \in {m \in ids : <<m, i>> \in db.link}}
             /\ \A e \in DOMAIN load[i] : load[i][e] = value[e]
  BY DEF Attached
<1> HIDE DEF load
<1>3. ASSUME NEW e \in o.emails
      PROVE  Value(o, e) = value[e] /\ value[e] \in IF o.kind = "enable" THEN BOOLEAN ELSE Nat
  BY <1>1, <1>3 DEF EditBegun
<1>4. ASSUME NEW i \in Inbounds, NEW e \in DOMAIN o.load[i]
      PROVE  i \in Live(db) /\ e \in DOMAIN db.settings[i] /\ e \in o.emails /\ o.load[i][e] = Value(o, e)
  <2>1. PICK n \in ids : <<n, i>> \in db.link /\ db.rec[n].email = e
    BY <1>1, <1>2, <1>4
  <2>2. <<n, i>>[2] \in Live(db)
    BY <2>1 DEF LinksLive
  <2>3. e \in DOMAIN db.settings[i]
    BY <2>1, <2>2, OwnLink
  <2> QED BY <1>1, <1>2, <1>3, <1>4, <2>1, <2>2, <2>3
<1>5. ASSUME NEW i \in Live(db), NEW e \in o.emails \cap DOMAIN db.settings[i]
      PROVE  e \in DOMAIN o.load[i] /\ Waits(o, i)
  <2>1. PICK n \in ids : db.rec[n].email = e
    BY <1>1, <1>5
  <2>2. i \in Inbounds /\ <<n, i>> \in db.link
    BY <2>1, OwnLink DEF Live
  <2>3. e \in DOMAIN o.load[i]
    BY <1>1, <1>2, <2>1, <2>2
  <2> QED BY <1>1, <2>2, <2>3 DEF Waits
<1>6. EditsOk(db, o)
  <2>1. Agree(db, o.emails, {o.field})
    BY AgreeLess
  <2>2. o.field = IF o.kind = "enable" THEN "on" ELSE "lim"
    BY DEF EditBegun
  <2>3. \A e \in o.emails : Value(o, e) \in IF o.kind = "enable" THEN BOOLEAN ELSE Nat
    BY <1>3
  <2> QED BY <1>1, <1>4, <1>5, <2>1, <2>2, <2>3 DEF EditsOk
<1>7. LoadTyped(o)
  <2>1. o.field \in {"on", "lim"} /\ (o.field = "on" <=> o.kind = "enable")
    BY DEF EditBegun
  <2>2. ASSUME NEW i \in Inbounds, NEW e \in DOMAIN o.load[i]
        PROVE  o.load[i][e] \in IF o.field = "on" THEN BOOLEAN ELSE Nat
    BY <1>3, <1>4, <2>1, <2>2
  <2> QED BY <2>1, <2>2 DEF LoadTyped, Adds, Updates, Edits
<1> QED BY <1>6, <1>7 DEF AloneOk, Adds, Updates, Edits

\* The request to switch clients on or off.
LEMMA EnableBegins ==
  ASSUME RecInv(db), Plain(db), LinksLive(db), AllAgree(db), NEW ids, ids \subseteq DOMAIN db.rec,
         NEW on \in BOOLEAN, NEW k, k = EnableRequest(ids, on)
  PROVE  \E load : Begun(db, k, "enable", ids, load) /\ k.depleted = None /\ LoadTyped(k) /\ AloneOk(db, k)
<1> DEFINE value == [e \in Emails |-> on]
           load == Attached(ids, Inbounds, value)
<1>1. k = [Request("enable", ids, load) EXCEPT !.payload = on]
  BY DEF EnableRequest
<1>2. Begun(db, k, "enable", ids, load) /\ k.payload = on /\ k.depleted = None /\ k.field = "on"
  <2> HIDE DEF load
  <2>1. Begun(db, k, "enable", ids, load)
    BY <1>1 DEF Request, Begun
  <2>2. k.payload = on /\ k.depleted = None /\ k.field = "on"
    BY <1>1 DEF Request
  <2> QED BY <2>1, <2>2
<1>3. k.kind = "enable"
  BY <1>2 DEF Begun
<1>4. \A n \in ids : db.rec[n].email \in Emails
  BY DEF RecInv
<1>5. EditBegun(k, ids, value)
  BY <1>2, <1>3, <1>4 DEF EditBegun, Value
<1> HIDE DEF value, load
<1>6. LoadTyped(k) /\ AloneOk(db, k)
  BY <1>3, <1>5, EditBegins DEF Edits
<1> QED BY <1>2, <1>6

LEMMA EditAgree ==
  ASSUME LockInv, MemInv, AgreeInv, Undisturbed, NEW p \in Procs, p \in workload.procs,
         BulkSetEnable(p) \/ BulkAdjust(p)
  PROVE  AgreeInv'
<1>0. op[p] = Empty /\ UNCHANGED <<db, workload>> /\ Single
  BY UndisturbedCareful DEF BulkSetEnable, BulkAdjust, Idle, Op
<1>1. AllAgree(db) /\ Plain(db) /\ RecInv(db) /\ LinksLive(db) /\ Typed(db)
  BY <1>0, IdleAgree
<1>2. CASE BulkSetEnable(p)
  <2>1. PICK ids \in SUBSET DOMAIN db.rec, on \in BOOLEAN : Serve(p, EnableRequest(ids, on))
    BY <1>2 DEF BulkSetEnable
  <2>2. PICK k : k = EnableRequest(ids, on) /\ op' = [op EXCEPT ![p] = k]
    BY <2>1 DEF Serve
  <2>3. PICK load : Begun(db, k, "enable", ids, load) /\ k.depleted = None /\ LoadTyped(k) /\ AloneOk(db, k)
    BY <1>1, <2>2, EnableBegins
  <2> QED BY <1>0, <2>2, <2>3, BeginAgree
<1>3. CASE BulkAdjust(p)
  <2>1. PICK ids, plan :
          /\ ids \subseteq DOMAIN db.rec
          /\ plan = [e \in {db.rec[n].email : n \in ids} |->
                        1 + db.rec[CHOOSE n \in ids : db.rec[n].email = e].lim]
          /\ Serve(p, [Request("adjust", ids, Attached(ids, Inbounds, plan)) EXCEPT !.field = "lim", !.payload = plan])
    BY <1>3 DEF BulkAdjust
  <2>2. ASSUME NEW n \in ids PROVE plan[db.rec[n].email] \in Nat
    <3>1. PICK m \in ids : /\ m = (CHOOSE x \in ids : db.rec[x].email = db.rec[n].email)
                           /\ db.rec[m].email = db.rec[n].email
      BY <2>2
    <3>2. db.rec[m].lim \in Nat
      <4>1. EntryOf(db, m) \in Entry
        BY <1>1, <2>1 DEF Typed
      <4> QED BY <4>1 DEF EntryOf, Entry
    <3>3. plan[db.rec[n].email] = 1 + db.rec[m].lim
      BY <2>1, <2>2, <3>1
    <3> QED BY <3>2, <3>3
  <2>3. PICK load : load = Attached(ids, Inbounds, plan)
    OBVIOUS
  <2>4. PICK k : /\ k = [Request("adjust", ids, load) EXCEPT !.field = "lim", !.payload = plan]
                 /\ op' = [op EXCEPT ![p] = k]
    BY <2>1, <2>3 DEF Serve
  <2>5. Begun(db, k, "adjust", ids, load) /\ k.depleted = None /\ k.payload = plan /\ k.field = "lim"
    <3>1. Begun(db, k, "adjust", ids, load)
      BY <2>4, RequestBegun
    <3>2. k.depleted = None /\ k.payload = plan /\ k.field = "lim"
      BY <2>4 DEF Request
    <3> QED BY <3>1, <3>2
  <2>6. k.kind = "adjust"
    BY <2>5 DEF Begun
  <2>7. EditBegun(k, ids, plan)
    BY <2>2, <2>3, <2>5, <2>6 DEF EditBegun, Value
  <2>8. LoadTyped(k) /\ AloneOk(db, k)
    BY <1>1, <2>1, <2>6, <2>7, EditBegins DEF Edits
  <2> QED BY <1>0, <2>4, <2>5, <2>8, BeginAgree
<1> QED BY <1>2, <1>3

\* A request to write want into the entries of the client n, under the name to.
UpdateBegun(d, o, n, to, want) ==
    LET from == d.rec[n].email
    IN  /\ o.kind \in Updates /\ o.ids = {n} /\ o.failed = {} /\ From(o) = from /\ Target(o) = to
        /\ o.kind = "update" => want = o.payload.entry
        /\ \A i \in Inbounds : IF i \in Live(d) /\ <<n, i>> \in d.link THEN o.load[i] = Just(to, want) /\ i \in o.todo
                               ELSE o.load[i] = Empty
        /\ to = from \/ ~HasRecord(d, to)
        /\ want.cred = d.rec[n].cred \/ \A m \in DOMAIN d.rec : d.rec[m].cred = want.cred => d.rec[m].email = from

LEMMA UpdateBegins ==
  ASSUME NEW d, RecInv(d), Plain(d), Typed(d), Unique(d), AllAgree(d), NEW o, NEW n \in DOMAIN d.rec,
         NEW to \in Emails, NEW want \in Entry, UpdateBegun(d, o, n, to, want)
  PROVE  LoadTyped(o) /\ UpdatesOk(d, o) /\ UpdatesTo(d, o, want)
<1>1. PICK from : from = d.rec[n].email /\ from \in Emails
  BY DEF RecInv
<1>2. /\ o.kind \in Updates /\ o.ids = {n} /\ o.failed = {} /\ From(o) = from /\ Target(o) = to
      /\ o.kind = "update" => want = o.payload.entry
      /\ \A i \in Inbounds : IF i \in Live(d) /\ <<n, i>> \in d.link THEN o.load[i] = Just(to, want) /\ i \in o.todo
                             ELSE o.load[i] = Empty
      /\ to = from \/ ~HasRecord(d, to)
      /\ want.cred = d.rec[n].cred \/ \A m \in DOMAIN d.rec : d.rec[m].cred = want.cred => d.rec[m].email = from
  BY <1>1 DEF UpdateBegun
<1>3. Entries(Just(to, want)) /\ DOMAIN Just(to, want) = {to}
  BY DEF Entries, Just
<1>4. LoadTyped(o)
  BY <1>2, <1>3, EmptyEntries DEF LoadTyped, Adds, Updates, Edits
<1>5. ASSUME NEW i \in Inbounds, DOMAIN o.load[i] # {} PROVE WrittenAt(d, o, i, want)
  <2>1. i \in Live(d) /\ <<n, i>> \in d.link /\ o.load[i] = Just(to, want) /\ i \in o.todo
    BY <1>2, <1>5, EmptyEntries
  <2>2. from \in DOMAIN d.settings[i]
    BY <1>1, <2>1, OwnLink
  <2> QED BY <1>2, <2>1, <2>2 DEF WrittenAt, Waits
<1>6. ASSUME NEW i \in Live(d), {from, to} \cap DOMAIN d.settings[i] # {} PROVE DOMAIN o.load[i] # {}
  <2>1. CASE from \in DOMAIN d.settings[i]
    <3>1. <<n, i>> \in d.link /\ i \in Inbounds
      BY <1>1, <2>1, OwnLink DEF Live
    <3> QED BY <1>2, <1>3, <3>1
  <2>2. CASE to \in DOMAIN d.settings[i] /\ to # from
    <3>1. to \in NamesAt(d, i)
      BY <2>2 DEF Plain, Linked
    <3>2. HasRecord(d, to)
      BY <3>1 DEF NamesAt, HasRecord, IdsOf
    <3> QED BY <1>2, <2>2, <3>2
  <2> QED BY <1>6, <2>1, <2>2
<1>7. ASSUME NEW f \in Emails \ {from, to}, NEW v \in Entry, Has(d, f, v) PROVE v.cred # want.cred
  <2>1. PICK m \in DOMAIN d.rec : d.rec[m].email = f /\ d.rec[m].cred = v.cred
    BY <1>7 DEF Has, EntryOf
  <2>2. CASE want.cred = d.rec[n].cred
    <3>1. PICK w \in Entry : w = EntryOf(d, n) /\ Has(d, from, w) /\ w.cred = d.rec[n].cred
      <4>1. EntryOf(d, n) \in Entry /\ Has(d, from, EntryOf(d, n)) /\ EntryOf(d, n).cred = d.rec[n].cred
        BY <1>1 DEF Typed, Has, EntryOf
      <4> QED BY <4>1
    <3> QED BY <1>1, <1>7, <2>2, <3>1 DEF Unique
  <2>3. CASE \A x \in DOMAIN d.rec : d.rec[x].cred = want.cred => d.rec[x].email = from
    BY <1>7, <2>1, <2>3
  <2> QED BY <1>2, <2>2, <2>3
<1>8. Agree(d, {from, to}, {"cred", "on", "lim"})
  BY AgreeLess
<1>9. \A m \in o.ids \cap DOMAIN d.rec : d.rec[m].email \in {from, to}
  BY <1>1, <1>2
<1>10. UpdatesTo(d, o, want)
  BY <1>2, <1>5, <1>6, <1>7, <1>8, <1>9 DEF UpdatesTo
<1> QED BY <1>2, <1>4, <1>10 DEF UpdatesOk

\* What an update of entries rests on: settings, records and traffic rows.
LEMMA UpdatesSame ==
  ASSUME NEW d, NEW m, m.settings = d.settings, m.rec = d.rec, m.stat = d.stat, NEW o, NEW want, UpdatesTo(d, o, want)
  PROVE  UpdatesTo(m, o, want)
<1>1. Live(m) = Live(d) /\ \A e : HasRecord(m, e) <=> HasRecord(d, e)
  BY DEF Live, HasRecord, IdsOf
<1>2. \A e, v : Has(m, e, v) <=> Has(d, e, v)
  BY SameHas
<1>3. \A i, e, X : AgreeAt(m, i, e, X) <=> AgreeAt(d, i, e, X)
  BY <1>2 DEF AgreeAt
<1>4. \A E, X : Agree(m, E, X) <=> Agree(d, E, X)
  BY <1>1, <1>3 DEF Agree
<1>5. AllAgree(m) <=> AllAgree(d)
  BY <1>4 DEF AllAgree
<1>6. \A i : WrittenAt(m, o, i, want) <=> WrittenAt(d, o, i, want)
  BY <1>1 DEF WrittenAt
<1>7. \A e, f : DoneTo(m, e, f, want) <=> DoneTo(d, e, f, want)
  BY <1>1, <1>2 DEF DoneTo
<1> QED BY <1>1, <1>2, <1>4, <1>5, <1>6, <1>7 DEF UpdatesTo

LEMMA UpdateAgree ==
  ASSUME LockInv, MemInv, AgreeInv, Undisturbed, NEW p \in Procs, p \in workload.procs, Update(p)
  PROVE  AgreeInv'
<1>0. op[p] = Empty /\ workload' = workload /\ "update" \in workload.kinds /\ Fields \subseteq DOMAIN db
  BY DEF Update, Idle, Op, LockInv, Shape
<1>1. Single
  BY <1>0, UndisturbedCareful
<1>2. Plain(db) /\ AllAgree(db) /\ Typed(db) /\ Unique(db) /\ LinksLive(db) /\ RecInv(db) /\ workload.limits \subseteq Nat
  BY <1>0, IdleAgree, ClientStoreAssumption DEF LockInv
<1>3. PICK n \in DOMAIN db.rec, to \in Emails, new \in [cred : Creds, on : BOOLEAN, lim : workload.limits] :
         /\ to = db.rec[n].email \/ ~HasRecord(db, to)
         /\ new.cred = db.rec[n].cred \/ ~Taken(new.cred, {db.rec[n].email})
         /\ db' = [db EXCEPT !.link = @ \ ({n} \X (Inbounds \ Live(db)))]
         /\ Serve(p, [Request("update", {n},
                        [i \in Inbounds |-> IF i \in Live(db) \cap LinkedInbounds(db, n)
                                              THEN Just(to, new) ELSE Empty])
                        EXCEPT !.payload = [to |-> to, entry |-> new]])
  BY DEF Update
<1> DEFINE S == Live(db) \cap LinkedInbounds(db, n)
           load == [i \in Inbounds |-> IF i \in S THEN Just(to, new) ELSE Empty]
           pay == [to |-> to, entry |-> new]
<1>4. new \in Entry
  BY <1>2 DEF Entry
<1>5. \A i \in Inbounds : /\ load[i] = IF i \in S THEN Just(to, new) ELSE Empty
                          /\ i \in S <=> i \in Live(db) /\ <<n, i>> \in db.link
  BY DEF LinkedInbounds
<1>6. DOMAIN Just(to, new) # {}
  BY DEF Just
<1>7. pay.to = to /\ pay.entry = new
  OBVIOUS
<1>8. op' = [op EXCEPT ![p] = [Request("update", {n}, load) EXCEPT !.payload = pay]]
  BY <1>3 DEF Serve
<1> HIDE DEF S, load, pay
<1>9. PICK k : k = [Request("update", {n}, load) EXCEPT !.payload = pay]
  OBVIOUS
<1>10. Begun(db, k, "update", {n}, load)
  BY <1>9 DEF Begun, Request
<1>11. k.payload = pay /\ k.depleted = None
  BY <1>9 DEF Request
<1>12. From(k) = db.rec[n].email
  <2>1. k.emails = {db.rec[n].email}
    BY <1>10 DEF Begun
  <2> QED BY <2>1, FromOne
<1>13. k.kind = "update" /\ k.ids = {n} /\ k.failed = {} /\ k.load = load /\ Target(k) = to /\ k.payload.entry = new
  BY <1>7, <1>10, <1>11 DEF Begun, Target
<1>14. \A i \in Inbounds : i \in S => i \in k.todo
  BY <1>5, <1>6, <1>10 DEF Begun
<1>15. new.cred = db.rec[n].cred
       \/ \A m \in DOMAIN db.rec : db.rec[m].cred = new.cred => db.rec[m].email = db.rec[n].email
  BY <1>3 DEF Taken
<1>16. UpdateBegun(db, k, n, to, new)
  BY <1>3, <1>5, <1>12, <1>13, <1>14, <1>15 DEF UpdateBegun, Updates
<1>17. LoadTyped(k) /\ UpdatesTo(db, k, new)
  BY <1>2, <1>4, <1>16, UpdateBegins
<1>18. /\ db'.settings = db.settings /\ db'.rec = db.rec /\ db'.stat = db.stat /\ db'.link \subseteq db.link
  BY <1>0, <1>3 DEF Fields
<1>19. UpdatesOk(db', k)
  BY <1>4, <1>13, <1>17, <1>18, UpdatesSame DEF UpdatesOk
<1>20. Typed(db') /\ Unique(db') /\ LinksLive(db')
  <2>1. Live(db') = Live(db) /\ \A x : EntryOf(db', x) = EntryOf(db, x)
    BY <1>18 DEF Live, EntryOf
  <2>2. Typed(db')
    BY <1>2, <1>18, <2>1 DEF Typed
  <2>3. \A e, v : Has(db', e, v) <=> Has(db, e, v)
    BY <1>18, SameHas
  <2> QED BY <1>2, <1>18, <2>1, <2>2, <2>3 DEF Unique, LinksLive
<1>21. OpOk(db', k)
  BY <1>1, <1>10, <1>11, <1>13, <1>17, <1>19 DEF OpOk, AloneOk, Begun, Checked, Adds, Updates, Edits
<1>22. k # Empty
  <2>1. "kind" \in DOMAIN k /\ DOMAIN Empty = {}
    BY <1>9 DEF Request, Empty
  <2> QED BY <2>1
<1> QED BY <1>0, <1>1, <1>8, <1>9, <1>20, <1>21, <1>22, OneAlone

\* An entry with one field changed.
LEMMA OverEntry ==
  ASSUME NEW limits, limits \subseteq Nat, NEW new \in [on : BOOLEAN] \cup [lim : limits], NEW x \in Entry
  PROVE  Over(new, x) \in Entry /\ Over(new, x).cred = x.cred
<1>1. CASE new \in [on : BOOLEAN]
  BY <1>1 DEF Over, Entry
<1>2. CASE new \in [lim : limits]
  BY <1>2 DEF Over, Entry
<1> QED BY <1>1, <1>2

LEMMA FieldAgree ==
  ASSUME LockInv, MemInv, AgreeInv, Undisturbed, NEW p \in Procs, p \in workload.procs, ApplyField(p)
  PROVE  AgreeInv'
<1>0. op[p] = Empty /\ UNCHANGED <<db, workload>>
  BY DEF ApplyField, Idle, Op
<1>1. Plain(db) /\ AllAgree(db) /\ Typed(db) /\ Unique(db) /\ LinksLive(db) /\ RecInv(db) /\ workload.limits \subseteq Nat
  BY <1>0, IdleAgree, ClientStoreAssumption DEF LockInv
<1>2. PICK n \in DOMAIN db.rec, new \in [on : BOOLEAN] \cup [lim : workload.limits] :
         LET e == db.rec[n].email
             S == {i \in LinkedInbounds(db, n) : i \in Live(db) /\ e \in DOMAIN db.settings[i]}
         IN  Serve(p, Request("field", {n},
                  [i \in Inbounds |-> IF i \in S THEN Just(e, Over(new, db.settings[i][e]))
                                      ELSE Empty]))
  BY DEF ApplyField
<1> DEFINE e == db.rec[n].email
           S == {i \in LinkedInbounds(db, n) : i \in Live(db) /\ e \in DOMAIN db.settings[i]}
           load == [i \in Inbounds |-> IF i \in S THEN Just(e, Over(new, db.settings[i][e])) ELSE Empty]
<1>3. op' = [op EXCEPT ![p] = Request("field", {n}, load)]
  BY <1>2 DEF Serve
<1>4. PICK x \in Entry : x = EntryOf(db, n) /\ Has(db, e, x) /\ x.cred = db.rec[n].cred
  <2>1. EntryOf(db, n) \in Entry /\ Has(db, e, EntryOf(db, n)) /\ EntryOf(db, n).cred = db.rec[n].cred
    BY <1>1 DEF Typed, Has, EntryOf
  <2> QED BY <2>1
<1>5. PICK want \in Entry : want = Over(new, x) /\ want.cred = x.cred
  BY <1>1, OverEntry
<1>6. e \in Emails /\ HasRecord(db, e)
  BY <1>1, <1>4, HasEmail
<1>7. ASSUME NEW i \in Inbounds
      PROVE  load[i] = IF i \in Live(db) /\ <<n, i>> \in db.link THEN Just(e, want) ELSE Empty
  <2>1. i \in S <=> i \in Live(db) /\ <<n, i>> \in db.link
    BY <1>1, OwnLink DEF LinkedInbounds
  <2>2. i \in S => db.settings[i][e] = x
    BY <1>1, <1>4, AllAgreeSays
  <2> QED BY <1>5, <2>1, <2>2
<1> HIDE DEF S, load
<1>8. PICK k : k = Request("field", {n}, load)
  OBVIOUS
<1>9. Begun(db, k, "field", {n}, load)
  BY <1>8 DEF Begun, Request
<1>10. k.depleted = None
  BY <1>8 DEF Request
<1>11. From(k) = e
  <2>1. k.emails = {e}
    BY <1>9 DEF Begun
  <2> QED BY <2>1, FromOne
<1>12. k.kind = "field" /\ k.ids = {n} /\ k.failed = {} /\ k.load = load /\ Target(k) = e
  BY <1>9, <1>11 DEF Begun, Target
<1>13. DOMAIN Just(e, want) = {e} /\ Just(e, want)[e] = want
  BY DEF Just
<1>14. \A i \in Inbounds : i \in Live(db) /\ <<n, i>> \in db.link => i \in k.todo
  BY <1>7, <1>9, <1>13 DEF Begun
<1>15. UpdateBegun(db, k, n, e, want)
  BY <1>4, <1>5, <1>7, <1>11, <1>12, <1>14 DEF UpdateBegun, Updates
<1>16. LoadTyped(k) /\ UpdatesOk(db, k)
  BY <1>1, <1>6, <1>15, UpdateBegins
<1>17. AloneOk(db, k)
  BY <1>12, <1>16 DEF AloneOk, Adds, Updates, Edits
<1>18. SharedOk(db, k)
  <2>1. ASSUME NEW i \in Inbounds, NEW f \in DOMAIN k.load[i] PROVE f = e /\ k.load[i][f] = want
    BY <1>7, <1>12, <1>13, <2>1, EmptyEntries
  <2>2. ASSUME NEW f \in Emails, NEW v \in Entry, Has(db, f, v) PROVE v.cred = want.cred <=> f = e
    <3>1. f = e => v = x
      BY <1>1, <1>4, <2>2, HasOne
    <3>2. v.cred = x.cred => f = e
      BY <1>1, <1>4, <1>6, <2>2 DEF Unique
    <3> QED BY <1>5, <3>1, <3>2
  <2> QED BY <1>6, <1>12, <2>1, <2>2 DEF SharedOk
<1> QED BY <1>0, <1>3, <1>8, <1>9, <1>10, <1>16, <1>17, <1>18, BeginAgree

----------------------------------------------------------------------------
(***************************************************************************)
(* Requests end.                                                           *)
(***************************************************************************)

Agreed(d) == Typed(d) /\ Unique(d) /\ LinksLive(d) /\ AllAgree(d)

\* The records and traffic rows after enable has been set in them.
EnabledTo(d, E, on, m) ==
    /\ \A e, v : Has(m, e, v) => \E w : /\ Has(d, e, w) /\ v.cred = w.cred /\ v.lim = w.lim
                                        /\ v.on = IF e \in E THEN on ELSE w.on
    /\ DOMAIN m.rec = DOMAIN d.rec
    /\ \A n \in DOMAIN m.rec : /\ EntryOf(m, n).cred = EntryOf(d, n).cred /\ EntryOf(m, n).lim = EntryOf(d, n).lim
                              /\ EntryOf(m, n).on \in {EntryOf(d, n).on, on}
    /\ m.stat \in [DOMAIN d.stat -> [on : BOOLEAN, lim : Nat, used : {0}]]
    /\ \A e \in DOMAIN d.stat : m.stat[e].lim = d.stat[e].lim /\ m.stat[e].on = IF e \in E THEN on ELSE d.stat[e].on

LEMMA SetOnHas ==
  ASSUME NEW d, Fields \subseteq DOMAIN d, RecInv(d), Typed(d), NEW E, NEW on \in BOOLEAN, NEW m, m = SetOn(d, E, on)
  PROVE  EnabledTo(d, E, on, m)
<1>1. /\ m.rec = [n \in DOMAIN d.rec |-> IF d.rec[n].email \in E THEN [d.rec[n] EXCEPT !.on = on] ELSE d.rec[n]]
      /\ m.stat = [e \in DOMAIN d.stat |-> IF e \in E THEN [d.stat[e] EXCEPT !.on = on] ELSE d.stat[e]]
  BY DEF SetOn, Fields
<1>2. ASSUME NEW n \in DOMAIN d.rec
      PROVE  /\ m.rec[n].email = d.rec[n].email /\ m.rec[n].cred = d.rec[n].cred /\ m.rec[n].lim = d.rec[n].lim
             /\ m.rec[n].on = IF d.rec[n].email \in E THEN on ELSE d.rec[n].on
  <2>1. {"email", "cred", "on", "lim"} \subseteq DOMAIN d.rec[n]
    BY DEF RecInv
  <2>2. m.rec[n] = IF d.rec[n].email \in E THEN [d.rec[n] EXCEPT !.on = on] ELSE d.rec[n]
    BY <1>1
  <2> QED BY <2>1, <2>2
<1>3. ASSUME NEW e, NEW v, Has(m, e, v)
      PROVE  \E w : /\ Has(d, e, w) /\ v.cred = w.cred /\ v.lim = w.lim
                    /\ v.on = IF e \in E THEN on ELSE w.on
  <2>1. PICK n \in DOMAIN d.rec : m.rec[n].email = e /\ EntryOf(m, n) = v
    BY <1>1, <1>3 DEF Has
  <2>2. PICK w : w = EntryOf(d, n) /\ Has(d, e, w)
    BY <1>2, <2>1 DEF Has
  <2> QED BY <1>2, <2>1, <2>2 DEF EntryOf
<1>4. ASSUME NEW e \in DOMAIN d.stat
      PROVE  /\ m.stat[e] \in [on : BOOLEAN, lim : Nat, used : {0}]
             /\ m.stat[e].lim = d.stat[e].lim /\ m.stat[e].on = IF e \in E THEN on ELSE d.stat[e].on
  <2>1. d.stat[e] \in [on : BOOLEAN, lim : Nat, used : {0}]
    BY DEF Typed
  <2>2. m.stat[e] = IF e \in E THEN [d.stat[e] EXCEPT !.on = on] ELSE d.stat[e]
    BY <1>1
  <2> QED BY <2>1, <2>2
<1>5. m.stat \in [DOMAIN d.stat -> [on : BOOLEAN, lim : Nat, used : {0}]]
  BY <1>1, <1>4
<1>6. \A n \in DOMAIN m.rec : /\ EntryOf(m, n).cred = EntryOf(d, n).cred /\ EntryOf(m, n).lim = EntryOf(d, n).lim
                             /\ EntryOf(m, n).on \in {EntryOf(d, n).on, on}
  BY <1>1, <1>2 DEF EntryOf
<1> QED BY <1>1, <1>3, <1>4, <1>5, <1>6 DEF EnabledTo

\* Once its shares are committed, the last transaction of an enable makes records
\* and traffic rows follow the settings.
LEMMA EnableEnds ==
  ASSUME NEW d, Fields \subseteq DOMAIN d, RecInv(d), Typed(d), Unique(d), LinksLive(d), NEW o, o.kind = "enable",
         EditsOk(d, o), \A i \in Inbounds : ~Waits(o, i), NEW m, m = SetOn(d, o.emails, o.payload),
         o.payload \in BOOLEAN
  PROVE  Agreed(m)
<1>1. EnabledTo(d, o.emails, o.payload, m)
  BY SetOnHas
<1>2. /\ m.settings = d.settings /\ m.link = d.link /\ Live(m) = Live(d)
  BY DEF SetOn, Fields, Live
<1>3. Typed(m)
  <2>1. ASSUME NEW n \in DOMAIN m.rec PROVE EntryOf(m, n) \in Entry
    <3>1. n \in DOMAIN d.rec /\ EntryOf(d, n) \in Entry
      BY <1>1, <2>1 DEF EnabledTo, Typed
    <3>2. /\ EntryOf(m, n).cred \in Creds /\ EntryOf(m, n).lim \in Nat /\ EntryOf(m, n).on \in BOOLEAN
      BY <1>1, <3>1 DEF EnabledTo, Entry
    <3> QED BY <3>2 DEF EntryOf, Entry
  <2>2. m.stat \in [DOMAIN m.stat -> [on : BOOLEAN, lim : Nat, used : {0}]]
    BY <1>1 DEF EnabledTo
  <2> QED BY <1>2, <2>1, <2>2 DEF Typed
<1>4. Unique(m)
  <2>1. \A e, v : Has(m, e, v) => \E w \in Entry : Has(d, e, w) /\ v.cred = w.cred
    BY <1>1, HasTyped DEF EnabledTo
  <2> QED BY <2>1 DEF Unique
<1>5. LinksLive(m)
  BY <1>2 DEF LinksLive
<1>6. AllAgree(m)
  <2>1. ASSUME NEW i \in Live(m), NEW e \in DOMAIN m.settings[i], NEW v \in Entry, Has(m, e, v)
        PROVE  m.settings[i][e] = v /\ (e \in DOMAIN m.stat => SameRow(m.stat[e], v, {}))
    <3>1. PICK w : /\ Has(d, e, w) /\ v.cred = w.cred /\ v.lim = w.lim
                   /\ v.on = IF e \in o.emails THEN o.payload ELSE w.on
      BY <1>1, <2>1 DEF EnabledTo
    <3>2. /\ w \in Entry /\ i \in Live(d) /\ e \in DOMAIN d.settings[i] /\ m.settings[i] = d.settings[i]
          /\ d.settings[i][e] \in Entry /\ i \in Inbounds
      BY <1>2, <2>1, <3>1, HasTyped DEF Typed, Live
    <3>3. AgreeAt(d, i, e, IF e \in o.emails THEN {"on"} ELSE {})
      BY <3>2 DEF EditsOk, Agree
    <3>4. /\ Same(d.settings[i][e], w, IF e \in o.emails THEN {"on"} ELSE {})
          /\ e \in DOMAIN d.stat => SameRow(d.stat[e], w, IF e \in o.emails THEN {"on"} ELSE {})
      BY <3>1, <3>2, <3>3 DEF AgreeAt
    <3>5. e \in o.emails => d.settings[i][e].on = o.payload
      BY <3>2 DEF EditsOk, EditedAt, Value
    <3>6. Same(m.settings[i][e], v, {})
      BY <3>1, <3>2, <3>4, <3>5 DEF Same
    <3>7. m.settings[i][e] = v
      BY <2>1, <3>2, <3>6, SameAll
    <3>8. e \in DOMAIN m.stat => SameRow(m.stat[e], v, {})
      BY <1>1, <3>1, <3>4 DEF EnabledTo, SameRow
    <3> QED BY <3>7, <3>8
  <2> QED BY <2>1, AllAgreeIs
<1> QED BY <1>3, <1>4, <1>5, <1>6 DEF Agreed

\* Records and traffic rows that go, with the links of those records.
LEMMA EraseEnds ==
  ASSUME NEW d, Fields \subseteq DOMAIN d, Typed(d), Unique(d), LinksLive(d), AllAgree(d), NEW ids, NEW E,
         NEW m, m = Erased(d, ids, E)
  PROVE  Agreed(m)
<1>1. /\ m.settings = d.settings /\ m.rec = [n \in DOMAIN d.rec \ ids |-> d.rec[n]]
      /\ m.link = {l \in d.link : l[1] \notin ids} /\ m.stat = [e \in DOMAIN d.stat \ E |-> d.stat[e]]
  BY DEF Erased, Without, Fields
<1>2. \A e, v : Has(m, e, v) => Has(d, e, v)
  BY <1>1 DEF Has, EntryOf
<1>3. /\ \A e \in DOMAIN m.stat : e \in DOMAIN d.stat /\ m.stat[e] = d.stat[e]
      /\ m.stat = [e \in DOMAIN m.stat |-> m.stat[e]]
  BY <1>1
<1>4. Typed(m) /\ Live(m) = Live(d) /\ \A i : Sheds(d, i, m)
  BY <1>1, <1>2, <1>3, ShedRest
<1>5. AllAgree(m) /\ Unique(m)
  BY <1>4, ShedAgree
<1>6. LinksLive(m)
  BY <1>1, <1>4 DEF LinksLive
<1> QED BY <1>4, <1>5, <1>6 DEF Agreed

\* Once its shares are committed, an update has left one entry everywhere.
LEMMA UpdatesDone ==
  ASSUME NEW d, Typed(d), NEW o, NEW want \in Entry, UpdatesTo(d, o, want), \A i \in Inbounds : ~Waits(o, i)
  PROVE  AllAgree(d)
<1>1. CASE AllAgree(d)
  BY <1>1
<1>2. CASE DoneTo(d, From(o), Target(o), want)
  <2>1. ASSUME NEW i \in Live(d), NEW e \in DOMAIN d.settings[i], NEW v \in Entry, Has(d, e, v)
        PROVE  d.settings[i][e] = v /\ (e \in DOMAIN d.stat => SameRow(d.stat[e], v, {}))
    <3>0. i \in Inbounds /\ d.settings[i][e] \in Entry
      BY DEF Live, Typed
    <3>1. CASE e \in {From(o), Target(o)}
      <4>1. WrittenAt(d, o, i, want)
        BY <3>0, <3>1 DEF UpdatesTo
      <4>2. d.settings[i][Target(o)] = want
        BY <3>0, <4>1 DEF WrittenAt
      <4>3. e = Target(o)
        <5>1. HasRecord(d, e)
          BY <2>1 DEF Has, HasRecord, IdsOf
        <5> QED BY <1>2, <3>1, <5>1 DEF DoneTo
      <4> QED BY <1>2, <2>1, <4>2, <4>3 DEF DoneTo
    <3>2. CASE e \notin {From(o), Target(o)}
      <4>1. AgreeAt(d, i, e, {})
        <5>1. AgreeAt(d, i, e, IF e \in {From(o), Target(o)} THEN {"cred", "on", "lim"} ELSE {})
          BY DEF UpdatesTo, Agree
        <5> QED BY <3>2, <5>1
      <4> QED BY <2>1, <3>0, <4>1, SameAll DEF AgreeAt
    <3> QED BY <3>1, <3>2
  <2> QED BY <2>1, AllAgreeIs
<1> QED BY <1>1, <1>2 DEF UpdatesTo

\* The last transaction of an update: the record of a client with an inbound is as
\* it was, one without takes the new entry.
LEMMA UpdateEnds ==
  ASSUME NEW d, Fields \subseteq DOMAIN d, RecInv(d), Plain(d), Typed(d), Unique(d), LinksLive(d),
         NEW o, o.kind = "update", NEW want \in Entry, UpdatesTo(d, o, want), \A i \in Inbounds : ~Waits(o, i),
         NEW n \in o.ids, n \in DOMAIN d.rec, NEW m, m = Updated(d, o, n)
  PROVE  Agreed(m)
<1> DEFINE from == From(o)
           to == Target(o)
           row == d.rec[n]
           renames == to # from /\ row.email = from
           alone == \A i \in Inbounds : DOMAIN o.load[i] = {}
           name == IF renames THEN to ELSE row.email
           x == Over([email |-> name, on |-> want.on], IF alone THEN want ELSE row)
<1>1. AllAgree(d)
  BY UpdatesDone
<1>2. o.payload.entry = want /\ to = o.payload.to /\ row.email \in {from, to}
  BY DEF UpdatesTo, Target
<1>3. CASE renames /\ HasRecord(d, to)
  <2>1. m = d
    BY <1>2, <1>3 DEF Updated
  <2> QED BY <1>1, <2>1 DEF Agreed
<1>4. CASE ~(renames /\ HasRecord(d, to))
  <2>1. m = [d EXCEPT !.rec[n] = x]
    BY <1>2, <1>4 DEF Updated
  <2>2. /\ m.settings = d.settings /\ m.link = d.link /\ m.stat = d.stat /\ m.rec = [d.rec EXCEPT ![n] = x]
    <3> HIDE DEF x
    <3> QED BY <2>1 DEF Fields
  <2>3. DOMAIN m.rec = DOMAIN d.rec /\ m.rec[n] = x /\ \A k \in DOMAIN d.rec \ {n} : m.rec[k] = d.rec[k]
    <3> HIDE DEF x
    <3> QED BY <2>2
  <2>4. Live(m) = Live(d) /\ LinksLive(m)
    BY <2>2 DEF Live, LinksLive
  <2>5. /\ x.email = name
        /\ alone => [cred |-> x.cred, on |-> x.on, lim |-> x.lim] = want
        /\ ~alone => x.cred = row.cred /\ x.on = want.on /\ x.lim = row.lim
    <3>1. /\ {"cred", "on", "lim"} \subseteq DOMAIN row /\ DOMAIN want = {"cred", "on", "lim"}
          /\ want = [cred |-> want.cred, on |-> want.on, lim |-> want.lim]
      BY DEF RecInv, Entry
    <3> HIDE DEF name, alone, row
    <3> QED BY <3>1 DEF Over
  <2>6. \A e, v : Has(m, e, v) => \/ \E k \in DOMAIN d.rec \ {n} : d.rec[k].email = e /\ EntryOf(d, k) = v
                                  \/ e = name /\ v = [cred |-> x.cred, on |-> x.on, lim |-> x.lim]
    <3> HIDE DEF name, x
    <3> QED BY <2>3, <2>5 DEF Has, EntryOf
  <2>7. CASE ~alone
    <3>1. PICK i \in Inbounds : DOMAIN o.load[i] # {}
      BY <2>7
    <3>2. i \in Live(d) /\ to \in DOMAIN d.settings[i] /\ d.settings[i][to] = want
      BY <3>1 DEF UpdatesTo, WrittenAt
    <3>3. PICK k \in DOMAIN d.rec : d.rec[k].email = to
      BY <3>2 DEF Plain, Linked, NamesAt
    <3>4. EntryOf(d, k) = want
      <4>1. Has(d, to, EntryOf(d, k))
        BY <3>3 DEF Has
      <4> QED BY <1>1, <3>2, <4>1, AllAgreeSays
    <3>5. row.email = to /\ name = to
      <4>1. HasRecord(d, to)
        BY <3>3 DEF HasRecord, IdsOf
      <4> QED BY <1>2, <1>4, <4>1
    <3>6. n = k
      BY <3>3, <3>5 DEF RecInv
    <3>7. [cred |-> x.cred, on |-> x.on, lim |-> x.lim] = EntryOf(d, n)
      <4>1. row.cred = want.cred /\ row.lim = want.lim
        BY <3>4, <3>6 DEF EntryOf
      <4>2. EntryOf(d, n) = want /\ want = [cred |-> want.cred, on |-> want.on, lim |-> want.lim]
        BY <3>4, <3>6 DEF Entry
      <4> HIDE DEF x, row
      <4> QED BY <2>5, <2>7, <4>1, <4>2
    <3>8. \A e, v : Has(m, e, v) => Has(d, e, v)
      <4> HIDE DEF x, name
      <4> QED BY <2>6, <3>5, <3>7 DEF Has
    <3>9. m.stat = [e \in DOMAIN m.stat |-> m.stat[e]]
      BY <2>2 DEF Typed
    <3>10. Typed(m) /\ \A j : Sheds(d, j, m)
      BY <2>2, <3>8, <3>9, ShedRest
    <3>11. AllAgree(m) /\ Unique(m)
      BY <1>1, <3>10, ShedAgree
    <3> QED BY <2>4, <3>10, <3>11 DEF Agreed
  <2>8. CASE alone
    <3>1. ASSUME NEW i \in Live(d), NEW e \in DOMAIN d.settings[i] PROVE e \notin {from, to}
      <4>1. i \in Inbounds
        BY DEF Live
      <4> QED BY <2>8, <4>1 DEF UpdatesTo
    <3>2. name \in {from, to}
      BY <1>2
    <3>3. \A e, v : Has(m, e, v) => (e = name /\ v = want) \/ \E k \in DOMAIN d.rec \ {n} : d.rec[k].email = e /\ EntryOf(d, k) = v
      <4> HIDE DEF x, name
      <4> QED BY <2>5, <2>6, <2>8
    <3>4. Typed(m)
      <4>1. ASSUME NEW k \in DOMAIN m.rec PROVE EntryOf(m, k) \in Entry
        <5>1. Has(m, m.rec[k].email, EntryOf(m, k))
          BY DEF Has
        <5>2. EntryOf(m, k) = want \/ \E l \in DOMAIN d.rec : EntryOf(m, k) = EntryOf(d, l)
          <6> HIDE DEF name
          <6> QED BY <3>3, <5>1
        <5> QED BY <5>2 DEF Typed
      <4> QED BY <2>2, <2>4, <4>1 DEF Typed
    <3>5. AllAgree(m)
      <4>1. ASSUME NEW i \in Live(m), NEW e \in DOMAIN m.settings[i], NEW v \in Entry, Has(m, e, v)
            PROVE  m.settings[i][e] = v /\ (e \in DOMAIN m.stat => SameRow(m.stat[e], v, {}))
        <5>1. i \in Live(d) /\ e \in DOMAIN d.settings[i] /\ e # name
          BY <2>2, <2>4, <3>1, <3>2, <4>1
        <5>2. Has(d, e, v)
          <6> HIDE DEF name
          <6> QED BY <3>3, <4>1, <5>1 DEF Has
        <5> QED BY <1>1, <2>2, <5>1, <5>2, AllAgreeSays
      <4> QED BY <4>1, AllAgreeIs
    <3>6. ASSUME NEW k \in DOMAIN d.rec \ {n} PROVE EntryOf(d, k).cred # want.cred
      <4>1. Has(d, d.rec[k].email, EntryOf(d, k)) /\ d.rec[k].email \in Emails /\ EntryOf(d, k) \in Entry
        BY DEF Has, RecInv, Typed
      <4>2. d.rec[k].email # row.email
        BY DEF RecInv
      <4>3. d.rec[k].email \notin {from, to}
        <5>1. HasRecord(d, d.rec[k].email) /\ HasRecord(d, row.email)
          BY DEF HasRecord, IdsOf
        <5>2. (from = to \/ ~HasRecord(d, to)) \/ (from # to => ~HasRecord(d, from))
          BY DEF UpdatesTo, DoneTo
        <5> QED BY <1>2, <1>4, <4>2, <5>1, <5>2
      <4> QED BY <4>1, <4>3 DEF UpdatesTo
    <3>7. Unique(m)
      <4> SUFFICES ASSUME NEW e \in Emails, NEW f \in Emails, NEW v \in Entry, NEW w \in Entry,
                          Has(m, e, v), Has(m, f, w), v.cred = w.cred
                   PROVE  e = f
        BY DEF Unique
      <4> HIDE DEF name
      <4>1. CASE e = name /\ v = want
        BY <3>3, <3>6, <4>1
      <4>2. CASE f = name /\ w = want
        BY <3>3, <3>6, <4>2
      <4>3. CASE ~(e = name /\ v = want) /\ ~(f = name /\ w = want)
        <5>1. PICK k \in DOMAIN d.rec, l \in DOMAIN d.rec :
                d.rec[k].email = e /\ EntryOf(d, k) = v /\ d.rec[l].email = f /\ EntryOf(d, l) = w
          BY <3>3, <4>3
        <5>2. Has(d, e, v) /\ Has(d, f, w)
          BY <5>1 DEF Has
        <5> QED BY <5>2 DEF Unique
      <4> QED BY <4>1, <4>2, <4>3
    <3> QED BY <2>4, <3>4, <3>5, <3>7 DEF Agreed
  <2> QED BY <2>7, <2>8
<1> QED BY <1>3, <1>4

LEMMA FinishAgree ==
  ASSUME LockInv, MemInv, AgreeInv, Undisturbed, NEW p \in Procs, p \in workload.procs, Finish(p)
  PROVE  AgreeInv'
<1>1. PICK o : o = op[p]
  OBVIOUS
<1>2. /\ o # Empty /\ o.todo = {} /\ (\A i \in Inbounds : o.run[i] = Empty) /\ workload' = workload
      /\ o.kind # "adjust" /\ db' = Finished(db, o) /\ op' = [op EXCEPT ![p] = Empty]
  BY <1>1 DEF Finish, Returned, End
<1>3. /\ Fields \subseteq DOMAIN db /\ RecInv(db) /\ ReqOk(workload, o) /\ RowsOk(db, o) /\ OpOk(db, o)
      /\ Typed(db) /\ Unique(db) /\ LinksLive(db)
  BY <1>1, <1>2 DEF LockInv, Shape, MemInv, AgreeInv
<1>4. \A i \in Inbounds : ~Waits(o, i)
  BY <1>2 DEF Waits
<1>5. Plain(db)
  BY <1>3, <1>4, ReturnedRows
<1>6. CASE ~Single
  <2>1. o.kind \in {"attach", "detach", "field"}
    BY <1>3, <1>6 DEF OpOk, SharedOk
  <2>2. db' = db
    BY <1>2, <2>1 DEF Finished
  <2> QED BY <1>2, <1>6, <2>2, OneReads
<1>7. CASE Single
  <2>0. AloneOk(db, o)
    BY <1>3, <1>7 DEF OpOk
  <2>1. Agreed(db')
    <3>1. CASE o.kind = "update"
      <4> DEFINE n == CHOOSE n \in o.ids : TRUE
      <4>1. PICK want \in Entry : UpdatesTo(db, o, want)
        BY <2>0, <3>1 DEF AloneOk, UpdatesOk, Updates
      <4>2. o.ids # {} /\ o.failed = {}
        BY <2>0, <3>1 DEF AloneOk, UpdatesOk, Updates
      <4>3. n \in o.ids
        BY <4>2
      <4>4. db' = IF n \in DOMAIN db.rec THEN Updated(db, o, n) ELSE db
        BY <1>2, <3>1, <4>2 DEF Finished
      <4> HIDE DEF n
      <4>5. CASE n \in DOMAIN db.rec
        <5>1. db' = Updated(db, o, n)
          BY <4>4, <4>5
        <5> QED BY <1>3, <1>4, <1>5, <3>1, <4>1, <4>3, <4>5, <5>1, UpdateEnds
      <4>6. CASE n \notin DOMAIN db.rec
        <5>1. db' = db
          BY <4>4, <4>6
        <5>2. AllAgree(db)
          BY <1>3, <1>4, <4>1, UpdatesDone
        <5> QED BY <1>3, <5>1, <5>2 DEF Agreed
      <4> QED BY <4>5, <4>6
    <3>2. CASE o.kind = "field"
      <4>1. PICK want \in Entry : UpdatesTo(db, o, want)
        BY <2>0, <3>2 DEF AloneOk, UpdatesOk, Updates
      <4>2. AllAgree(db)
        BY <1>3, <1>4, <4>1, UpdatesDone
      <4>3. db' = db
        BY <1>2, <3>2 DEF Finished
      <4> QED BY <1>3, <4>2, <4>3 DEF Agreed
    <3>3. CASE o.kind = "enable"
      <4>1. EditsOk(db, o)
        BY <2>0, <3>3 DEF AloneOk, Edits
      <4>2. o.failed = {} /\ o.emails \ o.failed = o.emails
        BY <4>1 DEF EditsOk
      <4>3. db' = SetOn(db, o.emails, o.payload)
        <5>1. db' = SetOn(db, o.emails \ o.failed, o.payload)
          BY <1>2, <3>3 DEF Finished
        <5> QED BY <4>2, <5>1
      <4>4. CASE o.emails = {}
        <5>1. PICK E : E = o.emails /\ E = {} /\ db' = SetOn(db, E, o.payload)
          BY <4>3, <4>4
        <5>2. AllAgree(db)
          <6>1. Agree(db, E, {o.field})
            BY <4>1, <5>1 DEF EditsOk
          <6> QED BY <5>1, <6>1 DEF AllAgree, Agree
        <5>3. /\ db'.settings = db.settings /\ db'.link = db.link
              /\ db'.rec = [n \in DOMAIN db.rec |-> db.rec[n]] /\ db'.stat = [e \in DOMAIN db.stat |-> db.stat[e]]
          BY <1>3, <5>1 DEF SetOn, Fields
        <5>4. \A e, v : Has(db', e, v) => Has(db, e, v)
          BY <5>3 DEF Has, EntryOf
        <5>5. /\ \A e \in DOMAIN db'.stat : e \in DOMAIN db.stat /\ db'.stat[e] = db.stat[e]
              /\ db'.stat = [e \in DOMAIN db'.stat |-> db'.stat[e]]
          BY <5>3
        <5>6. Typed(db') /\ Live(db') = Live(db) /\ \A i : Sheds(db, i, db')
          BY <1>3, <5>3, <5>4, <5>5, ShedRest
        <5>7. AllAgree(db') /\ Unique(db')
          BY <1>3, <5>2, <5>6, ShedAgree
        <5> QED BY <1>3, <5>3, <5>6, <5>7 DEF Agreed, LinksLive
      <4>5. CASE o.emails # {}
        <5>1. o.payload \in BOOLEAN
          BY <3>3, <4>1, <4>5 DEF EditsOk, Value
        <5> QED BY <1>3, <1>4, <3>3, <4>1, <4>3, <5>1, EnableEnds
      <4> QED BY <4>4, <4>5
    <3>4. CASE o.kind \notin Edits \cup Updates
      <4>1. AllAgree(db)
        BY <2>0, <3>4 DEF AloneOk
      <4>2. db' = db \/ \E ids, E : db' = Erased(db, ids, E)
        <5>1. o.kind \notin {"update", "enable", "ghost"}
          BY <1>3, <3>4 DEF ReqOk, Edits, Updates
        <5>2. CASE o.kind = "delete"
          BY <1>2, <5>2 DEF Finished
        <5>3. CASE o.kind = "bulkdelete"
          BY <1>2, <5>3 DEF Finished
        <5>4. CASE o.kind = "orphans"
          BY <1>2, <5>4 DEF Finished
        <5>5. CASE o.kind \notin {"delete", "bulkdelete", "orphans"}
          BY <1>2, <5>1, <5>5 DEF Finished
        <5> QED BY <5>2, <5>3, <5>4, <5>5
      <4> QED BY <1>3, <4>1, <4>2, EraseEnds DEF Agreed
    <3> QED BY <1>2, <3>1, <3>2, <3>3, <3>4 DEF Edits, Updates
  <2> QED BY <1>2, <1>7, <2>1, OneAlone DEF Agreed
<1> QED BY <1>6, <1>7

\* The transaction of an adjustment that writes the new limits to the traffic rows.
LimitsTo(d, o, m) ==
    /\ m.settings = d.settings /\ m.rec = d.rec /\ m.link = d.link
    /\ m.stat = [e \in DOMAIN d.stat |->
         IF e \in o.emails \cap DOMAIN d.stat THEN [d.stat[e] EXCEPT !.lim = o.payload[e]] ELSE d.stat[e]]

LEMMA LimitsEnd ==
  ASSUME NEW d, Typed(d), Unique(d), LinksLive(d), NEW o, o.kind = "adjust",
         EditsOk(d, o), \A i \in Inbounds : ~Waits(o, i), NEW m, LimitsTo(d, o, m)
  PROVE  Agreed(m)
<1>1. /\ m.settings = d.settings /\ m.rec = d.rec /\ m.link = d.link
      /\ m.stat = [e \in DOMAIN d.stat |->
           IF e \in o.emails \cap DOMAIN d.stat THEN [d.stat[e] EXCEPT !.lim = o.payload[e]] ELSE d.stat[e]]
  BY DEF LimitsTo
<1>2. /\ Live(m) = Live(d) /\ LinksLive(m) /\ (\A e, v : Has(m, e, v) <=> Has(d, e, v))
      /\ \A n \in DOMAIN m.rec : EntryOf(m, n) = EntryOf(d, n)
  BY <1>1, SameHas DEF Live, LinksLive, EntryOf
<1>3. ASSUME NEW e \in DOMAIN d.stat
      PROVE  /\ m.stat[e] \in [on : BOOLEAN, lim : Nat, used : {0}]
             /\ m.stat[e].on = d.stat[e].on /\ m.stat[e].lim = IF e \in o.emails THEN o.payload[e] ELSE d.stat[e].lim
  <2>1. d.stat[e] \in [on : BOOLEAN, lim : Nat, used : {0}]
    BY DEF Typed
  <2>2. e \in o.emails => o.payload[e] \in Nat
    BY DEF EditsOk, Value
  <2>3. m.stat[e] = IF e \in o.emails THEN [d.stat[e] EXCEPT !.lim = o.payload[e]] ELSE d.stat[e]
    BY <1>1
  <2> QED BY <2>1, <2>2, <2>3
<1>4. Typed(m)
  <2>1. m.stat \in [DOMAIN m.stat -> [on : BOOLEAN, lim : Nat, used : {0}]]
    BY <1>1, <1>3
  <2> QED BY <1>1, <1>2, <2>1 DEF Typed
<1>5. Unique(m)
  BY <1>2 DEF Unique
<1>6. ASSUME NEW i \in Live(m), NEW e \in DOMAIN m.settings[i], NEW v \in Entry, Has(m, e, v)
      PROVE  m.settings[i][e] = v /\ (e \in DOMAIN m.stat => SameRow(m.stat[e], v, {}))
  <2>1. i \in Live(d) /\ e \in DOMAIN d.settings[i] /\ Has(d, e, v) /\ i \in Inbounds /\ d.settings[i][e] \in Entry
    BY <1>1, <1>2, <1>6 DEF Live, Typed
  <2>2. AgreeAt(d, i, e, IF e \in o.emails THEN {"lim"} ELSE {})
    BY <2>1 DEF EditsOk, Agree
  <2>3. /\ Same(d.settings[i][e], v, IF e \in o.emails THEN {"lim"} ELSE {})
        /\ e \in DOMAIN d.stat => SameRow(d.stat[e], v, IF e \in o.emails THEN {"lim"} ELSE {})
    BY <2>1, <2>2 DEF AgreeAt
  <2>4. e \in o.emails => d.settings[i][e].lim = o.payload[e] /\ v.lim = o.payload[e]
    BY <2>1 DEF EditsOk, EditedAt, Value
  <2>5. Same(d.settings[i][e], v, {})
    BY <2>3, <2>4 DEF Same
  <2>6. d.settings[i][e] = v
    BY <2>1, <2>5, SameAll
  <2>7. e \in DOMAIN d.stat => SameRow(m.stat[e], v, {})
    BY <1>3, <2>3, <2>4 DEF SameRow
  <2>8. DOMAIN m.stat = DOMAIN d.stat
    BY <1>1
  <2> QED BY <1>1, <2>6, <2>7, <2>8
<1>7. AllAgree(m)
  BY <1>6, AllAgreeIs
<1> QED BY <1>2, <1>4, <1>5, <1>7 DEF Agreed

LEMMA AdjustAgree ==
  ASSUME LockInv, MemInv, AgreeInv, Undisturbed, NEW p \in Procs, p \in workload.procs,
         AdjustCheck(p) \/ AdjustWrite(p) \/ AdjustEnable(p)
  PROVE  AgreeInv'
<1>1. PICK o : o = op[p]
  OBVIOUS
<1>2. o # Empty /\ workload' = workload /\ o.kind \in {"adjust", "adjusted"}
  BY <1>1 DEF AdjustCheck, AdjustWrite, AdjustEnable, Returned
<1>3. /\ Fields \subseteq DOMAIN db /\ RecInv(db) /\ ReqShape(o) /\ DOMAIN op = Procs /\ RowsOk(db, o) /\ OpOk(db, o)
      /\ Typed(db) /\ Unique(db) /\ LinksLive(db)
  BY <1>1, <1>2 DEF LockInv, Shape, MemInv, Serves, AgreeInv
<1>4. Single /\ AloneOk(db, o) /\ LoadTyped(o) /\ Checked(o)
  BY <1>2, <1>3 DEF OpOk, SharedOk
<1>5. Plain(db)
  BY <1>2, <1>3 DEF RowsOk, Renames, Erasing
<1>6. CASE AdjustCheck(p)
  <2>1. PICK E : /\ UNCHANGED db /\ o.kind = "adjust" /\ Returned(p)
                 /\ op' = [op EXCEPT ![p].depleted = E]
    BY <1>1, <1>6 DEF AdjustCheck
  <2>2. PICK k : k = [o EXCEPT !.depleted = E] /\ op' = [op EXCEPT ![p] = k]
    BY <1>1, <1>3, <2>1
  <2>3. SameReq(o, k) /\ k.field = o.field /\ k.failed = o.failed /\ k.todo = o.todo /\ k.run = o.run
    BY <1>3, <2>2 DEF SameReq, ReqShape
  <2>4. \A i \in Inbounds : k.run[i] = Empty /\ ~Waits(k, i) /\ ~Waits(o, i)
    BY <1>1, <2>1, <2>3 DEF Returned, Waits
  <2>5. \A i : GoesOn(o, i, k)
    BY <2>3 DEF GoesOn, Waits
  <2>6. EditsOk(db, o) /\ k.kind = "adjust"
    BY <1>4, <2>1, <2>3 DEF AloneOk, Edits, SameReq
  <2>7. PICK i : i = Empty
    OBVIOUS
  <2>8. i \in Live(db) => \A e \in o.emails \cap DOMAIN db.settings[i] : EditedAt(db, o, i, e)
    BY <2>4, <2>6 DEF EditsOk, Live
  <2>9. EditsOk(db, k)
    <3>1. k.failed = {} /\ GoesOn(o, i, k)
      BY <2>3, <2>5, <2>6 DEF EditsOk
    <3> QED BY <2>6, <2>8, <3>1, EditsGoOn
  <2>10. LoadTyped(k) /\ Checked(k)
    BY <1>4, <2>4, <2>5, LoadGoesOn DEF Checked
  <2>11. AloneOk(db, k)
    BY <2>6, <2>9 DEF AloneOk, Edits, Adds, Updates
  <2>12. OpOk(db, k)
    BY <1>4, <2>4, <2>10, <2>11 DEF OpOk
  <2>13. k # Empty
    <3>1. "kind" \in DOMAIN k /\ DOMAIN Empty = {}
      BY <1>3, <2>2 DEF ReqShape, Empty
    <3> QED BY <3>1
  <2> QED BY <1>2, <2>1, <2>2, <2>12, <2>13, OneReads
<1>7. CASE AdjustWrite(p)
  <2>1. o.kind = "adjust" /\ o.depleted # None
    BY <1>1, <1>7 DEF AdjustWrite
  <2>2. EditsOk(db, o) /\ \A i \in Inbounds : ~Waits(o, i)
    BY <1>4, <2>1 DEF AloneOk, Edits, Checked
  <2>3. (o.emails \ o.failed) \cap DOMAIN db.stat = o.emails \cap DOMAIN db.stat
    BY <2>2 DEF EditsOk
  <2>0. PICK E : E = Due(o) /\ db' = Limited(db, E, o.payload)
    <3>1. "fail" \notin workload.kinds
      BY DEF Undisturbed
    <3> QED BY <1>1, <1>7, <3>1, AdjustTo
  <2>4. /\ E = (o.emails \ o.failed) \cap DOMAIN db.stat
        /\ db' = [db EXCEPT !.stat = [e \in DOMAIN db.stat |->
                             IF e \in E THEN [db.stat[e] EXCEPT !.lim = o.payload[e]] ELSE db.stat[e]]]
        /\ op' = [op EXCEPT ![p].kind = "adjusted"]
    BY <1>7, <2>0 DEF AdjustWrite, Limited, Due
  <2>5. Agreed(db')
    <3>1. E = o.emails \cap DOMAIN db.stat
      BY <2>3, <2>4
    <3>2. db' = [db EXCEPT !.stat = [e \in DOMAIN db.stat |->
                   IF e \in o.emails \cap DOMAIN db.stat THEN [db.stat[e] EXCEPT !.lim = o.payload[e]] ELSE db.stat[e]]]
      BY <2>4, <3>1
    <3>3. LimitsTo(db, o, db')
      BY <1>3, <3>2 DEF LimitsTo, Fields
    <3> QED BY <1>3, <2>1, <2>2, <3>3, LimitsEnd
  <2>6. PICK k : k = [o EXCEPT !.kind = "adjusted"] /\ op' = [op EXCEPT ![p] = k]
    BY <1>1, <1>3, <2>4
  <2>7. k.kind = "adjusted" /\ k.run = o.run /\ DOMAIN k = DOMAIN o
    BY <1>3, <2>6 DEF ReqShape
  <2>8. \A i \in Inbounds : k.run[i] = Empty
    BY <2>2, <2>7 DEF Waits
  <2>9. k.kind \notin Adds \cup Updates \cup Edits
    BY <2>7 DEF Adds, Updates, Edits
  <2>10. OpOk(db', k)
    BY <1>4, <2>5, <2>7, <2>8, <2>9 DEF OpOk, LoadTyped, Checked, AloneOk, Agreed
  <2>11. k # Empty
    <3>1. "kind" \in DOMAIN k /\ DOMAIN Empty = {}
      BY <1>3, <2>7 DEF ReqShape, Empty
    <3> QED BY <3>1
  <2> QED BY <1>2, <1>4, <2>5, <2>6, <2>10, <2>11, OneAlone DEF Agreed
<1>8. CASE AdjustEnable(p)
  <2>1. PICK yes : yes = TRUE
    OBVIOUS
  <2>2. PICK ids, k : /\ UNCHANGED db /\ ids \subseteq DOMAIN db.rec /\ op' = [op EXCEPT ![p] = k]
                      /\ k = Empty \/ k = EnableRequest(ids, yes)
    <3>1. PICK E : /\ UNCHANGED db
                   /\ op' = [op EXCEPT ![p] = IF E = {} THEN Empty ELSE EnableRequest(IdsOf(db, E), yes)]
      BY <1>8, <2>1 DEF AdjustEnable
    <3>2. PICK ids : ids = IdsOf(db, E) /\ ids \subseteq DOMAIN db.rec
      BY DEF IdsOf
    <3> QED BY <3>1, <3>2
  <2>3. AllAgree(db)
    <3>1. o.kind = "adjusted"
      BY <1>1, <1>8 DEF AdjustEnable
    <3> QED BY <1>4, <3>1 DEF AloneOk, Edits, Updates
  <2>4. k # Empty => OpOk(db, k)
    <3> SUFFICES ASSUME k = EnableRequest(ids, yes) PROVE OpOk(db, k)
      BY <2>2
    <3>1. PICK load : Begun(db, k, "enable", ids, load) /\ k.depleted = None /\ LoadTyped(k) /\ AloneOk(db, k)
      <4>1. yes \in BOOLEAN
        BY <2>1
      <4> QED BY <1>3, <1>5, <2>2, <2>3, <4>1, EnableBegins
    <3> QED BY <1>4, <3>1 DEF OpOk, Checked, Begun
  <2> QED BY <1>2, <2>2, <2>3, <2>4, OneReads
<1> QED BY <1>6, <1>7, <1>8

----------------------------------------------------------------------------
\* Clients that have just been set up.
LEMMA InitAgree == Init /\ Undisturbed => AgreeInv
<1> SUFFICES ASSUME Init, Undisturbed PROVE AgreeInv
  OBVIOUS
<1> DEFINE S == workload.seeded
           seed == SetToSeq(S)
           ids == DOMAIN seed
<1>0. /\ S \subseteq Emails /\ IsFiniteSet(S) /\ workload.home \subseteq workload.inbounds
      /\ workload.inbounds \subseteq Inbounds /\ workload.limits \subseteq Nat
  BY ClientStoreAssumption, FS_Subset DEF Init
<1>1. PICK cred \in [ids -> Creds], lim \in workload.limits :
        /\ \A m, n \in ids : m # n => cred[m] # cred[n]
        /\ LET entry(n) == [cred |-> cred[n], on |-> TRUE, lim |-> lim]
               idOf(e) == CHOOSE n \in ids : seed[n] = e
           IN  db = [settings |-> [i \in Inbounds |->
                            IF i \in workload.inbounds
                            THEN [e \in IF i \in workload.home THEN workload.seeded ELSE {} |-> entry(idOf(e))]
                            ELSE None],
                     rec |-> [n \in ids |-> Over([email |-> seed[n]], entry(n))],
                     link |-> ids \X workload.home,
                     stat |-> [e \in workload.seeded |-> [on |-> TRUE, lim |-> lim, used |-> 0]],
                     next |-> Cardinality(workload.seeded) + 1]
  BY DEF Init
<1> DEFINE entry(n) == [cred |-> cred[n], on |-> TRUE, lim |-> lim]
           idOf(e) == CHOOSE n \in ids : seed[n] = e
           stat == [on |-> TRUE, lim |-> lim, used |-> 0]
<1>2. db.settings = [i \in Inbounds |->
        IF i \in workload.inbounds
        THEN [e \in IF i \in workload.home THEN S ELSE {} |-> entry(idOf(e))]
        ELSE None]
  BY <1>1
<1>3. /\ db.rec = [n \in ids |-> Over([email |-> seed[n]], entry(n))]
      /\ db.link = ids \X workload.home /\ db.stat = [e \in S |-> stat]
  BY <1>1
<1>4. /\ (\A n \in ids : entry(n) \in Entry /\ entry(n).cred = cred[n] /\ SameRow(stat, entry(n), {}))
      /\ stat \in [on : BOOLEAN, lim : Nat, used : {0}]
  BY <1>0, <1>1 DEF Entry, SameRow
<1>5. /\ (\A k \in ids : seed[k] \in S)
      /\ (\A k, l \in ids : seed[k] = seed[l] => k = l) /\ \A e \in S : idOf(e) \in ids /\ seed[idOf(e)] = e
  <2>1. DOMAIN seed = 1..Len(seed)
    BY <1>0, CountFacts
  <2>2. /\ (\A k \in 1..Len(seed) : seed[k] \in S)
        /\ (\A k, l \in 1..Len(seed) : seed[k] = seed[l] => k = l)
        /\ \A e \in S : \E k \in 1..Len(seed) : seed[k] = e
    BY <1>0, ListFacts
  <2> QED BY <2>1, <2>2
<1>6. \A m, n \in ids : cred[m] = cred[n] => m = n
  BY <1>1
<1> HIDE DEF entry, idOf, ids, seed, stat
<1>7. \A n \in ids : db.rec[n].email = seed[n] /\ EntryOf(db, n) = entry(n)
  <2> SUFFICES ASSUME NEW n \in ids PROVE db.rec[n].email = seed[n] /\ EntryOf(db, n) = entry(n)
    OBVIOUS
  <2>1. db.rec[n] = Over([email |-> seed[n]], entry(n))
    BY <1>3
  <2>2. entry(n) \in Entry
    BY <1>4
  <2>3. PICK row : row = Over([email |-> seed[n]], entry(n)) /\ row = db.rec[n]
    BY <2>1
  <2>4. row.email = seed[n] /\ [cred |-> row.cred, on |-> row.on, lim |-> row.lim] = entry(n)
    BY <2>2, <2>3, RowOf
  <2> QED BY <2>3, <2>4 DEF EntryOf
<1>8. DOMAIN db.rec = ids
  BY <1>3
<1>9. \A e, v : Has(db, e, v) => \E n \in ids : seed[n] = e /\ v = entry(n)
  BY <1>7, <1>8 DEF Has
<1>10. ASSUME NEW i \in workload.inbounds
       PROVE  /\ DOMAIN db.settings[i] \subseteq S /\ i \in Live(db)
              /\ \A e \in DOMAIN db.settings[i] : db.settings[i][e] = entry(idOf(e))
              /\ db.settings[i] \in [DOMAIN db.settings[i] -> Entry]
  <2>1. db.settings[i] = [e \in IF i \in workload.home THEN S ELSE {} |-> entry(idOf(e))]
    BY <1>0, <1>2
  <2>2. DOMAIN db.settings[i] \subseteq S /\ \A e \in DOMAIN db.settings[i] : db.settings[i][e] = entry(idOf(e))
    BY <2>1
  <2>3. db.settings[i] \in [DOMAIN db.settings[i] -> Entry]
    BY <1>4, <1>5, <2>1, <2>2
  <2>4. Entries(db.settings[i])
    BY <1>0, <2>2, <2>3 DEF Entries
  <2> QED BY <1>0, <2>2, <2>3, <2>4, ListIsNotNone DEF Live
<1>11. Live(db) \subseteq workload.inbounds
  BY <1>2 DEF Live
<1>12. Typed(db)
  BY <1>3, <1>4, <1>7, <1>8, <1>10, <1>11 DEF Typed
<1>13. Unique(db)
  <2> SUFFICES ASSUME NEW e \in Emails, NEW f \in Emails, NEW v \in Entry, NEW w \in Entry,
                      Has(db, e, v), Has(db, f, w), v.cred = w.cred
               PROVE  e = f
    BY DEF Unique
  <2>1. PICK m \in ids, n \in ids : seed[m] = e /\ v = entry(m) /\ seed[n] = f /\ w = entry(n)
    BY <1>9
  <2>2. cred[m] = cred[n]
    BY <1>4, <2>1
  <2> QED BY <1>6, <2>1, <2>2
<1>14. LinksLive(db)
  BY <1>0, <1>3, <1>10 DEF LinksLive
<1>15. AllAgree(db)
  <2>1. ASSUME NEW i \in Live(db), NEW e \in DOMAIN db.settings[i], NEW v \in Entry, Has(db, e, v)
        PROVE  db.settings[i][e] = v /\ (e \in DOMAIN db.stat => SameRow(db.stat[e], v, {}))
    <3>1. PICK n \in ids : seed[n] = e /\ v = entry(n)
      BY <1>9, <2>1
    <3>2. e \in S /\ db.settings[i][e] = entry(idOf(e))
      BY <1>10, <1>11
    <3>3. n = idOf(e)
      BY <1>5, <3>1, <3>2
    <3>4. db.stat[e] = stat
      BY <1>3, <3>2
    <3> QED BY <1>4, <3>1, <3>2, <3>3, <3>4
  <2> QED BY <2>1, AllAgreeIs
<1>16. \A p \in Procs : op[p] = Empty
  BY DEF Init
<1>17. ~Single => \A i, j \in Live(db) : i = j
  BY <1>11 DEF Undisturbed, Single
<1> QED BY <1>12, <1>13, <1>14, <1>15, <1>16, <1>17 DEF AgreeInv

\* Nobody has a limit to enforce, and nothing else disturbs the requests.
LEMMA NobodyElse ==
  ASSUME AgreeInv, Undisturbed
  PROVE  /\ ~Tick /\ ~Crash /\ (\A e : ~Use(e)) /\ (\A i : ~UpdateInbound(i) /\ ~DelInbound(i))
         /\ \A p \in Procs, i \in Inbounds : ~ApplyFails(p, i)
<1>1. \A e \in DOMAIN db.stat : db.stat[e].used = 0 /\ db.stat[e].lim \in Nat
  BY DEF AgreeInv, Typed
<1>2. \A e \in DOMAIN db.stat : ~Depleted(db.stat[e])
  BY <1>1 DEF Depleted
<1>3. ~Tick
  BY <1>2 DEF Tick, DepletedNow
<1>4. \A e : ~Use(e)
  BY <1>1 DEF Use, Undisturbed
<1>5. ~Crash /\ (\A i : ~UpdateInbound(i) /\ ~DelInbound(i))
  BY DEF Crash, UpdateInbound, DelInbound, Op, Undisturbed
<1>6. ASSUME NEW p \in Procs, NEW i \in Inbounds PROVE ~ApplyFails(p, i)
  <2>1. op[p] # Empty /\ op[p].run[i] # Empty => i \in Live(db)
    BY DEF AgreeInv, OpOk, BaseOk
  <2> QED BY <2>1 DEF ApplyFails, Undisturbed
<1> QED BY <1>3, <1>4, <1>5, <1>6

\* AgreeInv holds in every workload that is undisturbed.
LEMMA AgreeInvInductive ==
  LockInv /\ (Careful => MemInv) /\ (Undisturbed => AgreeInv) /\ [Next]_vars => (Undisturbed => AgreeInv)'
<1> SUFFICES ASSUME LockInv, Careful => MemInv, Undisturbed => AgreeInv, [Next]_vars, Undisturbed'
             PROVE  AgreeInv'
  OBVIOUS
<1>0. workload' = workload
  BY WorkloadStays
<1>1. Undisturbed
  BY <1>0 DEF Undisturbed
<1>2. MemInv /\ AgreeInv /\ workload.procs \subseteq Procs
  BY <1>1, UndisturbedCareful, ClientStoreAssumption DEF LockInv
<1>3. ASSUME NEW p \in workload.procs, NEW i \in Inbounds,
             ApplyRead(p, i) \/ BulkPurge(p, i) \/ ApplyCommit(p, i) \/ ApplyFails(p, i)
      PROVE  AgreeInv'
  BY <1>1, <1>2, <1>3, ReadAgree, PurgeAgree, CommitAgree, NobodyElse
<1>4. ASSUME NEW p \in workload.procs,
             \/ Create(p) \/ Attach(p) \/ BulkAttach(p) \/ Detach(p)
             \/ Delete(p) \/ BulkDelete(p) \/ DeleteByEmail(p) \/ DeleteOrphans(p)
             \/ Update(p) \/ ApplyField(p) \/ BulkSetEnable(p) \/ BulkAdjust(p)
             \/ Finish(p) \/ AdjustCheck(p) \/ AdjustWrite(p) \/ AdjustEnable(p)
      PROVE  AgreeInv'
  BY <1>1, <1>2, <1>4, CreateAgree, AttachAgree, RemoveAgree, EditAgree, UpdateAgree, FieldAgree, FinishAgree,
     AdjustAgree, NoGhosts, UndisturbedCareful
<1>5. CASE UNCHANGED vars
  BY <1>0, <1>2, <1>5 DEF vars, AgreeInv, OpOk, Single
<1> QED BY <1>1, <1>2, <1>3, <1>4, <1>5, NobodyElse DEF Next

\* Agreement for every workload: requests that are not disturbed leave a client with
\* one identity, limit and enable in all its settings, its record and its traffic
\* row, and no two clients with the same credentials.
THEOREM OneIdentity == Spec => []Agreement
<1>1. (Careful => MemInv) /\ (Undisturbed => AgreeInv) => Agreement
  <2> SUFFICES ASSUME Careful => MemInv, Undisturbed => AgreeInv, Undisturbed, Settled, NEW n \in DOMAIN db.rec
               PROVE  /\ \A m \in DOMAIN db.rec \ {n} : db.rec[m].cred # db.rec[n].cred
                      /\ \A i \in Live(db) \cap LinkedInbounds(db, n) :
                           LET e == db.rec[n].email
                           IN  e \in DOMAIN db.settings[i] =>
                                 /\ db.settings[i][e] = EntryOf(db, n)
                                 /\ e \in DOMAIN db.stat
                                 /\ db.stat[e].on = db.rec[n].on /\ db.stat[e].lim = db.rec[n].lim
    BY DEF Agreement
  <2>1. MemInv /\ AgreeInv
    BY UndisturbedCareful
  <2>2. Typed(db) /\ Unique(db) /\ RecInv(db) /\ Plain(db) /\ AllAgree(db)
    BY <2>1 DEF AgreeInv, MemInv, Settled
  <2>3. \A m \in DOMAIN db.rec : /\ Has(db, db.rec[m].email, EntryOf(db, m)) /\ EntryOf(db, m) \in Entry
                                /\ db.rec[m].email \in Emails
    BY <2>2 DEF Has, Typed, RecInv
  <2>4. ASSUME NEW m \in DOMAIN db.rec \ {n} PROVE db.rec[m].cred # db.rec[n].cred
    <3>1. db.rec[m].email # db.rec[n].email
      BY <2>2 DEF RecInv
    <3>2. EntryOf(db, m).cred # EntryOf(db, n).cred
      BY <2>2, <2>3, <3>1 DEF Unique
    <3> QED BY <3>2 DEF EntryOf
  <2>5. ASSUME NEW i \in Live(db), NEW e, e = db.rec[n].email, e \in DOMAIN db.settings[i]
        PROVE  /\ db.settings[i][e] = EntryOf(db, n) /\ e \in DOMAIN db.stat
               /\ db.stat[e].on = db.rec[n].on /\ db.stat[e].lim = db.rec[n].lim
    <3>1. e \in DOMAIN db.stat
      BY <2>2, <2>5 DEF Plain, Counted
    <3>2. db.settings[i][e] = EntryOf(db, n) /\ SameRow(db.stat[e], EntryOf(db, n), {})
      BY <2>2, <2>3, <2>5, <3>1, AllAgreeSays
    <3> QED BY <3>1, <3>2 DEF SameRow, EntryOf
  <2> QED BY <2>4, <2>5
<1> QED BY <1>1, InitLock, LockInvInductive, InitMem, MemInvInductive, InitAgree, AgreeInvInductive, PTL DEF Spec
============================================================================
