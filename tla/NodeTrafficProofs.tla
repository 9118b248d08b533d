------------------------- MODULE NodeTrafficProofs -------------------------
(***************************************************************************)
(* Proofs about NodeTraffic, for any number of nodes, operations and bytes *)
(* and any mix of operations and failing calls: no reset is lost, no byte  *)
(* is counted twice, no merge takes back a quota; and, under PromptResets, *)
(* none adopts a verdict from before a reset.                              *)
(***************************************************************************)
EXTENDS NodeTraffic, TLAPS

Count == [Dirs -> Nat]
Row == [ctr : Count, enable : BOOLEAN, total : Quotas]
Pass == [pc : {"reconcile", "resets", "delivering", "fetch"}, at : Nat, pushed : BOOLEAN]
Merge == [pc : {"merge"}, pushed : BOOLEAN, snap : Row, zeroed : Nat]

Types ==
    /\ enable \in BOOLEAN /\ total \in Quotas /\ clock \in Nat /\ queuedAt \in Nat
    /\ base \in [Nodes -> Count \cup {None}]
    /\ owed \in [Nodes -> Nat \cup {None}]
    /\ dirty \in [Nodes -> BOOLEAN]
    /\ dirtyAt \in [Nodes -> Nat]
    /\ remote \in [Nodes -> Row]
    /\ delivery \in [Nodes -> Call \cup {None}]
    /\ job \in [Nodes -> {Idle} \cup Pass \cup Merge]
    /\ zeroed \in [Nodes -> Nat]
    /\ flowed \in [Nodes -> Count] /\ counted \in [Nodes -> Count] /\ again \in [Nodes -> Count]
    /\ \A n \in Nodes : delivery[n] # None /\ delivery[n].by = "job" => job[n].pc = "delivering"

\* Every row of the queue carries the stamp of the last reset, and an applied
\* delivery of it came after the reset it read: so a row that goes, because its
\* stamp is the one delivered, was applied.
ResetInv(n) ==
    /\ queuedAt <= clock
    /\ owed[n] # None => owed[n] = queuedAt
    /\ delivery[n] # None =>
         delivery[n].at <= clock /\ (delivery[n].applied => delivery[n].at <= zeroed[n])
    /\ zeroed[n] < queuedAt => owed[n] # None

\* What the master may still add for the node in a direction is covered by what
\* it carried, and by what was added while the baseline stayed behind: from the
\* baseline to the counter, from the baseline to a snapshot on its way, and from
\* that snapshot to the counter.
ByteAt(n, d) ==
    LET s == job[n].snap.ctr[d]
        most == flowed[n][d] + again[n][d]
    IN  /\ counted[n][d] <= most
        /\ base[n] # None => counted[n][d] + remote[n].ctr[d] <= most + base[n][d]
        /\ job[n].pc = "merge" =>
             /\ counted[n][d] + remote[n].ctr[d] <= most + s
             /\ base[n] # None => counted[n][d] + s <= most + base[n][d]

ByteInv(n) == \A d \in Dirs : ByteAt(n, d)

\* A node that is not marked dirty has the master's quota, and so has a snapshot
\* that was not taken right after a push.
QuotaInv(n) ==
    /\ ~dirty[n] => remote[n].total = total
    /\ job[n].pc = "merge" /\ ~dirty[n] /\ ~job[n].pushed => job[n].snap.total = total

Inv == Types /\ \A n \in Nodes : ResetInv(n) /\ ByteInv(n) /\ QuotaInv(n)

LEMMA Shapes ==
    /\ Idle.pc = "idle" /\ Idle \notin Pass /\ Idle \notin Merge
    /\ \A j \in Pass : j.pc # "merge" /\ j.pc # "idle"
    /\ \A j \in Merge : j.pc = "merge" /\ j.snap.ctr \in Count /\ j.snap \in Row
    /\ Quotas \subseteq Nat /\ None \notin Nat /\ None \notin Count /\ NoBytes \in Count
  BY NodeTrafficAssumption DEF Idle, Pass, Merge, Row, Count, NoBytes

\* The numbers ByteAt speaks of.
LEMMA Numbers ==
  ASSUME Types, NEW n \in Nodes, NEW d \in Dirs
  PROVE  /\ counted[n][d] \in Nat /\ flowed[n][d] \in Nat /\ again[n][d] \in Nat
         /\ remote[n].ctr[d] \in Nat
         /\ base[n] # None => base[n][d] \in Nat
         /\ job[n].pc = "merge" => job[n].snap.ctr[d] \in Nat
<1>1. /\ counted[n] \in Count /\ flowed[n] \in Count /\ again[n] \in Count
      /\ remote[n].ctr \in Count /\ (base[n] # None => base[n] \in Count)
      /\ job[n].pc = "merge" => job[n].snap.ctr \in Count
  BY Shapes DEF Types, Row
<1> QED BY <1>1 DEF Count

\* Changes of a node's row.
LEMMA RowFacts ==
  ASSUME NEW r \in Row, NEW s, NEW f, NEW g \in Count, NEW e \in Dirs,
         \/ s = r /\ f = g
         \/ s = [r EXCEPT !.ctr[e] = @ + 1] /\ f = [g EXCEPT ![e] = @ + 1]
         \/ s = [r EXCEPT !.enable = FALSE] /\ f = g
  PROVE  /\ s \in Row /\ f \in Count /\ s.total = r.total
         /\ \A d \in Dirs : \/ s.ctr[d] = r.ctr[d] /\ f[d] = g[d]
                            \/ s.ctr[d] = r.ctr[d] + 1 /\ f[d] = g[d] + 1
<1>1. CASE s = r /\ f = g
  BY <1>1 DEF Row
<1>2. CASE s = [r EXCEPT !.ctr[e] = @ + 1] /\ f = [g EXCEPT ![e] = @ + 1]
  <2> DEFINE c == [r.ctr EXCEPT ![e] = @ + 1]
  <2>1. c \in Count /\ f \in Count /\ r.ctr \in Count
    BY <1>2 DEF Row, Count
  <2>2. \A d \in Dirs : \/ c[d] = r.ctr[d] /\ f[d] = g[d]
                        \/ c[d] = r.ctr[d] + 1 /\ f[d] = g[d] + 1
    BY <1>2, <2>1 DEF Count
  <2>3. s = [r EXCEPT !.ctr = c]
    BY <1>2
  <2> HIDE DEF c
  <2>4. s \in Row /\ s.ctr = c /\ s.total = r.total
    BY <2>1, <2>3 DEF Row
  <2> QED BY <2>1, <2>2, <2>4
<1>3. CASE s = [r EXCEPT !.enable = FALSE] /\ f = g
  <2>1. s \in Row
    BY <1>3 DEF Row
  <2>2. s.ctr = r.ctr /\ s.total = r.total
    BY <1>3 DEF Row
  <2> QED BY <1>3, <2>1, <2>2
<1> QED BY <1>1, <1>2, <1>3

LEMMA InitInv == Init => Inv
<1> SUFFICES ASSUME Init PROVE Inv
  OBVIOUS
<1> USE NodeTrafficAssumption
<1>1. Types
  BY Shapes DEF Init, Types, Row
<1>2. ASSUME NEW n \in Nodes PROVE ResetInv(n) /\ ByteInv(n) /\ QuotaInv(n)
  BY Shapes DEF Init, ResetInv, ByteInv, ByteAt, NoBytes, QuotaInv
<1> QED BY <1>1, <1>2 DEF Inv

\* The steps of the nodes.
LEMMA CarryStep ==
  ASSUME Inv, NEW m \in Nodes, NEW e \in Dirs, Carry(m, e) \/ NodeDepletes(m) PROVE Inv'
<1>1. /\ \/ /\ remote' = [remote EXCEPT ![m].ctr[e] = @ + 1]
            /\ flowed' = [flowed EXCEPT ![m][e] = @ + 1]
         \/ remote' = [remote EXCEPT ![m].enable = FALSE] /\ flowed' = flowed
      /\ UNCHANGED <<enable, total, base, owed, dirty, dirtyAt, delivery, job, clock, queuedAt,
                     zeroed, counted, again>>
  BY DEF Carry, NodeDepletes, master, flags, rest, history, bytes
<1>2. ASSUME NEW n \in Nodes
      PROVE  /\ remote'[n] \in Row /\ flowed'[n] \in Count /\ remote'[n].total = remote[n].total
             /\ \A d \in Dirs :
                  \/ remote'[n].ctr[d] = remote[n].ctr[d] /\ flowed'[n][d] = flowed[n][d]
                  \/ remote'[n].ctr[d] = remote[n].ctr[d] + 1 /\ flowed'[n][d] = flowed[n][d] + 1
  <2>1. remote[n] \in Row /\ flowed[n] \in Count
    BY DEF Inv, Types
  <2>2. \/ remote'[n] = remote[n] /\ flowed'[n] = flowed[n]
        \/ /\ remote'[n] = [remote[n] EXCEPT !.ctr[e] = @ + 1]
           /\ flowed'[n] = [flowed[n] EXCEPT ![e] = @ + 1]
        \/ remote'[n] = [remote[n] EXCEPT !.enable = FALSE] /\ flowed'[n] = flowed[n]
    <3>1. remote \in [Nodes -> Row] /\ flowed \in [Nodes -> Count]
      BY DEF Inv, Types
    <3> QED BY <1>1, <3>1
  <2> DEFINE r == remote[n]
             s == remote'[n]
             f == flowed'[n]
             g == flowed[n]
  <2>3. \/ s = r /\ f = g
        \/ s = [r EXCEPT !.ctr[e] = @ + 1] /\ f = [g EXCEPT ![e] = @ + 1]
        \/ s = [r EXCEPT !.enable = FALSE] /\ f = g
    BY <2>2
  <2>4. r \in Row /\ g \in Count
    BY <2>1
  <2>5. /\ s \in Row /\ f \in Count /\ s.total = r.total
        /\ \A d \in Dirs : \/ s.ctr[d] = r.ctr[d] /\ f[d] = g[d]
                           \/ s.ctr[d] = r.ctr[d] + 1 /\ f[d] = g[d] + 1
    <3> HIDE DEF r, s, f, g
    <3> QED BY <2>3, <2>4, RowFacts
  <2> QED BY <2>5
<1>3. Types'
  <2>1. remote' \in [Nodes -> Row] /\ flowed' \in [Nodes -> Count]
    BY <1>1, <1>2 DEF Inv, Types
  <2> QED BY <1>1, <2>1 DEF Inv, Types
<1>4. ASSUME NEW n \in Nodes PROVE (ResetInv(n) /\ ByteInv(n) /\ QuotaInv(n))'
  <2>1. ResetInv(n)'
    BY <1>1 DEF Inv, ResetInv
  <2>2. QuotaInv(n)'
    BY <1>1, <1>2 DEF Inv, QuotaInv
  <2>3. ASSUME NEW d \in Dirs PROVE ByteAt(n, d)'
    <3>1. ByteAt(n, d) /\ Types
      BY DEF Inv, ByteInv
    <3> QED BY <1>1, <1>2, <3>1, Numbers DEF ByteAt
  <2> QED BY <2>1, <2>2, <2>3 DEF ByteInv
<1> QED BY <1>3, <1>4 DEF Inv

\* The operations of the master leave the nodes, the calls and the passes alone.
LEMMA MasterStep ==
  ASSUME Inv,
         \/ \E m \in Nodes : ResetClientTraffic(m)
         \/ \E q \in Quotas : UpdateClient(q)
         \/ ResetAllTraffics \/ BulkResetTraffic \/ BulkSetEnable
         \/ ResetClientTrafficByEmail \/ DisableInvalidClients
  PROVE  Inv' /\ (total' = total \/ clock' # clock)
<1> DEFINE Empty == [n \in Nodes |-> None]
           Facts == /\ UNCHANGED <<remote, delivery, job, zeroed, flowed, counted, again>>
                    /\ enable' \in BOOLEAN
                    /\ \/ total' = total
                       \/ /\ total' \in Quotas /\ clock' = clock + 1
                          /\ \A n \in Nodes : dirty'[n]
                    /\ clock' = clock \/ clock' = clock + 1
                    /\ base' = base \/ base' = Empty
                    /\ \/ UNCHANGED <<owed, queuedAt>>
                       \/ owed' = [n \in Nodes |-> clock'] /\ queuedAt' = clock'
                    /\ dirty' \in [Nodes -> BOOLEAN] /\ dirtyAt' \in [Nodes -> Nat]
                    /\ \A n \in Nodes : dirty[n] => dirty'[n]
<1>0. Types /\ clock \in Nat /\ clock + 1 \in Nat
  BY DEF Inv, Types
<1>m. ASSUME NEW N, NEW s \in Nat, MarkNodesDirty(N, s)
      PROVE  /\ dirty' \in [Nodes -> BOOLEAN] /\ dirtyAt' \in [Nodes -> Nat]
             /\ \A n \in Nodes : dirty[n] => dirty'[n]
             /\ N = Nodes => \A n \in Nodes : dirty'[n]
  <2>1. dirtyAt' \in [Nodes -> Nat]
    BY <1>0, <1>m DEF MarkNodesDirty, Types
  <2> QED BY <1>0, <1>m, <2>1 DEF MarkNodesDirty, Types
<1>1. ASSUME NEW m \in Nodes, ResetClientTraffic(m) PROVE Facts
  <2>1. clock' = clock + 1 /\ MarkNodesDirty({m}, clock + 1)
    BY <1>1 DEF ResetClientTraffic, Op, MarkNodesDirty
  <2> QED BY <1>0, <1>1, <1>m, <2>1 DEF ResetClientTraffic, Op, ZeroClient, QueueNodeResets, bytes
<1>2. ASSUME NEW q \in Quotas, UpdateClient(q) PROVE Facts
  <2>1. clock' = clock + 1 /\ MarkNodesDirty(Nodes, clock + 1)
    BY <1>2 DEF UpdateClient, Op, MarkNodesDirty
  <2> QED BY <1>0, <1>2, <1>m, <2>1 DEF UpdateClient, Op, calls, history, bytes
<1>3. ASSUME ResetAllTraffics PROVE Facts
  BY <1>0, <1>3 DEF ResetAllTraffics, Op, ZeroClient, QueueNodeResets, flags, Types, bytes
<1>4. ASSUME BulkResetTraffic PROVE Facts
  BY <1>0, <1>4 DEF BulkResetTraffic, Op, ZeroClient, QueueNodeResets, flags, Types, bytes
<1>5. ASSUME BulkSetEnable PROVE Facts
  <2>1. MarkNodesDirty(Nodes, clock)
    BY <1>5 DEF BulkSetEnable
  <2> QED BY <1>0, <1>5, <1>m, <2>1 DEF BulkSetEnable, rest, history, bytes
<1>6. ASSUME ResetClientTrafficByEmail PROVE Facts
  BY <1>0, <1>6 DEF ResetClientTrafficByEmail, Op, ZeroClient, flags, Types, bytes
<1>7. ASSUME DisableInvalidClients PROVE Facts
  <2>1. MarkNodesDirty(Nodes, clock)
    BY <1>7 DEF DisableInvalidClients
  <2> QED BY <1>0, <1>7, <1>m, <2>1 DEF DisableInvalidClients, calls, rest, history, bytes
<1>8. Facts
  BY <1>1, <1>2, <1>3, <1>4, <1>5, <1>6, <1>7
<1> HIDE DEF Facts
<1>9. Types'
  <2>1. clock' \in Nat /\ total' \in Quotas /\ queuedAt' \in Nat
    BY <1>0, <1>8 DEF Facts, Types
  <2>2. base' \in [Nodes -> Count \cup {None}]
    BY <1>0, <1>8 DEF Facts, Types
  <2>3. owed' \in [Nodes -> Nat \cup {None}]
    BY <1>0, <1>8, <2>1 DEF Facts, Types
  <2> QED BY <1>0, <1>8, <2>1, <2>2, <2>3 DEF Facts, Types
<1>10. ASSUME NEW n \in Nodes PROVE (ResetInv(n) /\ ByteInv(n) /\ QuotaInv(n))'
  <2>0. ResetInv(n) /\ ByteInv(n) /\ QuotaInv(n)
    BY DEF Inv
  <2>1. ResetInv(n)'
    <3>1. /\ clock \in Nat /\ queuedAt \in Nat /\ zeroed[n] \in Nat
          /\ delivery[n] # None => delivery[n].at \in Nat
      BY <1>0 DEF Types, Call
    <3>2. CASE UNCHANGED <<owed, queuedAt>>
      BY <1>8, <2>0, <3>1, <3>2 DEF Facts, ResetInv
    <3>3. CASE owed' = [k \in Nodes |-> clock'] /\ queuedAt' = clock'
      <4>1. owed'[n] = clock' /\ clock' # None
        BY <1>9, <3>3, Shapes DEF Types
      <4> QED BY <1>8, <2>0, <3>1, <3>3, <4>1 DEF Facts, ResetInv
    <3> QED BY <1>8, <3>2, <3>3 DEF Facts
  <2>2. ByteInv(n)'
    BY <1>8, <2>0 DEF Facts, ByteInv, ByteAt
  <2>3. QuotaInv(n)'
    <3>1. dirty'[n] \in BOOLEAN /\ dirty[n] \in BOOLEAN
      BY <1>0, <1>8 DEF Facts, Types
    <3> QED BY <1>8, <2>0, <3>1 DEF Facts, QuotaInv
  <2> QED BY <2>1, <2>2, <2>3
<1>11. total' = total \/ clock' # clock
  BY <1>0, <1>8 DEF Facts
<1> QED BY <1>9, <1>10, <1>11 DEF Inv

\* Changes of a pass that do not end in a snapshot.
LEMMA PassFacts ==
  ASSUME NEW j \in {Idle} \cup Pass \cup Merge, j.pc # "idle", j.pc # "merge",
         NEW p \in {"reconcile", "resets", "delivering", "fetch"}, NEW b \in BOOLEAN
  PROVE  /\ [j EXCEPT !.pc = p] \in Pass /\ [j EXCEPT !.pc = p].pc = p
         /\ [j EXCEPT !.pc = p, !.pushed = b] \in Pass
         /\ [j EXCEPT !.pc = p, !.pushed = b].pc = p
<1>1. j \in Pass
  BY Shapes
<1> QED BY <1>1 DEF Pass

\* A delivery begins, is applied, or ends.
LEMMA DeliveryStep ==
  ASSUME Inv, NEW m \in Nodes,
         \/ DeliverNow(m) \/ JobDeliver(m) \/ NodeApplies(m) \/ Delivered(m) \/ DeliveryFails(m)
  PROVE  Inv' /\ total' = total
<1> DEFINE Facts ==
             /\ UNCHANGED <<enable, total, base, dirty, dirtyAt, clock, queuedAt, flowed, counted,
                            again>>
             /\ \A n \in Nodes : n # m => /\ delivery'[n] = delivery[n] /\ job'[n] = job[n]
                                         /\ owed'[n] = owed[n] /\ remote'[n] = remote[n]
                                         /\ zeroed'[n] = zeroed[n]
             /\ job'[m] = job[m] \/ (job'[m] \in Pass)
             /\ delivery'[m] # None /\ delivery'[m].by = "job" => job'[m].pc = "delivering"
             /\ \/ /\ delivery'[m] = delivery[m]
                   /\ UNCHANGED <<owed, remote, zeroed>>
                \/ /\ owed[m] # None /\ delivery'[m] \in Call
                   /\ delivery'[m].at = owed[m] /\ ~delivery'[m].applied
                   /\ UNCHANGED <<owed, remote, zeroed>>
                \/ /\ delivery[m] # None
                   /\ delivery'[m] \in Call /\ delivery'[m].at = delivery[m].at
                   /\ zeroed'[m] = clock /\ UNCHANGED owed
                   /\ remote'[m] \in Row /\ remote'[m].ctr = NoBytes
                   /\ remote'[m].total = remote[m].total
                \/ /\ delivery'[m] = None
                   /\ UNCHANGED <<remote, zeroed>>
                   /\ \/ UNCHANGED owed
                      \/ /\ delivery[m] # None /\ delivery[m].applied
                         /\ owed[m] = delivery[m].at /\ owed'[m] = None
             /\ delivery' \in [Nodes -> Call \cup {None}]
             /\ job' \in [Nodes -> {Idle} \cup Pass \cup Merge]
             /\ owed' \in [Nodes -> Nat \cup {None}]
             /\ remote' \in [Nodes -> Row]
             /\ zeroed' \in [Nodes -> Nat]
<1>0. Types
  BY DEF Inv
<1>t. /\ delivery \in [Nodes -> Call \cup {None}] /\ delivery[m] \in Call \cup {None}
      /\ job \in [Nodes -> {Idle} \cup Pass \cup Merge] /\ job[m] \in {Idle} \cup Pass \cup Merge
      /\ owed \in [Nodes -> Nat \cup {None}] /\ owed[m] \in Nat \cup {None}
      /\ remote \in [Nodes -> Row] /\ remote[m] \in Row
      /\ zeroed \in [Nodes -> Nat] /\ clock \in Nat
      /\ delivery[m] # None /\ delivery[m].by = "job" => job[m].pc = "delivering"
  BY <1>0 DEF Types
<1>1. ASSUME DeliverNow(m) PROVE Facts
  <2>1. CASE owed[m] = None
    BY <1>1, <1>t, <2>1 DEF DeliverNow, master, flags, rest, history, bytes
  <2>2. CASE owed[m] # None
    <3> DEFINE d == [by |-> "call", at |-> owed[m], applied |-> FALSE]
    <3>1. d \in Call /\ d.at = owed[m] /\ ~d.applied /\ d.by # "job"
      BY <1>t, <2>2 DEF Call
    <3>2. delivery' = [delivery EXCEPT ![m] = d]
      BY <1>1, <2>2 DEF DeliverNow
    <3> HIDE DEF d
    <3>3. /\ delivery'[m] = d /\ delivery' \in [Nodes -> Call \cup {None}]
          /\ \A n \in Nodes : n # m => delivery'[n] = delivery[n]
      BY <1>t, <3>1, <3>2
    <3> QED BY <1>1, <1>t, <2>2, <3>1, <3>3 DEF DeliverNow, master, flags, rest, history, bytes
  <2> QED BY <2>1, <2>2
<1>2. ASSUME JobDeliver(m) PROVE Facts
  <2>0. job[m].pc # "idle" /\ job[m].pc # "merge" /\ delivery[m] = None
    BY <1>2 DEF JobDeliver
  <2>1. CASE owed[m] = None
    <3>1. job' = [job EXCEPT ![m] = [job[m] EXCEPT !.pc = "fetch"]] /\ UNCHANGED delivery
      BY <1>2, <2>1 DEF JobDeliver
    <3>2. [job[m] EXCEPT !.pc = "fetch"] \in Pass
      BY <1>t, <2>0, PassFacts
    <3>3. /\ job'[m] \in Pass /\ job' \in [Nodes -> {Idle} \cup Pass \cup Merge]
          /\ \A n \in Nodes : n # m => job'[n] = job[n]
      BY <1>t, <3>1, <3>2
    <3> QED BY <1>2, <1>t, <2>0, <3>1, <3>3
      DEF JobDeliver, master, flags, calls, rest, history, bytes
  <2>2. CASE owed[m] # None
    <3> DEFINE d == [by |-> "job", at |-> owed[m], applied |-> FALSE]
               j == [job[m] EXCEPT !.pc = "delivering"]
    <3>1. d \in Call /\ d.at = owed[m] /\ ~d.applied
      BY <1>t, <2>2 DEF Call
    <3>2. j \in Pass /\ j.pc = "delivering"
      BY <1>t, <2>0, PassFacts
    <3>3. delivery' = [delivery EXCEPT ![m] = d] /\ job' = [job EXCEPT ![m] = j]
      BY <1>2, <2>2 DEF JobDeliver
    <3> HIDE DEF d, j
    <3>4. /\ delivery'[m] = d /\ delivery' \in [Nodes -> Call \cup {None}]
          /\ job'[m] = j /\ job' \in [Nodes -> {Idle} \cup Pass \cup Merge]
          /\ \A n \in Nodes : n # m => delivery'[n] = delivery[n] /\ job'[n] = job[n]
      BY <1>t, <3>1, <3>2, <3>3
    <3> QED BY <1>2, <1>t, <2>2, <3>1, <3>2, <3>4
      DEF JobDeliver, master, flags, calls, rest, history, bytes
  <2> QED BY <2>1, <2>2
<1>3. ASSUME NodeApplies(m) PROVE Facts
  <2> DEFINE d == [delivery[m] EXCEPT !.applied = TRUE]
             r == [remote[m] EXCEPT !.ctr = NoBytes, !.enable = TRUE]
  <2>0. delivery[m] \in Call
    BY <1>3, <1>t DEF NodeApplies
  <2>1. d \in Call /\ d.at = delivery[m].at /\ d.by = delivery[m].by
    BY <2>0 DEF Call
  <2>2. r \in Row /\ r.ctr = NoBytes /\ r.total = remote[m].total
    BY <1>t, Shapes DEF Row
  <2>3. /\ delivery' = [delivery EXCEPT ![m] = d] /\ remote' = [remote EXCEPT ![m] = r]
        /\ zeroed' = [zeroed EXCEPT ![m] = clock]
    BY <1>3, <1>t DEF NodeApplies
  <2> HIDE DEF d, r
  <2>4. /\ delivery'[m] = d /\ delivery' \in [Nodes -> Call \cup {None}]
        /\ remote'[m] = r /\ remote' \in [Nodes -> Row]
        /\ zeroed'[m] = clock /\ zeroed' \in [Nodes -> Nat]
        /\ \A n \in Nodes : n # m => /\ delivery'[n] = delivery[n] /\ remote'[n] = remote[n]
                                    /\ zeroed'[n] = zeroed[n]
    BY <1>t, <2>1, <2>2, <2>3
  <2> QED BY <1>3, <1>t, <2>1, <2>2, <2>4 DEF NodeApplies, master, flags, calls, rest, bytes
<1>e. ASSUME delivery[m] # None, EndDelivery(m)
      PROVE  /\ delivery'[m] = None /\ delivery' \in [Nodes -> Call \cup {None}]
             /\ job'[m] = job[m] \/ job'[m] \in Pass
             /\ job' \in [Nodes -> {Idle} \cup Pass \cup Merge]
             /\ \A n \in Nodes : n # m => delivery'[n] = delivery[n] /\ job'[n] = job[n]
  <2>1. delivery' = [delivery EXCEPT ![m] = None]
    BY <1>e DEF EndDelivery
  <2>2. CASE delivery[m].by = "job"
    <3>1. job' = [job EXCEPT ![m] = [job[m] EXCEPT !.pc = "fetch"]]
      BY <1>e, <2>2 DEF EndDelivery
    <3>2. [job[m] EXCEPT !.pc = "fetch"] \in Pass
      BY <1>e, <1>t, <2>2, PassFacts
    <3> QED BY <1>t, <2>1, <3>1, <3>2
  <2>3. CASE delivery[m].by # "job"
    BY <1>e, <1>t, <2>1, <2>3 DEF EndDelivery
  <2> QED BY <2>2, <2>3
<1>4. ASSUME Delivered(m) PROVE Facts
  <2>1. /\ owed' \in [Nodes -> Nat \cup {None}]
        /\ \A n \in Nodes : n # m => owed'[n] = owed[n]
        /\ UNCHANGED owed \/ (owed[m] = delivery[m].at /\ owed'[m] = None)
    BY <1>4, <1>t DEF Delivered
  <2> QED BY <1>4, <1>e, <1>t, <2>1 DEF Delivered, master, flags, calls, rest, history, bytes
<1>5. ASSUME DeliveryFails(m) PROVE Facts
  BY <1>5, <1>e, <1>t DEF DeliveryFails, master, flags, calls, rest, history, bytes
<1>6. Facts
  BY <1>1, <1>2, <1>3, <1>4, <1>5
<1> HIDE DEF Facts
<1>7. Types'
  BY <1>0, <1>6 DEF Facts, Types
<1>8. ASSUME NEW n \in Nodes PROVE (ResetInv(n) /\ ByteInv(n) /\ QuotaInv(n))'
  <2>0. ResetInv(n) /\ ByteInv(n) /\ QuotaInv(n)
    BY DEF Inv
  <2>j. job'[n] = job[n] \/ job'[n].pc # "merge"
    BY <1>6, Shapes DEF Facts
  <2>1. ResetInv(n)'
    <3>1. /\ queuedAt \in Nat /\ clock \in Nat /\ zeroed[n] \in Nat /\ zeroed'[n] \in Nat
          /\ delivery[n] # None => delivery[n].at \in Nat
      BY <1>0, <1>6 DEF Facts, Types, Call
    <3>2. CASE n # m
      BY <1>6, <2>0, <3>2 DEF Facts, ResetInv
    <3>3. CASE n = m
      BY <1>6, <2>0, <3>1, <3>3 DEF Facts, ResetInv
    <3> QED BY <3>2, <3>3
  <2>2. /\ remote'[n].total = remote[n].total
        /\ remote'[n].ctr = remote[n].ctr \/ remote'[n].ctr = NoBytes
    BY <1>6 DEF Facts
  <2>3. ByteInv(n)'
    <3>1. ASSUME NEW d \in Dirs PROVE ByteAt(n, d)'
      <4>1. remote'[n].ctr[d] = remote[n].ctr[d] \/ remote'[n].ctr[d] = 0
        BY <2>2 DEF NoBytes
      <4>2. ByteAt(n, d)
        BY <2>0 DEF ByteInv
      <4> QED BY <1>0, <1>6, <2>j, <4>1, <4>2, Numbers DEF Facts, ByteAt
    <3> QED BY <3>1 DEF ByteInv
  <2>4. QuotaInv(n)'
    BY <1>6, <2>0, <2>2, <2>j DEF Facts, QuotaInv
  <2> QED BY <2>1, <2>3, <2>4
<1> QED BY <1>6, <1>7, <1>8 DEF Facts, Inv

\* The passes up to the snapshot.
LEMMA JobStep ==
  ASSUME Inv,
         \/ JobRun
         \/ \E m \in Nodes : \/ Reconcile(m) \/ ReconcileFails(m)
                            \/ FetchTrafficSnapshot(m) \/ FetchFails(m) \/ MergeFails(m)
  PROVE  Inv' /\ total' = total
<1> DEFINE Jobs == [Nodes -> {Idle} \cup Pass \cup Merge]
           Kept == UNCHANGED <<enable, total, base, owed, dirtyAt, delivery, clock, queuedAt,
                               zeroed, flowed, counted, again>>
           Facts(n) ==
             /\ remote'[n].ctr = remote[n].ctr
             /\ job'[n].pc = "merge" =>
                  \/ job'[n] = job[n]
                  \/ job'[n].snap = remote[n]
             /\ \/ dirty'[n] = dirty[n] /\ remote'[n] = remote[n]
                \/ /\ dirty[n] \/ ~dirty'[n]
                   /\ remote'[n].total = total /\ job'[n].pc # "merge"
             /\ job[n].pc = "delivering" => job'[n] = job[n]
<1>0. Types
  BY DEF Inv
<1>t. /\ job \in [Nodes -> {Idle} \cup Pass \cup Merge] /\ remote \in [Nodes -> Row]
      /\ dirty \in [Nodes -> BOOLEAN] /\ dirtyAt \in [Nodes -> Nat]
      /\ enable \in BOOLEAN /\ total \in Quotas /\ zeroed \in [Nodes -> Nat]
  BY <1>0 DEF Types
<1>1. ASSUME JobRun
      PROVE  /\ Kept /\ dirty' \in [Nodes -> BOOLEAN] /\ remote' \in [Nodes -> Row] /\ job' \in Jobs
             /\ \A n \in Nodes : Facts(n)
  <2>1. /\ UNCHANGED <<dirty, remote>> /\ Kept
        /\ \A n \in Nodes : job[n] = Idle
    BY <1>1 DEF JobRun, master, flags, calls, rest, history, bytes
  <2>2. ASSUME NEW n \in Nodes PROVE job'[n] \in Pass
    <3>1. job'[n] = [pc |-> IF dirty[n] THEN "reconcile" ELSE "resets",
                     at |-> dirtyAt[n], pushed |-> FALSE]
      BY <1>1 DEF JobRun
    <3> QED BY <1>t, <3>1 DEF Pass
  <2>3. job' \in Jobs
    BY <1>1, <2>2 DEF JobRun
  <2> QED BY <1>t, <2>1, <2>2, <2>3, Shapes
<1>2. ASSUME NEW m \in Nodes,
             \/ Reconcile(m) \/ ReconcileFails(m) \/ FetchTrafficSnapshot(m) \/ FetchFails(m)
             \/ MergeFails(m)
      PROVE  /\ Kept /\ dirty' \in [Nodes -> BOOLEAN] /\ remote' \in [Nodes -> Row] /\ job' \in Jobs
             /\ \A n \in Nodes : Facts(n)
  <2>1. PICK j : /\ job' = [job EXCEPT ![m] = j]
                 /\ j \in {Idle} \cup Pass \cup Merge
                 /\ j.pc = "merge" => j.snap = remote[m]
                 /\ job[m].pc \in {"reconcile", "fetch", "merge"}
                 /\ \/ UNCHANGED <<dirty, remote>>
                    \/ Reconcile(m) /\ j.pc # "merge"
                 /\ Kept
    <3>1. CASE Reconcile(m)
      <4> DEFINE j == [job[m] EXCEPT !.pc = "resets", !.pushed = TRUE]
      <4>1. j \in Pass /\ j.pc = "resets"
        BY <1>t, <3>1, PassFacts DEF Reconcile
      <4>2. job' = [job EXCEPT ![m] = j] /\ Kept /\ job[m].pc = "reconcile"
        BY <3>1 DEF Reconcile, master, calls, rest, history, bytes
      <4> HIDE DEF j
      <4> QED BY <3>1, <4>1, <4>2
    <3>2. CASE ReconcileFails(m)
      <4> DEFINE j == [job[m] EXCEPT !.pc = "resets"]
      <4>1. j \in Pass /\ j.pc = "resets"
        BY <1>t, <3>2, PassFacts DEF ReconcileFails
      <4>2. /\ job' = [job EXCEPT ![m] = j] /\ Kept /\ job[m].pc = "reconcile"
            /\ UNCHANGED <<dirty, remote>>
        BY <3>2 DEF ReconcileFails, master, flags, calls, rest, history, bytes
      <4> HIDE DEF j
      <4> QED BY <4>1, <4>2
    <3>3. CASE FetchTrafficSnapshot(m)
      <4> DEFINE j == [pc |-> "merge", pushed |-> job[m].pushed,
                       snap |-> remote[m], zeroed |-> zeroed[m]]
      <4>1. job[m].pushed \in BOOLEAN
        <5>1. job[m] \in Pass
          BY <1>t, <3>3, Shapes DEF FetchTrafficSnapshot
        <5> QED BY <5>1 DEF Pass
      <4>2. j \in Merge /\ j.snap = remote[m]
        BY <1>t, <4>1 DEF Merge
      <4>3. /\ job' = [job EXCEPT ![m] = j] /\ Kept /\ job[m].pc = "fetch"
            /\ UNCHANGED <<dirty, remote>>
        BY <3>3 DEF FetchTrafficSnapshot, master, flags, calls, rest, history, bytes
      <4> HIDE DEF j
      <4> QED BY <4>2, <4>3
    <3>4. CASE FetchFails(m) \/ MergeFails(m)
      BY <3>4, Shapes DEF FetchFails, MergeFails, master, flags, calls, rest, history, bytes
    <3> QED BY <1>2, <3>1, <3>2, <3>3, <3>4
  <2>2. /\ job' \in Jobs /\ job'[m] = j
        /\ \A n \in Nodes : n # m => job'[n] = job[n]
    BY <1>t, <2>1
  <2>3. CASE UNCHANGED <<dirty, remote>>
    BY <1>t, <2>1, <2>2, <2>3
  <2>4. CASE Reconcile(m) /\ j.pc # "merge"
    <3> DEFINE r == [remote[m] EXCEPT !.enable = enable, !.total = total]
    <3>1. r \in Row /\ r.ctr = remote[m].ctr /\ r.total = total
      BY <1>t DEF Row
    <3>2. /\ remote' = [remote EXCEPT ![m] = r]
          /\ dirty' = [dirty EXCEPT ![m] = dirty[m] /\ dirtyAt[m] # job[m].at]
      BY <1>t, <2>4 DEF Reconcile
    <3> HIDE DEF r
    <3>3. /\ remote' \in [Nodes -> Row] /\ remote'[m] = r
          /\ \A n \in Nodes : n # m => remote'[n] = remote[n]
      BY <1>t, <3>1, <3>2
    <3>4. /\ dirty' \in [Nodes -> BOOLEAN] /\ (dirty'[m] => dirty[m])
          /\ \A n \in Nodes : n # m => dirty'[n] = dirty[n]
      BY <1>t, <3>2
    <3> QED BY <2>1, <2>2, <2>4, <3>1, <3>3, <3>4
  <2> QED BY <2>1, <2>3, <2>4
<1>3. /\ Kept /\ dirty' \in [Nodes -> BOOLEAN] /\ remote' \in [Nodes -> Row] /\ job' \in Jobs
      /\ \A n \in Nodes : Facts(n)
  BY <1>1, <1>2
<1>4. Types'
  BY <1>0, <1>3 DEF Types
<1>5. ASSUME NEW n \in Nodes PROVE (ResetInv(n) /\ ByteInv(n) /\ QuotaInv(n))'
  <2>0. ResetInv(n) /\ ByteInv(n) /\ QuotaInv(n) /\ Facts(n)
    BY <1>3 DEF Inv
  <2>1. ResetInv(n)'
    BY <1>3, <2>0 DEF ResetInv
  <2>2. ByteInv(n)'
    <3>1. ASSUME NEW d \in Dirs PROVE ByteAt(n, d)'
      BY <1>0, <1>3, <2>0, Numbers DEF ByteInv, ByteAt
    <3> QED BY <3>1 DEF ByteInv
  <2>3. QuotaInv(n)'
    BY <1>3, <2>0 DEF QuotaInv
  <2> QED BY <2>1, <2>2, <2>3
<1> QED BY <1>3, <1>4, <1>5 DEF Inv

\* The merge: the case the baselines and the frozen rules are for.
LEMMA MergeStep ==
  ASSUME Inv, NEW m \in Nodes, SetRemoteTraffic(m) PROVE Inv' /\ total' = total
<1>0. Types /\ ResetInv(m) /\ ByteInv(m) /\ QuotaInv(m) /\ job[m].pc = "merge"
  BY DEF Inv, SetRemoteTraffic
<1>1. /\ job[m] \in Merge /\ job[m].snap.ctr \in Count /\ job[m].snap.enable \in BOOLEAN
      /\ base[m] # None => base[m] \in Count
  BY <1>0, Shapes DEF Types, Row, Merge
<1>2. /\ UNCHANGED <<owed, remote, delivery, clock, queuedAt, zeroed, flowed>>
      /\ job' = [job EXCEPT ![m] = Idle]
      /\ base' = [base EXCEPT ![m] = MergedBase(m)]
      /\ counted' = Plus(counted, m)
      /\ again' = IF Frozen(m) /\ Behind(m) THEN Plus(again, m) ELSE again
      /\ enable' = MergedEnable(m) /\ total' = MergedTotal(m)
  BY DEF SetRemoteTraffic, calls, rest
<1>3. total' = total
  <2>1. CASE Frozen(m)
    BY <1>2, <2>1 DEF MergedTotal
  <2>2. CASE ~Frozen(m)
    BY <1>0, <1>2, <2>2 DEF MergedTotal, Frozen, QuotaInv
  <2> QED BY <2>1, <2>2
<1>4. enable' \in BOOLEAN
  <2>1. CASE Frozen(m)
    BY <1>0, <1>2, <2>1 DEF MergedEnable, Types
  <2>2. CASE ~Frozen(m)
    <3>1. enable' = (enable /\ (job[m].snap.enable \/ DisableIsStale(m)))
      BY <1>2, <2>2 DEF MergedEnable
    <3> QED BY <3>1
  <2> QED BY <2>1, <2>2
<1>5. /\ dirty' \in [Nodes -> BOOLEAN] /\ dirtyAt' \in [Nodes -> Nat]
      /\ \A n \in Nodes : dirty[n] => dirty'[n]
  <2>1. CASE ~dirty[m] /\ Lifted(m)
    <3>1. MarkNodesDirty({m}, clock)
      BY <2>1 DEF SetRemoteTraffic
    <3> QED BY <1>0, <3>1 DEF MarkNodesDirty, Types
  <2>2. CASE ~(~dirty[m] /\ Lifted(m))
    BY <1>0, <2>2 DEF SetRemoteTraffic, flags, Types
  <2> QED BY <2>1, <2>2
<1>6. ASSUME NEW d \in Dirs
      PROVE  /\ Delta(m, d) \in Nat
             /\ base[m] = None => Delta(m, d) = 0
             /\ base[m] # None /\ job[m].snap.ctr[d] > base[m][d] =>
                  Delta(m, d) = job[m].snap.ctr[d] - base[m][d]
             /\ base[m] # None /\ ~(job[m].snap.ctr[d] > base[m][d]) => Delta(m, d) = 0
  BY <1>0, Numbers DEF Delta
<1>p. ASSUME NEW f \in [Nodes -> Count]
      PROVE  /\ Plus(f, m) \in [Nodes -> Count]
             /\ \A d \in Dirs : Plus(f, m)[m][d] = f[m][d] + Delta(m, d)
             /\ \A n \in Nodes : n # m => Plus(f, m)[n] = f[n]
  <2> DEFINE g == [d \in Dirs |-> f[m][d] + Delta(m, d)]
  <2>1. g \in Count /\ \A d \in Dirs : g[d] = f[m][d] + Delta(m, d)
    BY <1>6 DEF Count
  <2>2. Plus(f, m) = [f EXCEPT ![m] = g]
    BY DEF Plus
  <2> HIDE DEF g
  <2> QED BY <2>1, <2>2
<1>7. /\ MergedBase(m) \in Count
      /\ \/ MergedBase(m) = job[m].snap.ctr
         \/ base[m] # None /\ Frozen(m) /\ Behind(m) /\ MergedBase(m) = base[m]
  BY <1>1 DEF MergedBase, Behind
<1>8. /\ job'[m] = Idle /\ base'[m] = MergedBase(m)
      /\ \A d \in Dirs : /\ counted'[m][d] = counted[m][d] + Delta(m, d)
                         /\ again'[m][d] = IF Frozen(m) /\ Behind(m)
                                             THEN again[m][d] + Delta(m, d) ELSE again[m][d]
      /\ \A n \in Nodes : n # m => /\ job'[n] = job[n] /\ base'[n] = base[n]
                                  /\ counted'[n] = counted[n] /\ again'[n] = again[n]
      /\ job' \in [Nodes -> {Idle} \cup Pass \cup Merge]
      /\ base' \in [Nodes -> Count \cup {None}] /\ counted' \in [Nodes -> Count]
      /\ again' \in [Nodes -> Count]
  <2>1. /\ job \in [Nodes -> {Idle} \cup Pass \cup Merge]
        /\ base \in [Nodes -> Count \cup {None}] /\ counted \in [Nodes -> Count]
        /\ again \in [Nodes -> Count]
    BY <1>0 DEF Types
  <2> QED BY <1>2, <1>7, <1>p, <2>1
<1>9. Types'
  <2>1. delivery[m] # None => delivery[m].by # "job"
    BY <1>0 DEF Types
  <2> QED BY <1>0, <1>2, <1>3, <1>4, <1>5, <1>8, <2>1 DEF Types
<1>10. ASSUME NEW n \in Nodes PROVE (ResetInv(n) /\ ByteInv(n) /\ QuotaInv(n))'
  <2>0. ResetInv(n) /\ ByteInv(n) /\ QuotaInv(n)
    BY DEF Inv
  <2>1. ResetInv(n)'
    BY <1>2, <2>0 DEF ResetInv
  <2>2. QuotaInv(n)'
    <3>1. job'[n] = job[n] \/ job'[n].pc # "merge"
      BY <1>8, Shapes
    <3> QED BY <1>2, <1>3, <1>5, <2>0, <3>1 DEF QuotaInv
  <2>3. ByteInv(n)'
    <3>1. CASE n # m
      BY <1>2, <1>8, <2>0, <3>1 DEF ByteInv, ByteAt
    <3>2. CASE n = m
      <4>1. job'[n].pc # "merge"
        BY <1>8, <3>2, Shapes
      <4>2. ASSUME NEW d \in Dirs PROVE ByteAt(n, d)'
        <5>1. ByteAt(m, d)
          BY <1>0 DEF ByteInv
        <5>2. /\ counted'[m][d] <= flowed[m][d] + again'[m][d]
              /\ counted'[m][d] + remote[m].ctr[d] <= flowed[m][d] + again'[m][d] + base'[m][d]
          <6>1. CASE Frozen(m) /\ Behind(m)
            BY <1>0, <1>6, <1>8, <5>1, <6>1, Numbers DEF ByteAt, MergedBase, Behind
          <6>2. CASE ~(Frozen(m) /\ Behind(m))
            <7>1. base'[m] = job[m].snap.ctr /\ again'[m][d] = again[m][d]
                  /\ counted'[m][d] = counted[m][d] + Delta(m, d)
              BY <1>8, <6>2 DEF MergedBase
            <7> QED BY <1>0, <1>6, <5>1, <7>1, Numbers DEF ByteAt
          <6> QED BY <6>1, <6>2
        <5> QED BY <1>2, <3>2, <4>1, <5>2 DEF ByteAt
      <4> QED BY <4>2 DEF ByteInv
    <3> QED BY <3>1, <3>2
  <2> QED BY <2>1, <2>2, <2>3
<1> QED BY <1>3, <1>9, <1>10 DEF Inv

LEMMA NextInv == Inv /\ [Next]_vars => Inv' /\ (total' = total \/ clock' # clock)
<1> SUFFICES ASSUME Inv, [Next]_vars PROVE Inv' /\ (total' = total \/ clock' # clock)
  OBVIOUS
<1>1. CASE UNCHANGED vars
  BY <1>1 DEF vars, Inv, Types, ResetInv, ByteInv, ByteAt, QuotaInv
<1>2. ASSUME NEW m \in Nodes, (\E d \in Dirs : Carry(m, d)) \/ NodeDepletes(m)
      PROVE  Inv' /\ total' = total
  <2>1. "up" \in Dirs
    BY DEF Dirs
  <2> QED BY <1>2, <2>1, CarryStep DEF Carry, NodeDepletes, master
<1> QED BY <1>1, <1>2, MasterStep, DeliveryStep, JobStep, MergeStep DEF Next, NodeStep

\* The three parts of the invariant, in every reachable state.
THEOREM TrafficInvariant == Spec => []Inv
<1> QED BY InitInv, NextInv, PTL DEF Spec

\* No reset is lost (node_reset_queue.go:88): a node that has not applied the
\* last queued reset still has its row, whatever failed and however the
\* deliveries of the caller and of the sync job overlapped.
THEOREM ResetsAreKept == Spec => []NoLostReset
<1>1. Inv => NoLostReset
  BY DEF Inv, ResetInv, NoLostReset
<1> QED BY <1>1, TrafficInvariant, PTL

\* The baselines of setRemoteTrafficLocked never count a byte of a node twice in a
\* direction, but for the bytes a frozen merge adds while it keeps the baseline
\* because the other direction's counter went back.
THEOREM BytesCountedOnce == Spec => []NoByteCountedTwice
<1>1. Inv => NoByteCountedTwice
  BY DEF Inv, ByteInv, ByteAt, NoByteCountedTwice
<1> QED BY <1>1, TrafficInvariant, PTL

\* No merge of a node's snapshot changes the client's quota
\* (inbound_node.go:1098): only an operation of the master does.
THEOREM QuotaKept == Spec => QuotaNotReverted
<1>1. Inv /\ [Next]_vars => [total' # total => clock' # clock]_vars
  BY NextInv
<1> QED BY <1>1, TrafficInvariant, PTL DEF Spec, QuotaNotReverted

----------------------------------------------------------------------------
(***************************************************************************)
(* Verdicts.  A merge that is not frozen has a snapshot as new as the last *)
(* reset.  The queue's row keeps the others frozen, unless a caller        *)
(* delivers the row while the snapshot is on its way; so a pass that could *)
(* still be overtaken by a caller must have been ahead of the last reset   *)
(* when it read the queue, when it fetched, and when it merges.            *)
(***************************************************************************)
Fresh(n) ==
    ~dirty[n] /\ job[n].pc \in {"delivering", "fetch", "merge"} /\ ~job[n].pushed =>
      /\ job[n].pc = "delivering" /\ CallPending(n) => owed[n] = delivery[n].at
      /\ job[n].pc = "fetch" /\ (owed[n] = None \/ CallPending(n)) => zeroed[n] >= resetAt
      /\ job[n].pc = "merge" /\ (owed[n] = None \/ CallPending(n)) => job[n].zeroed >= resetAt

FreshTypes ==
    /\ used \in Nat /\ resetAt \in Nat /\ now \in [Nodes -> Nat]
    /\ \A n \in Nodes : job[n].pc = "delivering" => delivery[n] # None /\ delivery[n].by = "job"

FreshInv ==
    /\ FreshTypes
    /\ PromptResets => resetAt = queuedAt /\ \A n \in Nodes : Fresh(n)

\* The merge adds a natural number of bytes.
LEMMA DeltaNat ==
  ASSUME Inv, NEW m \in Nodes, job[m].pc = "merge" PROVE Added(m) \in Nat
<1>1. ASSUME NEW d \in Dirs PROVE Delta(m, d) \in Nat
  BY Numbers DEF Delta, Inv
<1> QED BY <1>1 DEF Added, Dirs

\* Where a pass goes when a delivery begins or ends.
LEMMA DeliveryMoves ==
  ASSUME Inv, NEW m \in Nodes
  PROVE  /\ DeliverNow(m) =>
              /\ now[m] > 0 /\ delivery[m] = None /\ now' = [now EXCEPT ![m] = @ - 1] /\ job' = job
              /\ IF owed[m] = None THEN delivery' = delivery
                 ELSE /\ delivery'[m] # None /\ delivery'[m].by = "call" /\ delivery'[m].at = owed[m]
                      /\ \A n \in Nodes \ {m} : delivery'[n] = delivery[n]
         /\ JobDeliver(m) =>
              /\ now' = now /\ delivery[m] = None
              /\ \A n \in Nodes \ {m} : delivery'[n] = delivery[n] /\ job'[n] = job[n]
              /\ IF owed[m] = None THEN delivery' = delivery /\ job'[m].pc = "fetch"
                 ELSE /\ job'[m].pc = "delivering"
                      /\ delivery'[m] # None /\ delivery'[m].by = "job" /\ delivery'[m].at = owed[m]
         /\ NodeApplies(m) =>
              /\ now' = now /\ job' = job /\ delivery[m] # None
              /\ delivery'[m] # None /\ delivery'[m].by = delivery[m].by
              /\ delivery'[m].at = delivery[m].at
              /\ \A n \in Nodes \ {m} : delivery'[n] = delivery[n]
         /\ Delivered(m) \/ DeliveryFails(m) =>
              /\ now' = now /\ delivery[m] # None /\ delivery'[m] = None
              /\ \A n \in Nodes \ {m} : delivery'[n] = delivery[n] /\ job'[n] = job[n]
              /\ IF delivery[m].by = "job" THEN job'[m].pc = "fetch" ELSE job'[m] = job[m]
<1>0. /\ delivery \in [Nodes -> Call \cup {None}] /\ delivery[m] \in Call \cup {None}
      /\ job \in [Nodes -> {Idle} \cup Pass \cup Merge] /\ job[m] \in {Idle} \cup Pass \cup Merge
      /\ owed \in [Nodes -> Nat \cup {None}] /\ owed[m] \in Nat \cup {None}
      /\ delivery[m] # None /\ delivery[m].by = "job" => job[m].pc = "delivering"
  BY DEF Inv, Types
<1>1. ASSUME NEW b \in {"call", "job"}, NEW d, d = [by |-> b, at |-> owed[m], applied |-> FALSE],
             owed[m] # None, delivery' = [delivery EXCEPT ![m] = d]
      PROVE  /\ delivery'[m] # None /\ delivery'[m].by = b /\ delivery'[m].at = owed[m]
             /\ \A n \in Nodes \ {m} : delivery'[n] = delivery[n]
  <2>1. d \in Call /\ d.by = b /\ d.at = owed[m]
    BY <1>0, <1>1 DEF Call
  <2>2. d # None
    BY <2>1, NodeTrafficAssumption
  <2> QED BY <1>0, <1>1, <2>1, <2>2
<1>2. ASSUME NEW v \in {"fetch", "delivering"}, job' = [job EXCEPT ![m].pc = v],
             job[m].pc # "idle", job[m].pc # "merge"
      PROVE  job'[m].pc = v /\ \A n \in Nodes \ {m} : job'[n] = job[n]
  <2>1. job' = [job EXCEPT ![m] = [job[m] EXCEPT !.pc = v]]
    BY <1>2
  <2>2. job[m] \in Pass
    BY <1>0, <1>2, Shapes
  <2>3. [job[m] EXCEPT !.pc = v].pc = v
    BY <2>2 DEF Pass
  <2> QED BY <1>0, <2>1, <2>3
<1>3. ASSUME DeliverNow(m)
      PROVE  /\ now[m] > 0 /\ delivery[m] = None /\ now' = [now EXCEPT ![m] = @ - 1] /\ job' = job
             /\ IF owed[m] = None THEN delivery' = delivery
                ELSE /\ delivery'[m] # None /\ delivery'[m].by = "call" /\ delivery'[m].at = owed[m]
                     /\ \A n \in Nodes \ {m} : delivery'[n] = delivery[n]
  BY <1>1, <1>3 DEF DeliverNow
<1>4. ASSUME JobDeliver(m)
      PROVE  /\ now' = now /\ delivery[m] = None
             /\ \A n \in Nodes \ {m} : delivery'[n] = delivery[n] /\ job'[n] = job[n]
             /\ IF owed[m] = None THEN delivery' = delivery /\ job'[m].pc = "fetch"
                ELSE /\ job'[m].pc = "delivering"
                     /\ delivery'[m] # None /\ delivery'[m].by = "job" /\ delivery'[m].at = owed[m]
  <2>1. job[m].pc = "resets" /\ delivery[m] = None /\ now' = now
    BY <1>4 DEF JobDeliver, calls
  <2>2. CASE owed[m] = None
    BY <1>2, <1>4, <2>1, <2>2 DEF JobDeliver
  <2>3. CASE owed[m] # None
    <3>1. job'[m].pc = "delivering" /\ \A n \in Nodes \ {m} : job'[n] = job[n]
      BY <1>2, <1>4, <2>1, <2>3 DEF JobDeliver
    <3>2. /\ delivery'[m] # None /\ delivery'[m].by = "job" /\ delivery'[m].at = owed[m]
          /\ \A n \in Nodes \ {m} : delivery'[n] = delivery[n]
      BY <1>1, <1>4, <2>3 DEF JobDeliver
    <3> QED BY <2>1, <2>3, <3>1, <3>2
  <2> QED BY <2>2, <2>3
<1>5. ASSUME NodeApplies(m)
      PROVE  /\ now' = now /\ job' = job /\ delivery[m] # None
             /\ delivery'[m] # None /\ delivery'[m].by = delivery[m].by
             /\ delivery'[m].at = delivery[m].at
             /\ \A n \in Nodes \ {m} : delivery'[n] = delivery[n]
  <2>1. /\ delivery' = [delivery EXCEPT ![m] = [delivery[m] EXCEPT !.applied = TRUE]]
        /\ now' = now /\ job' = job /\ delivery[m] \in Call
    BY <1>0, <1>5 DEF NodeApplies, calls
  <2>2. /\ [delivery[m] EXCEPT !.applied = TRUE] \in Call
        /\ [delivery[m] EXCEPT !.applied = TRUE].by = delivery[m].by
        /\ [delivery[m] EXCEPT !.applied = TRUE].at = delivery[m].at
    BY <2>1 DEF Call
  <2>3. [delivery[m] EXCEPT !.applied = TRUE] # None /\ delivery[m] # None
    BY <2>1, <2>2, NodeTrafficAssumption
  <2>4. /\ delivery'[m] = [delivery[m] EXCEPT !.applied = TRUE]
        /\ \A n \in Nodes \ {m} : delivery'[n] = delivery[n]
    BY <1>0, <2>1
  <2> QED BY <2>1, <2>2, <2>3, <2>4
<1>6. ASSUME Delivered(m) \/ DeliveryFails(m)
      PROVE  /\ now' = now /\ delivery[m] # None /\ delivery'[m] = None
             /\ \A n \in Nodes \ {m} : delivery'[n] = delivery[n] /\ job'[n] = job[n]
             /\ IF delivery[m].by = "job" THEN job'[m].pc = "fetch" ELSE job'[m] = job[m]
  <2>1. now' = now /\ delivery[m] # None /\ EndDelivery(m)
    BY <1>6 DEF Delivered, DeliveryFails, calls
  <2>2. delivery'[m] = None /\ \A n \in Nodes \ {m} : delivery'[n] = delivery[n]
    BY <1>0, <2>1 DEF EndDelivery
  <2>3. CASE delivery[m].by = "job"
    BY <1>0, <1>2, <2>1, <2>2, <2>3 DEF EndDelivery
  <2>4. CASE delivery[m].by # "job"
    BY <2>1, <2>2, <2>4 DEF EndDelivery
  <2> QED BY <2>3, <2>4
<1> QED BY <1>3, <1>4, <1>5, <1>6

LEMMA FreshTypesStep ==
  ASSUME Inv, FreshTypes, [Next]_vars PROVE FreshTypes'
<1>0. Types /\ used \in Nat /\ resetAt \in Nat /\ now \in [Nodes -> Nat] /\ clock \in Nat
  BY DEF Inv, Types, FreshTypes
<1>1. used' \in Nat
  <2>1. ASSUME NEW m \in Nodes, SetRemoteTraffic(m) PROVE used' \in Nat
    <3>1. used' = used + Added(m) /\ Added(m) \in Nat
      BY <2>1, DeltaNat DEF SetRemoteTraffic
    <3> QED BY <1>0, <3>1
  <2>2. ASSUME NEW m \in Nodes, NodeStep(m), ~SetRemoteTraffic(m) PROVE used' \in {used, 0}
    BY <2>2 DEF NodeStep, master, ZeroClient, Carry, NodeDepletes, ResetClientTraffic,
        DeliverNow, JobDeliver, NodeApplies, Delivered, DeliveryFails, Reconcile,
        ReconcileFails, FetchTrafficSnapshot, FetchFails, MergeFails
  <2>3. ASSUME NEW q \in Quotas, UpdateClient(q) PROVE used' = used
    BY <2>3 DEF UpdateClient
  <2>4. ASSUME \/ ResetAllTraffics \/ BulkResetTraffic \/ BulkSetEnable
               \/ ResetClientTrafficByEmail \/ DisableInvalidClients \/ JobRun
        PROVE  used' \in {used, 0}
    BY <2>4 DEF ResetAllTraffics, BulkResetTraffic, BulkSetEnable, ResetClientTrafficByEmail,
        DisableInvalidClients, JobRun, ZeroClient, master
  <2> QED BY <1>0, <2>1, <2>2, <2>3, <2>4 DEF Next, vars
<1>2. resetAt' \in Nat
  <2>1. ASSUME NEW m \in Nodes, NodeStep(m) PROVE resetAt' \in {resetAt, clock'}
    BY <2>1 DEF NodeStep, history, bytes, ZeroClient, Carry, NodeDepletes, ResetClientTraffic,
        DeliverNow, JobDeliver, NodeApplies, Delivered, DeliveryFails, Reconcile,
        ReconcileFails, FetchTrafficSnapshot, FetchFails, MergeFails, SetRemoteTraffic
  <2>2. ASSUME NEW q \in Quotas, UpdateClient(q) PROVE resetAt' = resetAt
    BY <2>2 DEF UpdateClient, history, bytes
  <2>3. ASSUME \/ ResetAllTraffics \/ BulkResetTraffic \/ BulkSetEnable
               \/ ResetClientTrafficByEmail \/ DisableInvalidClients \/ JobRun
        PROVE  resetAt' \in {resetAt, clock'}
    BY <2>3 DEF ResetAllTraffics, BulkResetTraffic, BulkSetEnable, ResetClientTrafficByEmail,
        DisableInvalidClients, JobRun, ZeroClient, history, bytes
  <2>4. clock' \in Nat
    BY NextInv DEF Inv, Types
  <2> QED BY <1>0, <2>1, <2>2, <2>3, <2>4 DEF Next, vars
<1>3. now' \in [Nodes -> Nat]
  <2>1. \/ now' = now
        \/ \E m \in Nodes : now' = [now EXCEPT ![m] = @ + 1]
        \/ \E m \in Nodes : now[m] > 0 /\ now' = [now EXCEPT ![m] = @ - 1]
        \/ now' = [n \in Nodes |-> now[n] + 1]
    BY DEF Next, NodeStep, vars, calls, Carry, NodeDepletes,
        ResetClientTraffic, DeliverNow, JobDeliver, NodeApplies, Delivered, DeliveryFails,
        Reconcile, ReconcileFails, FetchTrafficSnapshot, FetchFails, MergeFails, UpdateClient,
        ResetAllTraffics, BulkResetTraffic, BulkSetEnable, ResetClientTrafficByEmail,
        DisableInvalidClients, JobRun, SetRemoteTraffic
  <2> QED BY <1>0, <2>1
<1>4. ASSUME NEW n \in Nodes, job'[n].pc = "delivering"
      PROVE  delivery'[n] # None /\ delivery'[n].by = "job"
  <2>0. job[n].pc = "delivering" => delivery[n] # None /\ delivery[n].by = "job"
    BY DEF FreshTypes
  <2>1. ASSUME NEW m \in Nodes,
               DeliverNow(m) \/ JobDeliver(m) \/ NodeApplies(m) \/ Delivered(m) \/ DeliveryFails(m)
        PROVE  delivery'[n] # None /\ delivery'[n].by = "job"
    <3>1. CASE n # m
      BY <1>4, <2>0, <2>1, <3>1, DeliveryMoves
    <3>2. CASE n = m
      BY <1>4, <2>0, <2>1, <3>2, DeliveryMoves
    <3> QED BY <3>1, <3>2
  <2>2. ASSUME UNCHANGED delivery, job'[n] = job[n] \/ job'[n].pc # "delivering"
        PROVE  delivery'[n] # None /\ delivery'[n].by = "job"
    BY <1>4, <2>0, <2>2
  <2>3. ASSUME NEW m \in Nodes, Reconcile(m) \/ ReconcileFails(m) \/ FetchTrafficSnapshot(m)
                                \/ FetchFails(m) \/ SetRemoteTraffic(m) \/ MergeFails(m)
        PROVE  job'[n] = job[n] \/ job'[n].pc # "delivering"
    <3>1. job \in [Nodes -> {Idle} \cup Pass \cup Merge] /\ job[m] \in {Idle} \cup Pass \cup Merge
      BY <1>0 DEF Types
    <3>2. CASE Reconcile(m)
      <4>1. /\ job[m].pc = "reconcile"
            /\ job' = [job EXCEPT ![m] = [job[m] EXCEPT !.pc = "resets", !.pushed = TRUE]]
        BY <3>2 DEF Reconcile
      <4>2. [job[m] EXCEPT !.pc = "resets", !.pushed = TRUE].pc = "resets"
        BY <3>1, <4>1, PassFacts
      <4> QED BY <3>1, <4>1, <4>2
    <3>3. CASE ReconcileFails(m)
      <4>1. /\ job[m].pc = "reconcile"
            /\ job' = [job EXCEPT ![m] = [job[m] EXCEPT !.pc = "resets"]]
        BY <3>3 DEF ReconcileFails
      <4>2. [job[m] EXCEPT !.pc = "resets"].pc = "resets"
        BY <3>1, <4>1, PassFacts
      <4> QED BY <3>1, <4>1, <4>2
    <3>4. CASE FetchTrafficSnapshot(m)
      BY <3>1, <3>4 DEF FetchTrafficSnapshot
    <3>5. CASE FetchFails(m) \/ SetRemoteTraffic(m) \/ MergeFails(m)
      BY <3>1, <3>5, Shapes DEF FetchFails, SetRemoteTraffic, MergeFails
    <3> QED BY <2>3, <3>2, <3>3, <3>4, <3>5
  <2>4. CASE JobRun
    <3>1. UNCHANGED delivery /\ job'[n].pc \in {"reconcile", "resets"}
      BY <2>4 DEF JobRun
    <3> QED BY <2>2, <3>1
  <2> QED BY <2>1, <2>2, <2>3, <2>4 DEF Next, NodeStep, vars, Carry, NodeDepletes,
        ResetClientTraffic, Reconcile, ReconcileFails, FetchTrafficSnapshot, FetchFails, MergeFails,
        UpdateClient, ResetAllTraffics, BulkResetTraffic, BulkSetEnable,
        ResetClientTrafficByEmail, DisableInvalidClients, SetRemoteTraffic
<1> QED BY <1>1, <1>2, <1>3, <1>4 DEF FreshTypes

\* What every step leaves alone, and what the master's operations do.
LEMMA WorkloadFixed == [Next]_vars => workload' = workload
<1>1. ASSUME NEW m \in Nodes, NodeStep(m) PROVE workload' = workload
  BY <1>1 DEF NodeStep, rest, Op, Carry, NodeDepletes, ResetClientTraffic,
      DeliverNow, JobDeliver, NodeApplies, Delivered, DeliveryFails, Reconcile,
      ReconcileFails, FetchTrafficSnapshot, FetchFails, MergeFails, SetRemoteTraffic
<1>2. ASSUME NEW q \in Quotas, UpdateClient(q) PROVE workload' = workload
  BY <1>2 DEF UpdateClient, Op
<1>3. ASSUME \/ ResetAllTraffics \/ BulkResetTraffic \/ BulkSetEnable
             \/ ResetClientTrafficByEmail \/ DisableInvalidClients \/ JobRun
      PROVE  workload' = workload
  BY <1>3 DEF ResetAllTraffics, BulkResetTraffic, BulkSetEnable, ResetClientTrafficByEmail,
      DisableInvalidClients, JobRun, Op, rest
<1> QED BY <1>1, <1>2, <1>3 DEF Next, vars

\* A node whose pass, calls, row and flag are as they were stays fresh; marking it
\* dirty never hurts.
LEMMA FreshUnmoved ==
  ASSUME NEW n \in Nodes, Fresh(n), dirty[n] => dirty'[n],
         job'[n] = job[n], owed'[n] = owed[n], delivery'[n] = delivery[n],
         now'[n] = now[n], zeroed'[n] = zeroed[n], resetAt' = resetAt
  PROVE  Fresh(n)'
  BY DEF Fresh, CallPending

\* Fresh is inductive under PromptResets: one step per action that the node's
\* pass, a delivery to it or a reset can take.
LEMMA FreshStep ==
  ASSUME Inv, FreshInv, PromptResets, [Next]_vars
  PROVE  resetAt' = queuedAt' /\ \A n \in Nodes : Fresh(n)'
<1> DEFINE Good == resetAt' = queuedAt' /\ \A n \in Nodes : Fresh(n)'
<1>0. /\ resetAt = queuedAt /\ \A n \in Nodes : Fresh(n)
      /\ Types /\ FreshTypes /\ Inv' /\ FreshTypes'
      /\ resetAt \in Nat /\ clock \in Nat /\ zeroed \in [Nodes -> Nat] /\ clock' \in Nat
      /\ \A n \in Nodes : ResetInv(n) /\ ResetInv(n)'
  BY NextInv, FreshTypesStep DEF FreshInv, Inv, Types, FreshTypes
<1>0a. /\ ~workload.callsFail /\ workload.serial
       /\ "all" \notin workload.kinds /\ "bulk" \notin workload.kinds
       /\ "email" \notin workload.kinds
  BY DEF PromptResets
<1>1. ASSUME NEW m \in Nodes, (\E d \in Dirs : Carry(m, d)) \/ NodeDepletes(m) PROVE Good
  <2>1. UNCHANGED <<dirty, job, owed, delivery, now, zeroed, resetAt, queuedAt>>
    BY <1>1 DEF Carry, NodeDepletes, flags, calls, history, bytes
  <2> QED BY <1>0, <2>1, FreshUnmoved
<1>2. ASSUME NEW m \in Nodes, ResetClientTraffic(m) PROVE Good
  <2>1. /\ resetAt' = clock' /\ queuedAt' = clock' /\ owed' = [n \in Nodes |-> clock']
        /\ now' = [now EXCEPT ![m] = @ + 1] /\ UNCHANGED <<delivery, job>>
        /\ MarkNodesDirty({m}, clock') /\ Returned
    BY <1>2 DEF ResetClientTraffic, ZeroClient, QueueNodeResets
  <2>2. dirty'[m]
    BY <2>1 DEF MarkNodesDirty
  <2>3. ASSUME NEW n \in Nodes, n # m PROVE owed'[n] # None /\ ~CallPending(n)'
    <3>1. ~CallPending(n)
      BY <1>0a, <2>1 DEF Returned
    <3>2. now'[n] = now[n] /\ delivery'[n] = delivery[n]
      BY <1>0, <2>1, <2>3 DEF FreshTypes
    <3>3. owed'[n] # None
      BY <1>0, <2>1, NodeTrafficAssumption
    <3> QED BY <3>1, <3>2, <3>3 DEF CallPending
  <2>4. ASSUME NEW n \in Nodes PROVE Fresh(n)'
    BY <2>2, <2>3 DEF Fresh
  <2> QED BY <2>1, <2>4
<1>3. ASSUME \/ \E q \in Quotas : UpdateClient(q)
             \/ BulkSetEnable \/ DisableInvalidClients
      PROVE  Good
  <2>1. UNCHANGED <<resetAt, queuedAt>> /\ \E t : MarkNodesDirty(Nodes, t)
    BY <1>3 DEF UpdateClient, BulkSetEnable, DisableInvalidClients, history, bytes
  <2>2. \A n \in Nodes : dirty'[n]
    BY <2>1 DEF MarkNodesDirty
  <2> QED BY <1>0, <2>1, <2>2 DEF Fresh
<1>4. ASSUME ResetAllTraffics \/ BulkResetTraffic \/ ResetClientTrafficByEmail PROVE Good
  BY <1>0a, <1>4 DEF ResetAllTraffics, BulkResetTraffic, ResetClientTrafficByEmail, Op
<1>5. ASSUME NEW m \in Nodes, DeliverNow(m) PROVE Good
  <2>1. UNCHANGED <<dirty, owed, zeroed, resetAt, queuedAt, job>>
    BY <1>5 DEF DeliverNow, flags, history, bytes
  <2>2. /\ now[m] > 0 /\ delivery[m] = None /\ now' = [now EXCEPT ![m] = @ - 1]
        /\ \A n \in Nodes \ {m} : delivery'[n] = delivery[n]
        /\ delivery'[m] = delivery[m] \/ (delivery'[m] # None /\ delivery'[m].at = owed[m])
    BY <1>5, DeliveryMoves
  <2>3. ASSUME NEW n \in Nodes PROVE Fresh(n)'
    <3>1. CASE n # m
      <4>1. now'[n] = now[n] /\ delivery'[n] = delivery[n]
        BY <1>0, <2>2, <3>1 DEF FreshTypes
      <4> QED BY <1>0, <2>1, <4>1, FreshUnmoved
    <3>2. CASE n = m
      <4>1. CallPending(n) /\ Fresh(n) /\ job'[n].pc # "delivering"
        BY <1>0, <2>1, <2>2, <3>2 DEF CallPending, FreshTypes
      <4> QED BY <2>1, <4>1 DEF Fresh
    <3> QED BY <3>1, <3>2
  <2> QED BY <1>0, <2>1, <2>3
<1>6. ASSUME NEW m \in Nodes, JobDeliver(m) PROVE Good
  <2>1. UNCHANGED <<dirty, owed, zeroed, resetAt, queuedAt>>
    BY <1>6 DEF JobDeliver, flags, history, bytes
  <2>2. /\ now' = now
        /\ \A n \in Nodes \ {m} : delivery'[n] = delivery[n] /\ job'[n] = job[n]
        /\ \/ owed[m] = None /\ job'[m].pc = "fetch"
           \/ job'[m].pc = "delivering" /\ delivery'[m].at = owed[m]
    BY <1>6, DeliveryMoves
  <2>3. ASSUME NEW n \in Nodes PROVE Fresh(n)'
    <3>1. CASE n # m
      BY <1>0, <2>1, <2>2, <3>1, FreshUnmoved
    <3>2. CASE n = m
      <4>1. CASE owed[m] = None /\ job'[m].pc = "fetch"
        <5>1. ~(zeroed[n] < queuedAt) /\ zeroed[n] \in Nat
          BY <1>0, <3>2, <4>1 DEF ResetInv
        <5>2. zeroed'[n] >= resetAt'
          BY <1>0, <2>1, <5>1
        <5> QED BY <3>2, <4>1, <5>2 DEF Fresh
      <4>2. CASE job'[m].pc = "delivering" /\ delivery'[m].at = owed[m]
        BY <2>1, <3>2, <4>2 DEF Fresh
      <4> QED BY <2>2, <4>1, <4>2
    <3> QED BY <3>1, <3>2
  <2> QED BY <1>0, <2>1, <2>3
<1>7. ASSUME NEW m \in Nodes, NodeApplies(m) PROVE Good
  <2>1. UNCHANGED <<dirty, owed, resetAt, queuedAt>> /\ zeroed' = [zeroed EXCEPT ![m] = clock]
    BY <1>7 DEF NodeApplies, flags
  <2>2. /\ now' = now /\ job' = job /\ delivery[m] # None /\ delivery'[m] # None
        /\ delivery'[m].by = delivery[m].by /\ delivery'[m].at = delivery[m].at
        /\ \A n \in Nodes \ {m} : delivery'[n] = delivery[n]
    BY <1>7, DeliveryMoves
  <2>3. ASSUME NEW n \in Nodes PROVE Fresh(n)'
    <3>1. CASE n # m
      <4>1. zeroed'[n] = zeroed[n]
        BY <1>0, <2>1, <3>1
      <4> QED BY <1>0, <2>1, <2>2, <3>1, <4>1, FreshUnmoved
    <3>2. CASE n = m
      <4>1. zeroed'[n] = clock
        BY <1>0, <2>1, <3>2
      <4>2. clock >= resetAt'
        BY <1>0, <2>1, <3>2 DEF ResetInv
      <4>3. CallPending(n)' <=> CallPending(n)
        BY <2>2, <3>2 DEF CallPending
      <4>4. Fresh(n)
        BY <1>0
      <4> QED BY <2>1, <2>2, <3>2, <4>1, <4>2, <4>3, <4>4 DEF Fresh
    <3> QED BY <3>1, <3>2
  <2> QED BY <1>0, <2>1, <2>3
<1>8. ASSUME NEW m \in Nodes, Delivered(m) PROVE Good
  <2>1. /\ UNCHANGED <<dirty, zeroed, resetAt, queuedAt>>
        /\ owed' = IF owed[m] = delivery[m].at THEN [owed EXCEPT ![m] = None] ELSE owed
    BY <1>8 DEF Delivered, flags, history, bytes
  <2>2. /\ now' = now /\ delivery[m] # None /\ delivery'[m] = None
        /\ \A n \in Nodes \ {m} : delivery'[n] = delivery[n] /\ job'[n] = job[n]
        /\ IF delivery[m].by = "job" THEN job'[m].pc = "fetch" ELSE job'[m] = job[m]
    BY <1>8, DeliveryMoves
  <2>3. ASSUME NEW n \in Nodes PROVE Fresh(n)'
    <3>1. CASE n # m
      <4>1. owed'[n] = owed[n]
        BY <1>0, <2>1, <3>1 DEF Types
      <4> QED BY <1>0, <2>1, <2>2, <3>1, <4>1, FreshUnmoved
    <3>2. CASE n = m /\ delivery[m].by = "job"
      <4>1. job[m].pc = "delivering" /\ job'[m].pc = "fetch" /\ job'[m].pushed = job[m].pushed
        <5>1. job[m].pc = "delivering" /\ job \in [Nodes -> {Idle} \cup Pass \cup Merge]
          BY <1>0, <2>2, <3>2 DEF Types
        <5>2. job[m] \in Pass
          BY <5>1, Shapes
        <5>3. job' = [job EXCEPT ![m] = [job[m] EXCEPT !.pc = "fetch"]]
          BY <1>8, <3>2 DEF Delivered, EndDelivery
        <5>4. [job[m] EXCEPT !.pc = "fetch"].pushed = job[m].pushed
          BY <5>2 DEF Pass
        <5> QED BY <2>2, <3>2, <5>1, <5>3, <5>4
      <4>2. owed'[m] = None => zeroed'[m] >= resetAt'
        <5>1. owed'[m] = None => ~(zeroed'[m] < queuedAt')
          BY <1>0 DEF ResetInv
        <5> QED BY <1>0, <2>1, <5>1
      <4>3. CASE ~dirty[m] /\ ~job[m].pushed
        <5>1. CallPending(m)' => now[m] > 0
          BY <2>2 DEF CallPending
        <5>2. now[m] > 0 => owed[m] = delivery[m].at
          BY <1>0, <3>2, <4>1, <4>3 DEF Fresh, CallPending
        <5>3. now[m] > 0 => owed'[m] = None
          BY <1>0, <2>1, <5>2 DEF Types
        <5> QED BY <3>2, <4>1, <4>2, <5>1, <5>3 DEF Fresh
      <4>4. CASE ~(~dirty[m] /\ ~job[m].pushed)
        BY <2>1, <3>2, <4>1, <4>4 DEF Fresh
      <4> QED BY <4>3, <4>4
    <3>3. CASE n = m /\ delivery[m].by # "job"
      <4>1. job'[m] = job[m] /\ job[m].pc # "delivering"
        BY <1>0, <2>2, <3>3 DEF FreshTypes
      <4>2. CallPending(m)
        <5>1. delivery[m].by = "call"
          BY <1>0, <2>2, <3>3 DEF Types, Call
        <5> QED BY <2>2, <5>1 DEF CallPending
      <4>3. Fresh(m)
        BY <1>0
      <4> QED BY <2>1, <3>3, <4>1, <4>2, <4>3 DEF Fresh
    <3> QED BY <3>1, <3>2, <3>3
  <2> QED BY <1>0, <2>1, <2>3
<1>9. ASSUME NEW m \in Nodes,
             DeliveryFails(m) \/ ReconcileFails(m) \/ FetchFails(m) \/ MergeFails(m)
      PROVE  Good
  BY <1>0a, <1>9 DEF DeliveryFails, ReconcileFails, FetchFails, MergeFails
<1>10. ASSUME NEW m \in Nodes, Reconcile(m) PROVE Good
  <2>1. /\ UNCHANGED <<owed, zeroed, resetAt, queuedAt, delivery, now>>
        /\ dirty' = [dirty EXCEPT ![m] = dirty[m] /\ dirtyAt[m] # job[m].at]
        /\ job' = [job EXCEPT ![m] = [job[m] EXCEPT !.pc = "resets", !.pushed = TRUE]]
        /\ job[m].pc = "reconcile"
    BY <1>10 DEF Reconcile, history, bytes, calls
  <2>2. [job[m] EXCEPT !.pc = "resets", !.pushed = TRUE].pc = "resets"
    <3>1. job[m] \in Pass
      BY <1>0, <2>1, Shapes DEF Types
    <3> QED BY <3>1 DEF Pass
  <2>3. job'[m].pc = "resets"
    BY <1>0, <2>1, <2>2 DEF Types
  <2>4. \A n \in Nodes : n # m => dirty'[n] = dirty[n] /\ job'[n] = job[n]
    BY <1>0, <2>1 DEF Types
  <2>5. ASSUME NEW n \in Nodes PROVE Fresh(n)'
    <3>1. CASE n # m
      BY <1>0, <2>1, <2>4, <3>1, FreshUnmoved
    <3>2. CASE n = m
      BY <2>3, <3>2 DEF Fresh
    <3> QED BY <3>1, <3>2
  <2> QED BY <1>0, <2>1, <2>5
<1>11. ASSUME NEW m \in Nodes, FetchTrafficSnapshot(m) PROVE Good
  <2>1. /\ UNCHANGED <<dirty, owed, zeroed, resetAt, queuedAt, delivery, now>>
        /\ job[m].pc = "fetch"
        /\ job' = [job EXCEPT ![m] = [pc |-> "merge", pushed |-> job[m].pushed,
                                      snap |-> remote[m], zeroed |-> zeroed[m]]]
    BY <1>11 DEF FetchTrafficSnapshot, flags, history, bytes, calls
  <2>2. /\ job'[m].pc = "merge" /\ job'[m].pushed = job[m].pushed /\ job'[m].zeroed = zeroed[m]
        /\ \A n \in Nodes : n # m => job'[n] = job[n]
    BY <1>0, <2>1 DEF Types
  <2>3. ASSUME NEW n \in Nodes PROVE Fresh(n)'
    <3>1. CASE n # m
      BY <1>0, <2>1, <2>2, <3>1, FreshUnmoved
    <3>2. CASE n = m
      <4>1. Fresh(m) /\ (CallPending(m)' <=> CallPending(m))
        BY <1>0, <2>1 DEF CallPending
      <4> QED BY <2>1, <2>2, <3>2, <4>1 DEF Fresh
    <3> QED BY <3>1, <3>2
  <2> QED BY <1>0, <2>1, <2>3
<1>12. ASSUME NEW m \in Nodes, SetRemoteTraffic(m) PROVE Good
  <2>1. /\ UNCHANGED <<owed, zeroed, resetAt, queuedAt, delivery, now>>
        /\ job' = [job EXCEPT ![m] = Idle]
        /\ MarkNodesDirty({m}, clock) \/ dirty' = dirty
    BY <1>12 DEF SetRemoteTraffic, flags, calls
  <2>2. \A n \in Nodes : dirty[n] => dirty'[n]
    BY <2>1 DEF MarkNodesDirty
  <2>3. job'[m].pc = "idle" /\ \A n \in Nodes : n # m => job'[n] = job[n]
    BY <1>0, <2>1, Shapes DEF Types
  <2>4. ASSUME NEW n \in Nodes PROVE Fresh(n)'
    <3>1. CASE n # m
      BY <1>0, <2>1, <2>2, <2>3, <3>1, FreshUnmoved
    <3>2. CASE n = m
      BY <2>3, <3>2 DEF Fresh
    <3> QED BY <3>1, <3>2
  <2> QED BY <1>0, <2>1, <2>4
<1>13. ASSUME JobRun PROVE Good
  <2>1. UNCHANGED <<resetAt, queuedAt>> /\ \A n \in Nodes : job'[n].pc \in {"reconcile", "resets"}
    BY <1>13 DEF JobRun, history, bytes
  <2> QED BY <1>0, <2>1 DEF Fresh
<1>14. CASE UNCHANGED vars
  <2>1. UNCHANGED <<dirty, job, owed, delivery, now, zeroed, resetAt, queuedAt>>
    BY <1>14 DEF vars
  <2> QED BY <1>0, <2>1, FreshUnmoved
<1> QED BY <1>1, <1>2, <1>3, <1>4, <1>5, <1>6, <1>7, <1>8, <1>9, <1>10, <1>11, <1>12,
           <1>13, <1>14
        DEF Next, NodeStep

\* Under PromptResets every merge that is not frozen has seen the last reset.
THEOREM FreshInvariant == Spec => []FreshInv
<1>1. Init => FreshInv
  <2> SUFFICES ASSUME Init PROVE FreshInv
    OBVIOUS
  <2>1. \A n \in Nodes : job[n] = Idle /\ job[n].pc = "idle"
    BY Shapes DEF Init
  <2>2. FreshTypes
    BY <2>1 DEF Init, FreshTypes
  <2> QED BY <2>1, <2>2 DEF Init, FreshInv, Fresh
<1>2. Inv /\ FreshInv /\ [Next]_vars => FreshInv'
  <2> SUFFICES ASSUME Inv, FreshInv, [Next]_vars PROVE FreshInv'
    OBVIOUS
  <2>1. FreshTypes'
    BY FreshTypesStep DEF FreshInv
  <2>2. PromptResets' => PromptResets
    BY WorkloadFixed DEF PromptResets
  <2> QED BY <2>1, <2>2, FreshStep DEF FreshInv
<1> QED BY <1>1, <1>2, TrafficInvariant, PTL DEF Spec

\* A merge cuts the client off only on a verdict from after the last reset and on
\* the master's own quota, or because the usage exhausts it, for any number of
\* nodes whose resets and deliveries interleave with each other's passes
\* (inbound_node.go:937), when resets come one at a time and calls succeed.
THEOREM VerdictsAreCurrent == Spec => NoStaleDisable
<1> DEFINE Current(n) ==
      PromptResets /\ job[n].pc = "merge" /\ job'[n] = Idle /\ enable /\ ~enable'
        => \/ job[n].zeroed >= resetAt /\ job[n].snap.total = total
           \/ used' >= total
<1>1. ASSUME Inv, FreshInv, Next, NEW n \in Nodes, PromptResets, job[n].pc = "merge",
             job'[n] = Idle, enable, ~enable'
      PROVE  \/ job[n].zeroed >= resetAt /\ job[n].snap.total = total
             \/ used' >= total
  <2>1. job'[n] # job[n]
    BY <1>1, Shapes
  <2>2. DisableInvalidClients \/ \E m \in Nodes : SetRemoteTraffic(m)
    <3>1. ASSUME NEW m \in Nodes, NodeStep(m), ~SetRemoteTraffic(m) PROVE enable'
      BY <1>1, <3>1 DEF NodeStep, master, ZeroClient, Carry, NodeDepletes, ResetClientTraffic,
          DeliverNow, JobDeliver, NodeApplies, Delivered, DeliveryFails, Reconcile,
          ReconcileFails, FetchTrafficSnapshot, FetchFails, MergeFails
    <3>2. ASSUME NEW q \in Quotas, UpdateClient(q) PROVE enable'
      BY <3>2 DEF UpdateClient
    <3>3. ASSUME \/ ResetAllTraffics \/ BulkResetTraffic \/ BulkSetEnable
                 \/ ResetClientTrafficByEmail \/ JobRun
          PROVE  enable'
      BY <1>1, <3>3 DEF ResetAllTraffics, BulkResetTraffic, BulkSetEnable,
          ResetClientTrafficByEmail, JobRun, ZeroClient, master
    <3> QED BY <1>1, <3>1, <3>2, <3>3 DEF Next
  <2>3. ~DisableInvalidClients
    BY <2>1 DEF DisableInvalidClients
  <2>4. SetRemoteTraffic(n)
    <3>1. PICK m \in Nodes : SetRemoteTraffic(m)
      BY <2>2, <2>3
    <3>2. CASE m # n
      <4>1. job'[n] = job[n]
        BY <1>1, <3>1, <3>2 DEF SetRemoteTraffic, Inv, Types
      <4> QED BY <2>1, <4>1
    <3> QED BY <3>1, <3>2
  <2>5. enable' = MergedEnable(n) /\ used' = used + Added(n)
    BY <2>4 DEF SetRemoteTraffic
  <2>6. ~Frozen(n)
    BY <1>1, <2>5 DEF MergedEnable
  <2>7. job[n].zeroed >= resetAt
    BY <1>1, <2>6 DEF Frozen, FreshInv, Fresh
  <2>8. ~DisableIsStale(n)
    BY <1>1, <2>5, <2>6 DEF MergedEnable
  <2>9. used + Added(n) \in Nat /\ total \in Nat
    BY <1>1, DeltaNat, NodeTrafficAssumption DEF FreshInv, FreshTypes, Inv, Types
  <2> QED BY <2>5, <2>7, <2>8, <2>9 DEF DisableIsStale
<1>2. Inv /\ FreshInv /\ [Next]_vars => [\A n \in Nodes : Current(n)]_vars
  <2> SUFFICES ASSUME Inv, FreshInv, Next PROVE \A n \in Nodes : Current(n)
    OBVIOUS
  <2> QED BY <1>1
<1> QED BY <1>2, TrafficInvariant, FreshInvariant, PTL DEF Spec, NoStaleDisable
=============================================================================
