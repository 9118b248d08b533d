------------------------- MODULE GroupQuotaProofs --------------------------
(***************************************************************************)
(* Proofs about GroupQuota, for any clients, groups, quotas and workloads. *)
(***************************************************************************)
EXTENDS GroupQuota, SumTheorems, TLAPS

DB == [used : [Clients -> Nat \cup {None}], enable : [Clients -> BOOLEAN],
       expired : [Clients -> BOOLEAN], group : [Clients -> Groups \cup {None}],
       base : [Groups -> [Clients -> Nat \cup {None}]],
       owned : [Groups -> [Clients -> BOOLEAN]],
       quota : [Groups -> Nat \cup {None}], carry : [Groups -> Nat]]

----------------------------------------------------------------------------
(***************************************************************************)
(* What the operations of the quota package do to the database.            *)
(***************************************************************************)

\* A share is a number.
LEMMA ShareNat ==
  ASSUME NEW d \in DB, NEW g \in Groups, NEW c \in Clients
  PROVE  Share(d, g, c) \in Nat
<1>1. d.used[c] \in Nat \cup {None} /\ d.base[g][c] \in Nat \cup {None}
  BY DEF DB
<1> QED BY <1>1 DEF Share, Members, Live

\* Two databases with the same counters, memberships and quotas.
SameCounts(d, e) ==
    /\ e.used = d.used
    /\ e.base = d.base /\ e.quota = d.quota /\ e.carry = d.carry

SameCharges(d, e) == SameCounts(d, e) /\ e.expired = d.expired

\* Charges, members and depletion depend on those alone.
LEMMA SameViews ==
  ASSUME NEW d \in DB, NEW e \in DB, SameCounts(d, e)
  PROVE  /\ Live(e) = Live(d)
         /\ \A g \in Groups : /\ Members(e, g) = Members(d, g)
                              /\ Used(e, g) = Used(d, g)
                              /\ Depleted(e, g) <=> Depleted(d, g)
<1>1. Live(e) = Live(d) /\ \A g \in Groups : Members(e, g) = Members(d, g)
  BY DEF SameCounts, Live, Members
<1>2. \A g \in Groups, c \in Clients : Share(e, g, c) = Share(d, g, c)
  BY <1>1 DEF SameCounts, Share
<1>3. \A g \in Groups : [c \in Clients |-> Share(e, g, c)] = [c \in Clients |-> Share(d, g, c)]
  BY <1>2
<1>4. \A g \in Groups : Used(e, g) = Used(d, g)
  BY <1>3 DEF Used, SameCounts
<1> QED BY <1>1, <1>4 DEF Depleted, SameCounts

\* The clients in C switched off, and on.
Off(d, C) == Switch(d, C, FALSE)
On(d, C) == Switch(d, C, TRUE)

LEMMA SwitchOff ==
  ASSUME NEW d \in DB, NEW C
  PROVE  /\ Off(d, C) \in DB
         /\ SameCharges(d, Off(d, C))
         /\ Off(d, C).owned = d.owned
         /\ \A c \in Clients : Off(d, C).enable[c] = (d.enable[c] /\ c \notin C)
BY DEF Off, Switch, DB, SameCharges, SameCounts

LEMMA SwitchOn ==
  ASSUME NEW d \in DB, NEW C
  PROVE  /\ On(d, C) \in DB
         /\ SameCharges(d, On(d, C))
         /\ On(d, C).owned = d.owned
         /\ \A c \in Clients : On(d, C).enable[c] = (d.enable[c] \/ c \in C)
BY DEF On, Switch, DB, SameCharges, SameCounts

LEMMA ClearFields ==
  ASSUME NEW d \in DB, NEW C
  PROVE  /\ ClearOwnership(d, C) \in DB
         /\ SameCharges(d, ClearOwnership(d, C))
         /\ ClearOwnership(d, C).enable = d.enable
         /\ \A g \in Groups, c \in Clients :
              ClearOwnership(d, C).owned[g][c] = (d.owned[g][c] /\ c \notin C)
BY DEF ClearOwnership, DB, SameCharges, SameCounts

LEMMA MarkFields ==
  ASSUME NEW d \in DB
  PROVE  /\ MarkOwned(d) \in DB
         /\ SameCharges(d, MarkOwned(d))
         /\ MarkOwned(d).enable = d.enable
         /\ \A g \in Groups, c \in Clients :
              MarkOwned(d).owned[g][c] =
                (d.owned[g][c] \/ (Depleted(d, g) /\ c \in Members(d, g) \cap DepletedEmails(d)))
BY DEF MarkOwned, DB, SameCharges, SameCounts

\* Enforce switches off who has a reason of its own and the members of depleted
\* groups, and marks the latter.
LEMMA EnforceFields ==
  ASSUME NEW d \in DB
  PROVE  /\ Enforce(d) \in DB
         /\ SameCharges(d, Enforce(d))
         /\ \A c \in Clients : Enforce(d).enable[c] =
              (d.enable[c] /\ c \notin DepletedEmails(d) \cup Expired(d))
         /\ \A g \in Groups, c \in Clients : Enforce(d).owned[g][c] =
              ( /\ c \notin Expired(d)
                /\ \/ d.owned[g][c]
                   \/ Depleted(d, g) /\ c \in Members(d, g) \cap DepletedEmails(d))
<1> DEFINE m == MarkOwned(d)
           o == ClearOwnership(m, Expired(m))
           E == DepletedEmails(d) \cup Expired(m)
<1>1. m \in DB /\ SameCharges(d, m) /\ m.enable = d.enable
  BY MarkFields
<1>2. Expired(m) = Expired(d)
  <2>1. Live(m) = Live(d)
    BY <1>1, SameViews DEF SameCharges
  <2> QED BY <1>1, <2>1 DEF Expired, SameCharges, SameCounts
<1>3. \A g \in Groups, c \in Clients : m.owned[g][c] =
        (d.owned[g][c] \/ (Depleted(d, g) /\ c \in Members(d, g) \cap DepletedEmails(d)))
  BY MarkFields
<1> HIDE DEF m
<1>4. /\ o \in DB /\ SameCharges(m, o) /\ o.enable = m.enable
      /\ \A g \in Groups, c \in Clients : o.owned[g][c] = (m.owned[g][c] /\ c \notin Expired(m))
  BY <1>1, ClearFields
<1> HIDE DEF o
<1>5. /\ Off(o, E) \in DB /\ SameCharges(o, Off(o, E))
      /\ Off(o, E).owned = o.owned
      /\ \A c \in Clients : Off(o, E).enable[c] = (o.enable[c] /\ c \notin E)
  BY <1>4, SwitchOff
<1>6. Enforce(d) = Off(o, E)
  BY DEF Enforce, DisableInvalidClients, Off, m, o
<1>7. \A c \in Clients : o.enable[c] = d.enable[c] /\ d.enable[c] \in BOOLEAN
  BY <1>1, <1>4 DEF DB
<1>8. \A c \in Clients : Enforce(d).enable[c] = (d.enable[c] /\ c \notin DepletedEmails(d) \cup Expired(d))
  BY <1>2, <1>5, <1>6, <1>7
<1>9. \A g \in Groups, c \in Clients : Enforce(d).owned[g][c] =
              ( /\ c \notin Expired(d)
                /\ \/ d.owned[g][c]
                   \/ Depleted(d, g) /\ c \in Members(d, g) \cap DepletedEmails(d))
  <2>1. Enforce(d).owned = o.owned
    BY <1>5, <1>6
  <2> TAKE g \in Groups, c \in Clients
  <2>2. o.owned[g][c] = (m.owned[g][c] /\ c \notin Expired(d))
    BY <1>2, <1>4
  <2> QED BY <1>3, <2>1, <2>2
<1>10. SameCharges(d, Enforce(d))
  BY <1>1, <1>4, <1>5, <1>6 DEF SameCharges, SameCounts
<1> QED BY <1>5, <1>6, <1>8, <1>9, <1>10

LEMMA RecoverFields ==
  ASSUME NEW d \in DB, NEW g \in Groups
  PROVE  /\ RecoverGroup(d, g) \in DB
         /\ SameCharges(d, RecoverGroup(d, g))
         /\ \A c \in Clients : RecoverGroup(d, g).enable[c] =
              (d.enable[c] \/ (~Depleted(d, g) /\ c \in Members(d, g) /\ d.owned[g][c]))
         /\ \A h \in Groups, c \in Clients : RecoverGroup(d, g).owned[h][c] =
              (d.owned[h][c] /\ ~(h = g /\ ~Depleted(d, g)))
<1> DEFINE o == [d EXCEPT !.owned[g] = [c \in Clients |-> FALSE]]
           C == {c \in Members(d, g) : d.owned[g][c]}
<1>1. /\ o \in DB /\ SameCharges(d, o) /\ o.enable = d.enable
      /\ \A h \in Groups, c \in Clients : o.owned[h][c] = (d.owned[h][c] /\ h # g)
  BY DEF DB, SameCharges, SameCounts
<1>c. \A c \in Clients : c \in C <=> c \in Members(d, g) /\ d.owned[g][c]
  BY DEF Members
<1> HIDE DEF o, C
<1>2. /\ On(o, C) \in DB /\ SameCharges(o, On(o, C))
      /\ On(o, C).owned = o.owned
      /\ \A c \in Clients : On(o, C).enable[c] = (o.enable[c] \/ c \in C)
  BY <1>1, SwitchOn
<1>3. RecoverGroup(d, g) = IF Depleted(d, g) THEN d ELSE On(o, C)
  BY DEF RecoverGroup, On, o, C
<1>4. \A c \in Clients : d.enable[c] \in BOOLEAN /\ \A h \in Groups : d.owned[h][c] \in BOOLEAN
  BY DEF DB
<1>5. CASE Depleted(d, g)
  BY <1>3, <1>4, <1>5 DEF SameCharges, SameCounts
<1>6. CASE ~Depleted(d, g)
  <2>1. SameCharges(d, On(o, C))
    BY <1>1, <1>2 DEF SameCharges, SameCounts
  <2>2. \A c \in Clients : On(o, C).enable[c] =
          (d.enable[c] \/ (c \in Members(d, g) /\ d.owned[g][c]))
    BY <1>1, <1>2, <1>4, <1>c
  <2>3. \A h \in Groups, c \in Clients : On(o, C).owned[h][c] = (d.owned[h][c] /\ h # g)
    BY <1>1, <1>2
  <2> QED BY <1>2, <1>3, <1>6, <2>1, <2>2, <2>3
<1> QED BY <1>5, <1>6

\* A group with a quota row that is not depleted.
Free(d, g) == d.quota[g] # None /\ ~Depleted(d, g)

LEMMA ReconcileFields ==
  ASSUME NEW d \in DB
  PROVE  /\ ReconcileEnabled(d) \in DB
         /\ SameCharges(d, ReconcileEnabled(d))
         /\ \A c \in Clients : ReconcileEnabled(d).enable[c] =
              ( \/ d.enable[c] /\ c \notin DepletedEmails(d)
                \/ \E g \in Groups : Free(d, g) /\ c \in Members(d, g) /\ d.owned[g][c])
         /\ \A g \in Groups, c \in Clients : ReconcileEnabled(d).owned[g][c] =
              ( /\ ~Free(d, g)
                /\ \/ d.owned[g][c]
                   \/ Depleted(d, g) /\ c \in Members(d, g) \cap DepletedEmails(d))
<1> DEFINE free == {g \in Groups : d.quota[g] # None /\ ~Depleted(d, g)}
           m == MarkOwned(d)
           off == Off(m, DepletedEmails(d))
           o == [off EXCEPT !.owned = [g \in Groups |-> [c \in Clients |->
                                          off.owned[g][c] /\ g \notin free]]]
           C == {c \in Clients : \E g \in free : c \in Members(d, g) /\ off.owned[g][c]}
<1>0. \A g \in Groups : g \in free <=> Free(d, g)
  BY DEF Free
<1>1. /\ m \in DB /\ SameCharges(d, m) /\ m.enable = d.enable
      /\ \A g \in Groups, c \in Clients : m.owned[g][c] =
           (d.owned[g][c] \/ (Depleted(d, g) /\ c \in Members(d, g) \cap DepletedEmails(d)))
  BY MarkFields
<1> HIDE DEF m
<1>2. /\ off \in DB /\ SameCharges(m, off) /\ off.owned = m.owned
      /\ \A c \in Clients : off.enable[c] = (m.enable[c] /\ c \notin DepletedEmails(d))
  BY <1>1, SwitchOff
<1> HIDE DEF off, free
<1>3. /\ o \in DB /\ SameCharges(off, o) /\ o.enable = off.enable
      /\ \A g \in Groups, c \in Clients : o.owned[g][c] = (off.owned[g][c] /\ g \notin free)
  BY <1>2 DEF DB, SameCharges, SameCounts
<1>4. ReconcileEnabled(d) = On(o, C)
  BY DEF ReconcileEnabled, On, Off, o, C, off, m, free
<1>5. \A c \in Clients : c \in C <=> \E g \in free : c \in Members(d, g) /\ off.owned[g][c]
  OBVIOUS
<1> HIDE DEF o, C
<1>6. /\ On(o, C) \in DB /\ SameCharges(o, On(o, C)) /\ On(o, C).owned = o.owned
      /\ \A c \in Clients : On(o, C).enable[c] = (o.enable[c] \/ c \in C)
  BY <1>3, SwitchOn
<1>7. SameCharges(d, On(o, C))
  BY <1>1, <1>2, <1>3, <1>6 DEF SameCharges, SameCounts
<1>8. \A g \in Groups, c \in Clients : On(o, C).owned[g][c] =
        (~Free(d, g) /\ (d.owned[g][c] \/ (Depleted(d, g) /\ c \in Members(d, g) \cap DepletedEmails(d))))
  <2> TAKE g \in Groups, c \in Clients
  <2>1. On(o, C).owned[g][c] = (m.owned[g][c] /\ g \notin free)
    BY <1>2, <1>3, <1>6
  <2> QED BY <1>0, <1>1, <2>1
<1>9. ASSUME NEW c \in Clients PROVE On(o, C).enable[c] =
              (\/ d.enable[c] /\ c \notin DepletedEmails(d)
               \/ \E g \in Groups : Free(d, g) /\ c \in Members(d, g) /\ d.owned[g][c])
  <2>1. c \in C <=> \E g \in Groups : Free(d, g) /\ c \in Members(d, g) /\ d.owned[g][c]
    <3>1. free \subseteq Groups
      BY DEF free
    <3>2. \A g \in free : off.owned[g][c] = d.owned[g][c]
      <4> TAKE g \in free
      <4>1. g \in Groups /\ ~Depleted(d, g) /\ off.owned[g][c] = m.owned[g][c]
        BY <1>0, <1>2, <3>1 DEF Free
      <4>2. m.owned[g][c] = (d.owned[g][c] \/ (Depleted(d, g) /\ c \in Members(d, g) \cap DepletedEmails(d)))
        BY <1>1, <4>1
      <4>3. d.owned[g][c] \in BOOLEAN
        BY <4>1 DEF DB
      <4> QED BY <4>1, <4>2, <4>3
    <3> QED BY <1>0, <1>5, <3>1, <3>2
  <2>2. On(o, C).enable[c] = (off.enable[c] \/ c \in C)
    BY <1>3, <1>6
  <2>3. off.enable[c] = (d.enable[c] /\ c \notin DepletedEmails(d))
    BY <1>1, <1>2
  <2> QED BY <2>1, <2>2, <2>3
<1>10. \A c \in Clients : ReconcileEnabled(d).enable[c] =
              ( \/ d.enable[c] /\ c \notin DepletedEmails(d)
                \/ \E g \in Groups : Free(d, g) /\ c \in Members(d, g) /\ d.owned[g][c])
  BY <1>4, <1>9, Zenon
<1>11. \A g \in Groups, c \in Clients : ReconcileEnabled(d).owned[g][c] =
              ( /\ ~Free(d, g)
                /\ \/ d.owned[g][c]
                   \/ Depleted(d, g) /\ c \in Members(d, g) \cap DepletedEmails(d))
  BY <1>4, <1>8, Zenon
<1>12. ReconcileEnabled(d) \in DB /\ SameCharges(d, ReconcileEnabled(d))
  BY <1>4, <1>6, <1>7
<1> QED BY <1>10, <1>11, <1>12, Zenon

\* The mark of one membership row removed.
Unmark(f, g, c) == [f EXCEPT ![g][c] = FALSE]

LEMMA UnmarkFields ==
  ASSUME NEW f \in [Groups -> [Clients -> BOOLEAN]], NEW g \in Groups, NEW c \in Clients
  PROVE  /\ Unmark(f, g, c) \in [Groups -> [Clients -> BOOLEAN]]
         /\ \A h \in Groups, x \in Clients :
              Unmark(f, g, c)[h][x] = (f[h][x] /\ ~(h = g /\ x = c))
<1> DEFINE k == [f[g] EXCEPT ![c] = FALSE]
<1>1. k \in [Clients -> BOOLEAN]
  OBVIOUS
<1>2. \A x \in Clients : k[x] = (f[g][x] /\ x # c)
  OBVIOUS
<1>3. Unmark(f, g, c) = [f EXCEPT ![g] = k]
  BY DEF Unmark
<1> HIDE DEF k
<1>4. Unmark(f, g, c) \in [Groups -> [Clients -> BOOLEAN]]
  BY <1>1, <1>3
<1>5. ASSUME NEW h \in Groups, NEW x \in Clients
      PROVE  Unmark(f, g, c)[h][x] = (f[h][x] /\ ~(h = g /\ x = c))
  <2>1. CASE h = g
    BY <1>2, <1>3, <2>1
  <2>2. CASE h # g
    <3>1. Unmark(f, g, c)[h] = f[h] /\ f[h][x] \in BOOLEAN
      BY <1>3, <2>2
    <3> QED BY <2>2, <3>1
  <2> QED BY <2>1, <2>2
<1> QED BY <1>4, <1>5

\* The membership rows and the carries replaced.
Rows(d, nb, no, nc) == [d EXCEPT !.base = nb, !.owned = no, !.carry = nc]

HasRows(d, nb, no, nc, e) ==
    /\ e \in DB
    /\ e.used = d.used /\ e.enable = d.enable /\ e.expired = d.expired
    /\ e.group = d.group /\ e.quota = d.quota
    /\ e.base = nb /\ e.owned = no /\ e.carry = nc

LEMMA RowFields ==
  ASSUME NEW d \in DB, NEW nb \in [Groups -> [Clients -> Nat \cup {None}]],
         NEW no \in [Groups -> [Clients -> BOOLEAN]], NEW nc \in [Groups -> Nat]
  PROVE  HasRows(d, nb, no, nc, Rows(d, nb, no, nc))
BY DEF HasRows, Rows, DB

\* ensureMembership touches one row, and only one that is missing.
Ensured(d, g, c, b, e) ==
    /\ e \in DB
    /\ e.used = d.used /\ e.enable = d.enable /\ e.expired = d.expired
    /\ e.group = d.group /\ e.quota = d.quota /\ e.carry = d.carry
    /\ \A h \in Groups, x \in Clients : e.base[h][x] =
         IF h = g /\ x = c /\ d.base[h][x] = None THEN b ELSE d.base[h][x]
    /\ \A h \in Groups, x \in Clients : e.owned[h][x] =
         (d.owned[h][x] /\ ~(h = g /\ x = c /\ d.base[h][x] = None))

LEMMA EnsureFields ==
  ASSUME NEW d \in DB, NEW g \in Groups \cup {None}, NEW c \in Clients, NEW b \in Nat
  PROVE  Ensured(d, g, c, b, EnsureMembership(d, g, c, b))
<1> DEFINE e == EnsureMembership(d, g, c, b)
<1>0. None \notin Groups /\ None \notin Nat
  BY GroupQuotaAssumption
<1>t. \A h \in Groups, x \in Clients : d.owned[h][x] \in BOOLEAN
  BY DEF DB
<1>1. CASE g = None \/ d.base[g][c] # None
  <2>1. e = d
    BY <1>1 DEF EnsureMembership
  <2> QED BY <1>0, <1>1, <1>t, <2>1 DEF Ensured
<1>2. CASE ~(g = None \/ d.base[g][c] # None)
  <2>1. e = [d EXCEPT !.base[g][c] = b, !.owned[g][c] = FALSE]
    BY <1>2 DEF EnsureMembership
  <2>2. g \in Groups
    BY <1>2
  <2> DEFINE nb == [d.base EXCEPT ![g][c] = b]
             no == Unmark(d.owned, g, c)
  <2>3. e = Rows(d, nb, no, d.carry)
    BY <2>1, <2>2 DEF Unmark, Rows, DB
  <2>4. /\ nb \in [Groups -> [Clients -> Nat \cup {None}]]
        /\ \A h \in Groups, x \in Clients : nb[h][x] = IF h = g /\ x = c THEN b ELSE d.base[h][x]
    BY <2>2 DEF DB
  <2>5. /\ no \in [Groups -> [Clients -> BOOLEAN]]
        /\ \A h \in Groups, x \in Clients : no[h][x] = (d.owned[h][x] /\ ~(h = g /\ x = c))
    <3>1. d.owned \in [Groups -> [Clients -> BOOLEAN]]
      BY DEF DB
    <3> QED BY <2>2, <3>1, UnmarkFields
  <2> HIDE DEF nb, no, e
  <2>6. /\ e \in DB
        /\ e.used = d.used /\ e.enable = d.enable /\ e.expired = d.expired
        /\ e.group = d.group /\ e.quota = d.quota
        /\ e.base = nb /\ e.owned = no /\ e.carry = d.carry
    <3>1. d.carry \in [Groups -> Nat]
      BY DEF DB
    <3>2. HasRows(d, nb, no, d.carry, e)
      BY <2>3, <2>4, <2>5, <3>1, RowFields
    <3> QED BY <3>2 DEF HasRows
  <2> QED BY <1>2, <2>4, <2>5, <2>6 DEF Ensured, e
<1> QED BY <1>1, <1>2

Ended(d, g, c, e) ==
    /\ e \in DB
    /\ e.used = d.used /\ e.enable = d.enable /\ e.expired = d.expired
    /\ e.group = d.group /\ e.quota = d.quota
    /\ \A h \in Groups : e.carry[h] =
         IF h = g /\ d.quota[h] # None THEN d.carry[h] + Share(d, h, c) ELSE d.carry[h]
    /\ \A h \in Groups, x \in Clients : e.base[h][x] =
         IF h = g /\ x = c THEN None ELSE d.base[h][x]
    /\ \A h \in Groups, x \in Clients : e.owned[h][x] =
         (d.owned[h][x] /\ ~(h = g /\ x = c))

LEMMA EndFields ==
  ASSUME NEW d \in DB, NEW g \in Groups, NEW c \in Clients
  PROVE  Ended(d, g, c, EndMembership(d, g, c))
<1> DEFINE e == EndMembership(d, g, c)
<1>1. PICK s \in Nat : s = Share(d, g, c)
  BY ShareNat
<1>2. e = [d EXCEPT !.carry[g] = IF d.quota[g] = None THEN @ ELSE @ + s,
                    !.base[g][c] = None, !.owned[g][c] = FALSE]
  BY <1>1 DEF EndMembership
<1> DEFINE nc == [d.carry EXCEPT ![g] = IF d.quota[g] = None THEN @ ELSE @ + s]
           nb == [d.base EXCEPT ![g][c] = None]
           no == Unmark(d.owned, g, c)
<1>3. e = Rows(d, nb, no, nc)
  BY <1>2 DEF Unmark, Rows, DB
<1>4. /\ nb \in [Groups -> [Clients -> Nat \cup {None}]]
      /\ \A h \in Groups, x \in Clients : nb[h][x] = IF h = g /\ x = c THEN None ELSE d.base[h][x]
  BY DEF DB
<1>5. /\ no \in [Groups -> [Clients -> BOOLEAN]]
      /\ \A h \in Groups, x \in Clients : no[h][x] = (d.owned[h][x] /\ ~(h = g /\ x = c))
  <2>1. d.owned \in [Groups -> [Clients -> BOOLEAN]]
    BY DEF DB
  <2> QED BY <2>1, UnmarkFields
<1>6. /\ nc \in [Groups -> Nat]
      /\ \A h \in Groups : nc[h] =
           IF h = g /\ d.quota[h] # None THEN d.carry[h] + s ELSE d.carry[h]
  BY DEF DB
<1> HIDE DEF nb, no, nc, e
<1>7. /\ e \in DB
      /\ e.used = d.used /\ e.enable = d.enable /\ e.expired = d.expired
      /\ e.group = d.group /\ e.quota = d.quota
      /\ e.base = nb /\ e.owned = no /\ e.carry = nc
  <2>1. HasRows(d, nb, no, nc, e)
    BY <1>3, <1>4, <1>5, <1>6, RowFields
  <2> QED BY <2>1 DEF HasRows
<1> QED BY <1>1, <1>4, <1>5, <1>6, <1>7 DEF Ended, e

\* The memberships of a client that changes its group.
Changed(d, c, old, new, e) ==
    /\ e \in DB
    /\ e.used = d.used /\ e.enable = d.enable /\ e.expired = d.expired
    /\ e.quota = d.quota /\ e.group = d.group
    /\ \A h \in Groups : e.carry[h] =
         IF h = old /\ d.quota[h] # None THEN d.carry[h] + Share(d, h, c) ELSE d.carry[h]
    /\ \A h \in Groups, x \in Clients \ {c} :
         e.base[h][x] = d.base[h][x] /\ e.owned[h][x] = d.owned[h][x]
    /\ \A h \in Groups : e.base[h][c] =
         IF h = old THEN None
         ELSE IF h = new /\ c \in Live(d) /\ d.base[h][c] = None THEN d.used[c]
         ELSE d.base[h][c]
    /\ \A h \in Groups : e.owned[h][c] =
         (d.owned[h][c] /\ h # old /\ ~(h = new /\ c \in Live(d) /\ d.base[h][c] = None))

LEMMA ChangeFields ==
  ASSUME NEW d \in DB, NEW c \in Clients, NEW old \in Groups \cup {None},
         NEW new \in Groups \cup {None}, new # old
  PROVE  Changed(d, c, old, new, ChangeMembership(d, c, old, new))
<1> DEFINE e == ChangeMembership(d, c, old, new)
           left == IF old = None THEN d ELSE EndMembership(d, old, c)
           m == EnsureMembership(left, new, c, d.used[c])
<1>0. None \notin Groups
  BY GroupQuotaAssumption
<1>t. \A h \in Groups, x \in Clients : d.owned[h][x] \in BOOLEAN
  BY DEF DB
<1>1. /\ left \in DB
      /\ left.used = d.used /\ left.enable = d.enable /\ left.expired = d.expired
      /\ left.group = d.group /\ left.quota = d.quota
      /\ \A h \in Groups : left.carry[h] =
              IF h = old /\ d.quota[h] # None THEN d.carry[h] + Share(d, h, c) ELSE d.carry[h]
      /\ \A h \in Groups, x \in Clients : left.base[h][x] =
              IF h = old /\ x = c THEN None ELSE d.base[h][x]
      /\ \A h \in Groups, x \in Clients : left.owned[h][x] =
              (d.owned[h][x] /\ ~(h = old /\ x = c))
  <2>1. CASE old = None
    BY <1>0, <1>t, <2>1
  <2>2. CASE old # None
    <3>1. left = EndMembership(d, old, c) /\ old \in Groups
      BY <2>2
    <3> HIDE DEF left
    <3>2. Ended(d, old, c, left)
      BY <3>1, EndFields
    <3> QED BY <3>2 DEF Ended
  <2> QED BY <2>1, <2>2
<1>l. \A h \in Groups, x \in Clients : left.owned[h][x] \in BOOLEAN
  BY <1>1 DEF DB
<1>e. e = IF c \in Live(d) THEN m ELSE left
  BY DEF ChangeMembership
<1> HIDE DEF left
<1>2. /\ e \in DB
      /\ e.used = left.used /\ e.enable = left.enable /\ e.expired = left.expired
      /\ e.group = left.group /\ e.quota = left.quota /\ e.carry = left.carry
      /\ \A h \in Groups, x \in Clients : e.base[h][x] =
              IF h = new /\ x = c /\ c \in Live(d) /\ left.base[h][x] = None THEN d.used[c]
              ELSE left.base[h][x]
      /\ \A h \in Groups, x \in Clients : e.owned[h][x] =
              (left.owned[h][x] /\ ~(h = new /\ x = c /\ c \in Live(d) /\ left.base[h][x] = None))
  <2>1. CASE c \in Live(d)
    <3>1. d.used[c] \in Nat
      BY <2>1 DEF Live, DB
    <3>2. Ensured(left, new, c, d.used[c], m)
      BY <1>1, <3>1, EnsureFields
    <3> HIDE DEF m, e
    <3> QED BY <1>e, <2>1, <3>2 DEF Ensured
  <2>2. CASE c \notin Live(d)
    <3> HIDE DEF m, e
    <3> QED BY <1>1, <1>e, <1>l, <2>2
  <2> QED BY <2>1, <2>2
<1> HIDE DEF m, e
<1>6. \A h \in Groups, x \in Clients \ {c} :
              e.base[h][x] = d.base[h][x] /\ e.owned[h][x] = d.owned[h][x]
  BY <1>1, <1>2, <1>t
<1>7. \A h \in Groups : e.base[h][c] =
              IF h = old THEN None
              ELSE IF h = new /\ c \in Live(d) /\ d.base[h][c] = None THEN d.used[c]
              ELSE d.base[h][c]
  <2> TAKE h \in Groups
  <2>1. e.base[h][c] = IF h = new /\ c \in Live(d) /\ left.base[h][c] = None THEN d.used[c]
                       ELSE left.base[h][c]
    BY <1>2
  <2>2. left.base[h][c] = IF h = old THEN None ELSE d.base[h][c]
    BY <1>1
  <2> QED BY <2>1, <2>2
<1>8. \A h \in Groups : e.owned[h][c] =
              (d.owned[h][c] /\ h # old /\ ~(h = new /\ c \in Live(d) /\ d.base[h][c] = None))
  <2> TAKE h \in Groups
  <2>1. e.owned[h][c] = (left.owned[h][c] /\ ~(h = new /\ c \in Live(d) /\ left.base[h][c] = None))
    BY <1>2
  <2>2. left.base[h][c] = IF h = old THEN None ELSE d.base[h][c]
    BY <1>1
  <2>3. left.owned[h][c] = (d.owned[h][c] /\ h # old)
    BY <1>1
  <2> QED BY <2>1, <2>2, <2>3
<1>9. \A h \in Groups : e.carry[h] =
              IF h = old /\ d.quota[h] # None THEN d.carry[h] + Share(d, h, c) ELSE d.carry[h]
  BY <1>1, <1>2
<1>10. /\ e.used = d.used /\ e.enable = d.enable /\ e.expired = d.expired
       /\ e.quota = d.quota /\ e.group = d.group
  BY <1>1, <1>2
<1> QED BY <1>2, <1>6, <1>7, <1>8, <1>9, <1>10 DEF Changed, e

LEMMA SetGroupFields ==
  ASSUME NEW d \in DB, NEW c \in Clients, NEW g \in Groups \cup {None}
  PROVE  /\ SetGroup(d, c, g) \in DB /\ SameCharges(d, SetGroup(d, c, g))
         /\ SetGroup(d, c, g).enable = d.enable /\ SetGroup(d, c, g).owned = d.owned
<1> DEFINE k == IF c \in Live(d) THEN g ELSE d.group[c]
<1>1. k \in Groups \cup {None}
  BY DEF DB
<1>2. SetGroup(d, c, g) = [d EXCEPT !.group[c] = k]
  BY DEF SetGroup
<1> HIDE DEF k
<1>3. SetGroup(d, c, g) = [d EXCEPT !.group = [d.group EXCEPT ![c] = k]]
  BY <1>2
<1>4. [d.group EXCEPT ![c] = k] \in [Clients -> Groups \cup {None}]
  BY <1>1 DEF DB
<1> QED BY <1>3, <1>4 DEF DB, SameCharges, SameCounts

\* The counter of a client goes to 0 and the client is enabled; what its group is
\* still owed is in the carry.
ZeroedTo(d, c, e) ==
    /\ e \in DB
    /\ e.expired = d.expired /\ e.group = d.group /\ e.quota = d.quota /\ e.owned = d.owned
    /\ e.used[c] = 0 /\ e.enable[c]
    /\ \A x \in Clients \ {c} : e.used[x] = d.used[x] /\ e.enable[x] = d.enable[x]
    /\ \A h \in Groups, x \in Clients \ {c} : e.base[h][x] = d.base[h][x]
    /\ \A h \in Groups :
         IF h = d.group[c] /\ d.quota[h] # None /\ d.base[h][c] # None
           THEN e.base[h][c] = 0 /\ e.carry[h] = d.carry[h] + Share(d, h, c)
           ELSE e.base[h][c] = d.base[h][c] /\ e.carry[h] = d.carry[h]

LEMMA ZeroedFields ==
  ASSUME db \in DB, NEW c \in Live(db)
  PROVE  ZeroedTo(db, c, Zeroed(c))
<1> DEFINE p == PreserveReset(db, c, 0)
           g == db.group[c]
           e == Zeroed(c)
<1>0. c \in Clients /\ None \notin Groups /\ g \in Groups \cup {None}
  BY GroupQuotaAssumption DEF Live, DB
<1>1. /\ p \in DB
      /\ p.used = db.used /\ p.enable = db.enable /\ p.expired = db.expired
      /\ p.group = db.group /\ p.quota = db.quota /\ p.owned = db.owned
      /\ \A h \in Groups, x \in Clients \ {c} : p.base[h][x] = db.base[h][x]
      /\ \A h \in Groups :
           IF h = g /\ db.quota[h] # None /\ db.base[h][c] # None
             THEN p.base[h][c] = 0 /\ p.carry[h] = db.carry[h] + Share(db, h, c)
             ELSE p.base[h][c] = db.base[h][c] /\ p.carry[h] = db.carry[h]
  <2>1. CASE g = None \/ db.quota[g] = None \/ db.base[g][c] = None
    <3>1. p = db
      BY <2>1 DEF PreserveReset
    <3>2. \A h \in Groups : ~(h = g /\ db.quota[h] # None /\ db.base[h][c] # None)
      BY <1>0, <2>1
    <3> HIDE DEF p, g
    <3> QED BY <3>1, <3>2
  <2>2. CASE ~(g = None \/ db.quota[g] = None \/ db.base[g][c] = None)
    <3>1. g \in Groups
      BY <1>0, <2>2
    <3>2. PICK s \in Nat : s = Share(db, g, c)
      BY <1>0, <3>1, ShareNat
    <3>3. p = [db EXCEPT !.carry[g] = @ + s, !.base[g][c] = 0]
      BY <2>2, <3>2 DEF PreserveReset
    <3> DEFINE nb == [db.base EXCEPT ![g][c] = 0]
               nc == [db.carry EXCEPT ![g] = @ + s]
    <3>4. /\ nb \in [Groups -> [Clients -> Nat \cup {None}]]
          /\ \A h \in Groups, x \in Clients : nb[h][x] = IF h = g /\ x = c THEN 0 ELSE db.base[h][x]
      BY <1>0, <3>1 DEF DB
    <3>5. /\ nc \in [Groups -> Nat]
          /\ \A h \in Groups : nc[h] = IF h = g THEN db.carry[h] + s ELSE db.carry[h]
      BY <3>1 DEF DB
    <3>6. p = Rows(db, nb, db.owned, nc)
      BY <3>3 DEF Rows, DB
    <3>7. db.owned \in [Groups -> [Clients -> BOOLEAN]]
      BY DEF DB
    <3> HIDE DEF nb, nc, p
    <3>8. HasRows(db, nb, db.owned, nc, p)
      BY <3>4, <3>5, <3>6, <3>7, RowFields
    <3>9. /\ p \in DB
          /\ p.used = db.used /\ p.enable = db.enable /\ p.expired = db.expired
          /\ p.group = db.group /\ p.quota = db.quota /\ p.owned = db.owned
          /\ p.base = nb /\ p.carry = nc
      BY <3>8 DEF HasRows
    <3> HIDE DEF g
    <3>10. \A h \in Groups, x \in Clients \ {c} : p.base[h][x] = db.base[h][x]
      BY <3>4, <3>9
    <3>11. ASSUME NEW h \in Groups
           PROVE  IF h = g /\ db.quota[h] # None /\ db.base[h][c] # None
                  THEN p.base[h][c] = 0 /\ p.carry[h] = db.carry[h] + Share(db, h, c)
                  ELSE p.base[h][c] = db.base[h][c] /\ p.carry[h] = db.carry[h]
      BY <1>0, <2>2, <3>2, <3>4, <3>5, <3>9
    <3> QED BY <3>9, <3>10, <3>11
  <2> QED BY <2>1, <2>2
<1> HIDE DEF p, g
<1>2. e = [p EXCEPT !.used[c] = 0, !.enable[c] = TRUE]
  BY DEF Zeroed, p
<1> HIDE DEF e
<1>3. /\ p.used \in [Clients -> Nat \cup {None}] /\ p.enable \in [Clients -> BOOLEAN]
  BY <1>1 DEF DB
<1>4. /\ e.used = [p.used EXCEPT ![c] = 0] /\ e.enable = [p.enable EXCEPT ![c] = TRUE]
      /\ e.expired = p.expired /\ e.group = p.group /\ e.quota = p.quota /\ e.owned = p.owned
      /\ e.base = p.base /\ e.carry = p.carry
  BY <1>1, <1>2 DEF DB
<1>5. e \in DB
  BY <1>0, <1>1, <1>2 DEF DB
<1>6. /\ e.used[c] = 0 /\ e.enable[c]
      /\ \A x \in Clients \ {c} : e.used[x] = p.used[x] /\ e.enable[x] = p.enable[x]
  BY <1>0, <1>3, <1>4
<1> QED BY <1>1, <1>4, <1>5, <1>6 DEF ZeroedTo, e, g

\* A client goes, with its rows.
DeletedTo(d, c, e) ==
    /\ e \in DB
    /\ e.quota = d.quota /\ e.enable = d.enable
    /\ e.used[c] = None /\ e.group[c] = None
    /\ \A x \in Clients : e.expired[x] => d.expired[x]
    /\ \A x \in Clients \ {c} : e.used[x] = d.used[x] /\ e.group[x] = d.group[x]
    /\ \A h \in Groups : e.carry[h] =
         IF d.quota[h] # None THEN d.carry[h] + Share(d, h, c) ELSE d.carry[h]
    /\ \A h \in Groups, x \in Clients : e.base[h][x] = IF x = c THEN None ELSE d.base[h][x]
    /\ \A h \in Groups, x \in Clients : e.owned[h][x] = (d.owned[h][x] /\ x # c)

\* DelClientStat.
Deleted(d, c) ==
    [RemoveMembership(d, c) EXCEPT !.used[c] = None, !.group[c] = None, !.expired[c] = FALSE]

LEMMA DeleteFields ==
  ASSUME NEW d \in DB, NEW c \in Clients
  PROVE  DeletedTo(d, c, Deleted(d, c))
<1> DEFINE S(h) == Share(d, h, c)
           nc == [h \in Groups |-> IF d.quota[h] = None THEN d.carry[h] ELSE d.carry[h] + S(h)]
           nb == [h \in Groups |-> [d.base[h] EXCEPT ![c] = None]]
           no == [h \in Groups |-> [d.owned[h] EXCEPT ![c] = FALSE]]
           r == RemoveMembership(d, c)
           e == Deleted(d, c)
<1>1. /\ nb \in [Groups -> [Clients -> Nat \cup {None}]]
      /\ \A h \in Groups, x \in Clients : nb[h][x] = IF x = c THEN None ELSE d.base[h][x]
  BY DEF DB
<1>2. /\ no \in [Groups -> [Clients -> BOOLEAN]]
      /\ \A h \in Groups, x \in Clients : no[h][x] = (d.owned[h][x] /\ x # c)
  <2>1. ASSUME NEW h \in Groups
        PROVE  /\ [d.owned[h] EXCEPT ![c] = FALSE] \in [Clients -> BOOLEAN]
               /\ \A x \in Clients : [d.owned[h] EXCEPT ![c] = FALSE][x] = (d.owned[h][x] /\ x # c)
    <3>1. d.owned[h] \in [Clients -> BOOLEAN]
      BY DEF DB
    <3> QED BY <3>1
  <2>2. \A h \in Groups : no[h] = [d.owned[h] EXCEPT ![c] = FALSE]
    OBVIOUS
  <2>3. no \in [Groups -> [Clients -> BOOLEAN]]
    BY <2>1
  <2> HIDE DEF no
  <2> QED BY <2>1, <2>2, <2>3
<1>3. /\ nc \in [Groups -> Nat]
      /\ \A h \in Groups : nc[h] = IF d.quota[h] # None THEN d.carry[h] + S(h) ELSE d.carry[h]
  <2>1. \A h \in Groups : S(h) \in Nat /\ d.carry[h] \in Nat
    BY ShareNat DEF DB
  <2> HIDE DEF S
  <2> QED BY <2>1
<1>4. r = Rows(d, nb, no, nc)
  BY DEF RemoveMembership, Rows, DB
<1> HIDE DEF nb, no, nc, r
<1>5. HasRows(d, nb, no, nc, r)
  BY <1>1, <1>2, <1>3, <1>4, RowFields
<1>6. /\ r \in DB
      /\ r.used = d.used /\ r.enable = d.enable /\ r.expired = d.expired
      /\ r.group = d.group /\ r.quota = d.quota
      /\ r.base = nb /\ r.owned = no /\ r.carry = nc
  BY <1>5 DEF HasRows
<1>7. e = [r EXCEPT !.used[c] = None, !.group[c] = None, !.expired[c] = FALSE]
  BY DEF Deleted, r
<1> HIDE DEF e
<1>8. /\ r.used \in [Clients -> Nat \cup {None}] /\ r.expired \in [Clients -> BOOLEAN]
      /\ r.group \in [Clients -> Groups \cup {None}]
  BY <1>6 DEF DB
<1>9. /\ e.used = [r.used EXCEPT ![c] = None] /\ e.group = [r.group EXCEPT ![c] = None]
      /\ e.expired = [r.expired EXCEPT ![c] = FALSE]
      /\ e.enable = r.enable /\ e.quota = r.quota /\ e.owned = r.owned
      /\ e.base = r.base /\ e.carry = r.carry
  BY <1>6, <1>7 DEF DB
<1>10. e \in DB
  BY <1>6, <1>7 DEF DB
<1>11. /\ e.used[c] = None /\ e.group[c] = None
       /\ \A x \in Clients \ {c} : e.used[x] = r.used[x] /\ e.group[x] = r.group[x]
       /\ \A x \in Clients : e.expired[x] => r.expired[x]
  BY <1>8, <1>9
<1> QED BY <1>1, <1>2, <1>3, <1>6, <1>9, <1>10, <1>11 DEF DeletedTo, e

\* UpsertConfig before the group is judged: a quota row, and a membership row for
\* every client of the group.
Configured(d, g, q) ==
    SyncMemberships([d EXCEPT !.quota[g] = q,
                              !.carry[g] = IF d.quota[g] = None THEN 0 ELSE @], g)

ConfiguredTo(d, e) ==
    /\ e \in DB
    /\ e.used = d.used /\ e.enable = d.enable /\ e.expired = d.expired
    /\ \A h \in Groups, x \in Clients :
         /\ e.owned[h][x] => d.owned[h][x]
         /\ d.base[h][x] # None => e.base[h][x] # None /\ e.owned[h][x] = d.owned[h][x]

LEMMA ConfigFields ==
  ASSUME NEW d \in DB, NEW g \in Groups, NEW q \in Nat
  PROVE  ConfiguredTo(d, Configured(d, g, q))
<1> DEFINE n == [d EXCEPT !.quota[g] = q, !.carry[g] = IF d.quota[g] = None THEN 0 ELSE @]
           joining == {c \in Live(n) \ Members(n, g) : n.group[c] = g}
           kb == [c \in Clients |-> IF c \in joining THEN n.used[c] ELSE n.base[g][c]]
           ko == [c \in Clients |-> n.owned[g][c] /\ c \notin joining]
           nb == [n.base EXCEPT ![g] = kb]
           no == [n.owned EXCEPT ![g] = ko]
           e == Configured(d, g, q)
<1>1. /\ n \in DB
      /\ n.used = d.used /\ n.enable = d.enable /\ n.expired = d.expired
      /\ n.base = d.base /\ n.owned = d.owned
  BY DEF DB
<1>2. e = [n EXCEPT !.base[g] = kb, !.owned[g] = ko]
  BY DEF Configured, SyncMemberships
<1> HIDE DEF n
<1>3. \A c \in Clients : c \in joining => n.base[g][c] = None
  BY DEF Members
<1> HIDE DEF joining
<1>4. /\ kb \in [Clients -> Nat \cup {None}]
      /\ \A c \in Clients : kb[c] = IF c \in joining THEN n.used[c] ELSE n.base[g][c]
  BY <1>1 DEF DB
<1>5. /\ ko \in [Clients -> BOOLEAN]
      /\ \A c \in Clients : ko[c] = (n.owned[g][c] /\ c \notin joining)
  OBVIOUS
<1>6. e = Rows(n, nb, no, n.carry)
  <2> HIDE DEF kb, ko, e
  <2> QED BY <1>1, <1>2 DEF Rows, DB
<1> HIDE DEF kb, ko, e
<1>7. /\ nb \in [Groups -> [Clients -> Nat \cup {None}]] /\ nb[g] = kb
      /\ \A h \in Groups \ {g} : nb[h] = n.base[h]
  BY <1>1, <1>4 DEF DB
<1>8. /\ no \in [Groups -> [Clients -> BOOLEAN]] /\ no[g] = ko
      /\ \A h \in Groups \ {g} : no[h] = n.owned[h]
  BY <1>1, <1>5 DEF DB
<1>9. n.carry \in [Groups -> Nat]
  BY <1>1 DEF DB
<1> HIDE DEF nb, no
<1>10. HasRows(n, nb, no, n.carry, e)
  BY <1>1, <1>6, <1>7, <1>8, <1>9, RowFields
<1>11. /\ e \in DB /\ e.used = n.used /\ e.enable = n.enable /\ e.expired = n.expired
       /\ e.base = nb /\ e.owned = no
  BY <1>10 DEF HasRows
<1>12. ASSUME NEW h \in Groups, NEW x \in Clients
       PROVE  /\ e.owned[h][x] => d.owned[h][x]
              /\ d.base[h][x] # None => e.base[h][x] # None /\ e.owned[h][x] = d.owned[h][x]
  <2>1. CASE h # g
    BY <1>1, <1>7, <1>8, <1>11, <2>1
  <2>2. CASE h = g /\ x \in joining
    BY <1>1, <1>3, <1>5, <1>8, <1>11, <2>2
  <2>3. CASE h = g /\ x \notin joining
    <3>1. e.base[h][x] = d.base[h][x]
      BY <1>1, <1>4, <1>7, <1>11, <2>3
    <3>2. e.owned[h][x] = ko[x] /\ ko[x] = (d.owned[h][x] /\ x \notin joining)
      BY <1>1, <1>5, <1>8, <1>11, <2>3
    <3>3. d.owned[h][x] \in BOOLEAN
      BY DEF DB
    <3> QED BY <2>3, <3>1, <3>2, <3>3
  <2> QED BY <2>1, <2>2, <2>3
<1> QED BY <1>1, <1>11, <1>12 DEF ConfiguredTo, e

\* Reset, before the owned clients are enabled.
Restarted(d, g) ==
    [d EXCEPT !.base[g] = [c \in Clients |->
                  IF c \in Members(d, g) \cap Live(d) THEN d.used[c] ELSE @[c]],
              !.owned[g] = [c \in Clients |-> @[c] /\ c \notin Live(d)],
              !.carry[g] = 0]

RestartedTo(d, g, e) ==
    /\ e \in DB
    /\ e.used = d.used /\ e.enable = d.enable /\ e.expired = d.expired
    /\ e.group = d.group /\ e.quota = d.quota
    /\ e.carry[g] = 0 /\ \A h \in Groups \ {g} : e.carry[h] = d.carry[h]
    /\ \A h \in Groups \ {g} : e.base[h] = d.base[h] /\ e.owned[h] = d.owned[h]
    /\ \A x \in Clients :
         /\ e.base[g][x] = IF x \in Members(d, g) \cap Live(d) THEN d.used[x] ELSE d.base[g][x]
         /\ e.owned[g][x] = (d.owned[g][x] /\ x \notin Live(d))

LEMMA RestartFields ==
  ASSUME NEW d \in DB, NEW g \in Groups
  PROVE  RestartedTo(d, g, Restarted(d, g))
<1> DEFINE M == Members(d, g) \cap Live(d)
           kb == [c \in Clients |-> IF c \in M THEN d.used[c] ELSE d.base[g][c]]
           ko == [c \in Clients |-> d.owned[g][c] /\ c \notin Live(d)]
           nb == [d.base EXCEPT ![g] = kb]
           no == [d.owned EXCEPT ![g] = ko]
           nc == [d.carry EXCEPT ![g] = 0]
           e == Restarted(d, g)
<1>1. e = [d EXCEPT !.base[g] = kb, !.owned[g] = ko, !.carry[g] = 0]
  BY DEF Restarted
<1>2. /\ kb \in [Clients -> Nat \cup {None}]
      /\ \A c \in Clients : kb[c] = IF c \in M THEN d.used[c] ELSE d.base[g][c]
  <2> HIDE DEF M
  <2> QED BY DEF DB
<1>3. /\ ko \in [Clients -> BOOLEAN]
      /\ \A c \in Clients : ko[c] = (d.owned[g][c] /\ c \notin Live(d))
  OBVIOUS
<1>4. e = Rows(d, nb, no, nc)
  <2> HIDE DEF kb, ko, e
  <2> QED BY <1>1 DEF Rows, DB
<1> HIDE DEF kb, ko, e
<1>5. /\ nb \in [Groups -> [Clients -> Nat \cup {None}]] /\ nb[g] = kb
      /\ \A h \in Groups \ {g} : nb[h] = d.base[h]
  BY <1>2 DEF DB
<1>6. /\ no \in [Groups -> [Clients -> BOOLEAN]] /\ no[g] = ko
      /\ \A h \in Groups \ {g} : no[h] = d.owned[h]
  BY <1>3 DEF DB
<1>7. nc \in [Groups -> Nat] /\ nc[g] = 0 /\ \A h \in Groups \ {g} : nc[h] = d.carry[h]
  BY DEF DB
<1> HIDE DEF nb, no, nc
<1>8. HasRows(d, nb, no, nc, e)
  BY <1>4, <1>5, <1>6, <1>7, RowFields
<1>9. /\ e \in DB
      /\ e.used = d.used /\ e.enable = d.enable /\ e.expired = d.expired
      /\ e.group = d.group /\ e.quota = d.quota
      /\ e.base = nb /\ e.owned = no /\ e.carry = nc
  BY <1>8 DEF HasRows
<1>10. \A x \in Clients :
         /\ e.base[g][x] = IF x \in M THEN d.used[x] ELSE d.base[g][x]
         /\ e.owned[g][x] = (d.owned[g][x] /\ x \notin Live(d))
  <2> HIDE DEF M
  <2> QED BY <1>2, <1>3, <1>5, <1>6, <1>9
<1>11. /\ e.carry[g] = 0 /\ \A h \in Groups \ {g} : e.carry[h] = d.carry[h]
       /\ \A h \in Groups \ {g} : e.base[h] = d.base[h] /\ e.owned[h] = d.owned[h]
  BY <1>5, <1>6, <1>7, <1>9
<1> QED BY <1>9, <1>10, <1>11 DEF RestartedTo, e

\* A renamed or deleted quota: the rows of g are gone, those of new are g's.
RenamedTo(d, g, new, e) ==
    /\ e \in DB
    /\ e.used = d.used /\ e.enable = d.enable /\ e.expired = d.expired
    /\ \A x \in Clients : e.base[g][x] = None /\ ~e.owned[g][x]
    /\ new # None => e.base[new] = d.base[g] /\ e.owned[new] = d.owned[g]
    /\ \A h \in Groups \ {g, new} : e.base[h] = d.base[h] /\ e.owned[h] = d.owned[h]

LEMMA RenameFields ==
  ASSUME NEW d \in DB, NEW g \in Groups, NEW new \in Groups \cup {None}, g # new
  PROVE  RenamedTo(d, g, new, RenameQuota(d, g, new))
<1> DEFINE kb == [c \in Clients |-> None]
           ko == [c \in Clients |-> FALSE]
           e == RenameQuota(d, g, new)
<1>0. /\ kb \in [Clients -> Nat \cup {None}] /\ \A x \in Clients : kb[x] = None
      /\ ko \in [Clients -> BOOLEAN] /\ \A x \in Clients : ~ko[x]
  OBVIOUS
<1>1. CASE new = None
  <2>1. e = [d EXCEPT !.quota[g] = None, !.carry[g] = 0, !.base[g] = kb, !.owned[g] = ko]
    BY <1>1 DEF RenameQuota
  <2> HIDE DEF kb, ko, e
  <2>2. e \in DB
    BY <1>0, <2>1 DEF DB
  <2>3. e.used = d.used /\ e.enable = d.enable /\ e.expired = d.expired
    BY <2>1 DEF DB
  <2>4. /\ e.base[g] = kb /\ e.owned[g] = ko
        /\ \A h \in Groups \ {g} : e.base[h] = d.base[h] /\ e.owned[h] = d.owned[h]
    BY <2>1 DEF DB
  <2> QED BY <1>0, <1>1, <2>2, <2>3, <2>4 DEF RenamedTo, e
<1>2. CASE new # None
  <2>0. new \in Groups
    BY <1>2
  <2>1. e = [d EXCEPT !.quota[new] = d.quota[g], !.quota[g] = None,
                      !.carry[new] = d.carry[g], !.carry[g] = 0,
                      !.base[new] = d.base[g], !.base[g] = kb,
                      !.owned[new] = d.owned[g], !.owned[g] = ko]
    BY <1>2 DEF RenameQuota
  <2> DEFINE nq == [[d.quota EXCEPT ![new] = d.quota[g]] EXCEPT ![g] = None]
             nc == [[d.carry EXCEPT ![new] = d.carry[g]] EXCEPT ![g] = 0]
             nb == [[d.base EXCEPT ![new] = d.base[g]] EXCEPT ![g] = kb]
             no == [[d.owned EXCEPT ![new] = d.owned[g]] EXCEPT ![g] = ko]
  <2> HIDE DEF kb, ko, e
  <2>2. e = [d EXCEPT !.quota = nq, !.carry = nc, !.base = nb, !.owned = no]
    BY <2>1 DEF DB
  <2>3. nq \in [Groups -> Nat \cup {None}] /\ nc \in [Groups -> Nat]
    BY <2>0 DEF DB
  <2>4. /\ nb \in [Groups -> [Clients -> Nat \cup {None}]] /\ nb[g] = kb /\ nb[new] = d.base[g]
        /\ \A h \in Groups \ {g, new} : nb[h] = d.base[h]
    BY <1>0, <2>0 DEF DB
  <2>5. /\ no \in [Groups -> [Clients -> BOOLEAN]] /\ no[g] = ko /\ no[new] = d.owned[g]
        /\ \A h \in Groups \ {g, new} : no[h] = d.owned[h]
    BY <1>0, <2>0 DEF DB
  <2> HIDE DEF nq, nc, nb, no
  <2>6. /\ e \in DB /\ e.used = d.used /\ e.enable = d.enable /\ e.expired = d.expired
        /\ e.base = nb /\ e.owned = no
    BY <2>2, <2>3, <2>4, <2>5 DEF DB
  <2> QED BY <1>0, <2>0, <2>4, <2>5, <2>6 DEF RenamedTo, e
<1> QED BY <1>1, <1>2

\* A renewal leaves memberships and groups alone.
LEMMA RenewFields ==
  ASSUME NEW d \in DB, NEW R
  PROVE  /\ Renew(d, R) \in DB
         /\ Renew(d, R).base = d.base /\ Renew(d, R).owned = d.owned
         /\ R = {} => SameCharges(d, Renew(d, R)) /\ Renew(d, R).enable = d.enable
<1> DEFINE u == [c \in Clients |-> IF c \in R THEN 0 ELSE d.used[c]]
           x == [c \in Clients |-> d.expired[c] /\ c \notin R]
           y == [c \in Clients |-> d.enable[c] \/ c \in R]
           e == Renew(d, R)
<1>1. /\ u \in [Clients -> Nat \cup {None}] /\ x \in [Clients -> BOOLEAN]
      /\ y \in [Clients -> BOOLEAN]
  BY DEF DB
<1>2. R = {} => u = d.used /\ x = d.expired /\ y = d.enable
  <2> SUFFICES ASSUME R = {} PROVE u = d.used /\ x = d.expired /\ y = d.enable
    OBVIOUS
  <2>1. /\ d.used \in [Clients -> Nat \cup {None}] /\ d.expired \in [Clients -> BOOLEAN]
        /\ d.enable \in [Clients -> BOOLEAN]
    BY DEF DB
  <2>2. u = d.used
    BY <2>1
  <2>3. \A c \in Clients : x[c] = d.expired[c] /\ y[c] = d.enable[c]
    BY <2>1
  <2>4. x = d.expired
    BY <1>1, <2>1, <2>3
  <2>5. y = d.enable
    BY <1>1, <2>1, <2>3
  <2> QED BY <2>2, <2>4, <2>5
<1>3. e = [d EXCEPT !.used = u, !.expired = x, !.enable = y]
  BY DEF Renew
<1> HIDE DEF u, x, y, e
<1>4. /\ e \in DB /\ e.used = u /\ e.expired = x /\ e.enable = y
      /\ e.group = d.group /\ e.base = d.base /\ e.owned = d.owned
      /\ e.quota = d.quota /\ e.carry = d.carry
  BY <1>1, <1>3 DEF DB
<1> QED BY <1>2, <1>4 DEF SameCharges, SameCounts, e

----------------------------------------------------------------------------
(***************************************************************************)
(* Charges.                                                                *)
(***************************************************************************)

\* A database that gives one client another share of the group, and no other.
LEMMA OneShare ==
  ASSUME NEW d \in DB, NEW e \in DB, NEW g \in Groups, NEW c \in Clients,
         \A x \in Clients \ {c} : Share(e, g, x) = Share(d, g, x)
  PROVE  \E s \in Nat : /\ Used(d, g) = d.carry[g] + s + Share(d, g, c)
                        /\ Used(e, g) = e.carry[g] + s + Share(e, g, c)
<1> DEFINE F(x) == [y \in Clients |-> Share(x, g, y)]
           s == SumFunctionOnSet(F(d), Clients \ {c})
<1>0. IsFiniteSet(Clients) /\ IsFiniteSet(Clients \ {c})
  BY GroupQuotaAssumption, FS_Subset
<1>1. (\A x \in Clients : F(d)[x] \in Nat) /\ (\A x \in Clients : F(e)[x] \in Nat)
  BY ShareNat
<1>2. s \in Nat
  <2> HIDE DEF F
  <2> QED BY <1>0, <1>1, SumNat
<1>3. SumFunctionOnSet(F(e), Clients \ {c}) = s
  <2>1. \A x \in Clients \ {c} : F(e)[x] = F(d)[x]
    OBVIOUS
  <2> HIDE DEF F
  <2> QED BY <1>0, <2>1, SumSame
<1>4. /\ SumFunctionOnSet(F(d), Clients) = F(d)[c] + SumFunctionOnSet(F(d), Clients \ {c})
      /\ SumFunctionOnSet(F(e), Clients) = F(e)[c] + SumFunctionOnSet(F(e), Clients \ {c})
  <2> HIDE DEF F
  <2> QED BY <1>0, <1>1, SumRemove
<1>5. F(d)[c] = Share(d, g, c) /\ F(e)[c] = Share(e, g, c)
  OBVIOUS
<1>6. /\ Used(d, g) = d.carry[g] + SumFunctionOnSet(F(d), Clients)
      /\ Used(e, g) = e.carry[g] + SumFunctionOnSet(F(e), Clients)
  BY DEF Used
<1> HIDE DEF F, s
<1>7. PICK k \in Nat : k = s
  BY <1>2
<1>8. PICK a, b, p, q \in Nat : a = d.carry[g] /\ b = e.carry[g] /\ p = Share(d, g, c) /\ q = Share(e, g, c)
  BY ShareNat DEF DB
<1>9. Used(d, g) = a + (p + k) /\ Used(e, g) = b + (q + k)
  BY <1>3, <1>4, <1>5, <1>6, <1>7, <1>8 DEF s
<1>10. a + (p + k) = a + k + p /\ b + (q + k) = b + k + q
  BY <1>7, <1>8
<1> QED BY <1>7, <1>8, <1>9, <1>10

\* A group without shares is charged its carry.
LEMMA NoShares ==
  ASSUME NEW d \in DB, NEW g \in Groups, \A c \in Clients : Share(d, g, c) = 0
  PROVE  Used(d, g) = d.carry[g]
<1> DEFINE F == [y \in Clients |-> Share(d, g, y)]
<1>1. IsFiniteSet(Clients) /\ \A x \in Clients : F[x] = 0
  BY GroupQuotaAssumption
<1>2. Used(d, g) = d.carry[g] + SumFunctionOnSet(F, Clients)
  BY DEF Used
<1> HIDE DEF F
<1>3. SumFunctionOnSet(F, Clients) = 0
  BY <1>1, SumZero
<1>4. d.carry[g] \in Nat
  BY DEF DB
<1> QED BY <1>2, <1>3, <1>4

\* What ChargedOnce needs outside the groups K: the sum is right, and no counter
\* is below the baseline of a row (otherwise max(ct - base, 0) would hide bytes);
\* and rows belong to clients that exist.
Charges(d, cons, K) ==
    /\ \A g \in Groups \ K : d.quota[g] # None => Used(d, g) = cons[g]
    /\ \A g \in Groups \ K, c \in Clients :
         d.quota[g] # None /\ d.base[g][c] # None => d.base[g][c] <= d.used[c]
    /\ \A g \in Groups, c \in Clients :
         d.quota[g] # None /\ d.base[g][c] # None => d.used[c] # None

LEMMA ChargesSame ==
  ASSUME NEW d \in DB, NEW e \in DB, NEW cons, NEW K, SameCounts(d, e), Charges(d, cons, K)
  PROVE  Charges(e, cons, K)
<1>1. \A g \in Groups : Used(e, g) = Used(d, g)
  BY SameViews
<1> QED BY <1>1 DEF Charges, SameCounts

\* An operation on one client is right when the carry and the client's share of
\* each configured group change together by what the group is to be charged.
LEMMA ClientCharges ==
  ASSUME NEW d \in DB, NEW e \in DB, NEW c \in Clients,
         NEW cons \in [Groups -> Nat], NEW new, NEW K, NEW L, K \subseteq L,
         Charges(d, cons, K), e.quota = d.quota,
         \A x \in Clients \ {c} : e.used[x] = d.used[x],
         \A g \in Groups, x \in Clients \ {c} : e.base[g][x] = d.base[g][x],
         \A g \in Groups \ L : d.quota[g] # None =>
            \E k \in Nat : /\ new[g] = cons[g] + k
                           /\ e.carry[g] + Share(e, g, c) = d.carry[g] + Share(d, g, c) + k,
         \A g \in Groups \ L : d.quota[g] # None /\ e.base[g][c] # None
            => e.base[g][c] <= e.used[c],
         \A g \in Groups : d.quota[g] # None /\ e.base[g][c] # None => e.used[c] # None
  PROVE  Charges(e, new, L)
<1>1. \A g \in Groups, x \in Clients \ {c} : Share(e, g, x) = Share(d, g, x)
  BY DEF Share, Members, Live
<1>2. ASSUME NEW g \in Groups \ L, d.quota[g] # None
      PROVE  Used(e, g) = new[g]
  <2>1. PICK s \in Nat : /\ Used(d, g) = d.carry[g] + s + Share(d, g, c)
                         /\ Used(e, g) = e.carry[g] + s + Share(e, g, c)
    BY <1>1, OneShare
  <2>2. PICK k \in Nat : /\ new[g] = cons[g] + k
                         /\ e.carry[g] + Share(e, g, c) = d.carry[g] + Share(d, g, c) + k
    BY <1>2
  <2>3. PICK a, b, p, q \in Nat : a = d.carry[g] /\ b = e.carry[g] /\ p = Share(d, g, c) /\ q = Share(e, g, c)
    BY ShareNat DEF DB
  <2>4. cons[g] = a + s + p
    BY <1>2, <2>1, <2>3 DEF Charges
  <2>5. new[g] = a + s + p + k /\ Used(e, g) = b + s + q /\ b + q = a + p + k
    BY <2>1, <2>2, <2>3, <2>4
  <2> QED BY <2>5
<1>3. ASSUME NEW g \in Groups, NEW x \in Clients, d.quota[g] # None, e.base[g][x] # None
      PROVE  e.used[x] # None /\ (g \notin L => e.base[g][x] <= e.used[x])
  BY <1>3 DEF Charges
<1> QED BY <1>2, <1>3 DEF Charges

\* A poll: the counter rises by n, and a client without a row joins at the old
\* counter.
Polled(d, c, n) == ApplyClientDeltas([d EXCEPT !.used[c] = @ + n], c, n)

PolledTo(d, c, n, e) ==
    /\ e \in DB
    /\ e.enable = d.enable /\ e.expired = d.expired
    /\ e.group = d.group /\ e.quota = d.quota /\ e.carry = d.carry
    /\ e.used[c] = d.used[c] + n /\ \A x \in Clients \ {c} : e.used[x] = d.used[x]
    /\ \A h \in Groups, x \in Clients : e.base[h][x] =
         IF h = d.group[c] /\ x = c /\ d.base[h][x] = None THEN d.used[c] ELSE d.base[h][x]
    /\ \A h \in Groups, x \in Clients : e.owned[h][x] =
         (d.owned[h][x] /\ ~(h = d.group[c] /\ x = c /\ d.base[h][x] = None))

LEMMA PollFields ==
  ASSUME NEW d \in DB, NEW c \in Live(d), NEW n \in Nat
  PROVE  PolledTo(d, c, n, Polled(d, c, n))
<1> DEFINE m == [d EXCEPT !.used[c] = @ + n]
           e == Polled(d, c, n)
<1>1. c \in Clients /\ d.used[c] \in Nat /\ d.group[c] \in Groups \cup {None}
  BY DEF Live, DB
<1>2. /\ m \in DB
      /\ m.enable = d.enable /\ m.expired = d.expired /\ m.group = d.group
      /\ m.quota = d.quota /\ m.carry = d.carry /\ m.base = d.base /\ m.owned = d.owned
      /\ m.used[c] = d.used[c] + n /\ \A x \in Clients \ {c} : m.used[x] = d.used[x]
  <2>1. PICK k \in Nat : k = d.used[c] + n
    BY <1>1
  <2>2. m = [d EXCEPT !.used[c] = k]
    BY <2>1
  <2> HIDE DEF m
  <2>3. m \in DB
    BY <1>1, <2>2 DEF DB
  <2> QED BY <1>1, <2>1, <2>2, <2>3 DEF DB
<1>3. e = EnsureMembership(m, m.group[c], c, m.used[c] - n)
  BY DEF Polled, ApplyClientDeltas
<1> HIDE DEF m, e
<1>4. m.used[c] - n = d.used[c]
  BY <1>1, <1>2
<1>5. Ensured(m, d.group[c], c, d.used[c], e)
  BY <1>1, <1>2, <1>3, <1>4, EnsureFields
<1> QED BY <1>2, <1>5 DEF Ensured, PolledTo, e

LEMMA PollCharges ==
  ASSUME NEW d \in DB, NEW c \in Live(d), NEW n \in Nat,
         NEW cons \in [Groups -> Nat], NEW K, NEW L, K \subseteq L, Charges(d, cons, K),
         \A g \in Groups \ L : d.base[g][c] # None => d.group[c] = g
  PROVE  Charges(Polled(d, c, n),
                 [g \in Groups |-> IF g = d.group[c] /\ d.quota[g] # None THEN cons[g] + n
                                   ELSE cons[g]], L)
<1> DEFINE e == Polled(d, c, n)
           new == [g \in Groups |-> IF g = d.group[c] /\ d.quota[g] # None THEN cons[g] + n
                                    ELSE cons[g]]
<1>0. c \in Clients /\ d.used[c] \in Nat /\ d.used[c] # None /\ None \notin Nat
  BY GroupQuotaAssumption DEF Live, DB
<1>1. PolledTo(d, c, n, e)
  BY PollFields
<1>2. \A g \in Groups : new[g] = IF g = d.group[c] /\ d.quota[g] # None THEN cons[g] + n ELSE cons[g]
  OBVIOUS
<1> HIDE DEF e, new
<1>3. /\ e \in DB /\ e.quota = d.quota /\ e.group = d.group /\ e.carry = d.carry
      /\ e.used[c] = d.used[c] + n
      /\ \A x \in Clients \ {c} : e.used[x] = d.used[x]
      /\ \A h \in Groups, x \in Clients : e.base[h][x] =
           IF h = d.group[c] /\ x = c /\ d.base[h][x] = None THEN d.used[c] ELSE d.base[h][x]
  BY <1>1 DEF PolledTo
<1>4. ASSUME NEW g \in Groups \ L, d.quota[g] # None
      PROVE  \E k \in Nat : /\ new[g] = cons[g] + k
                            /\ e.carry[g] + Share(e, g, c) = d.carry[g] + Share(d, g, c) + k
  <2>0. e.carry[g] = d.carry[g] /\ d.carry[g] \in Nat /\ cons[g] \in Nat /\ d.base[g][c] \in Nat \cup {None}
    BY <1>0, <1>3 DEF DB
  <2>1. CASE g = d.group[c] /\ d.base[g][c] = None
    <3>1. Share(d, g, c) = 0
      BY <2>1 DEF Share, Members
    <3>2. e.base[g][c] = d.used[c] /\ e.used[c] = d.used[c] + n
      BY <1>0, <1>3, <2>1
    <3>3. Share(e, g, c) = n
      BY <1>0, <3>2 DEF Share, Members, Live
    <3>4. new[g] = cons[g] + n
      BY <1>2, <1>4, <2>1
    <3> QED BY <2>0, <3>1, <3>3, <3>4
  <2>2. CASE g = d.group[c] /\ d.base[g][c] # None
    <3>1. d.base[g][c] <= d.used[c] /\ d.base[g][c] \in Nat
      BY <1>0, <1>4, <2>0, <2>2 DEF Charges
    <3>2. Share(d, g, c) = d.used[c] - d.base[g][c]
      BY <1>0, <2>2, <3>1 DEF Share, Members, Live
    <3>3. e.base[g][c] = d.base[g][c] /\ e.used[c] = d.used[c] + n
      BY <1>0, <1>3, <2>2
    <3>4. Share(e, g, c) = d.used[c] + n - d.base[g][c]
      <4>1. PICK u, b \in Nat : u = d.used[c] /\ b = d.base[g][c] /\ b <= u
        BY <1>0, <3>1
      <4>2. c \in Members(e, g) /\ c \in Live(e) /\ e.used[c] = u + n /\ e.base[g][c] = b
        BY <1>0, <2>2, <3>3, <4>1 DEF Members, Live
      <4> QED BY <4>1, <4>2 DEF Share
    <3>5. new[g] = cons[g] + n
      BY <1>2, <1>4, <2>2
    <3> QED BY <1>0, <2>0, <3>1, <3>2, <3>4, <3>5
  <2>3. CASE g # d.group[c]
    <3>1. d.base[g][c] = None
      BY <1>4, <2>3
    <3>2. e.base[g][c] = None
      BY <1>0, <1>3, <2>3, <3>1
    <3>3. Share(d, g, c) = 0 /\ Share(e, g, c) = 0
      BY <3>1, <3>2 DEF Share, Members
    <3>4. new[g] = cons[g]
      BY <1>2, <2>3
    <3> QED BY <2>0, <3>3, <3>4
  <2> QED BY <2>1, <2>2, <2>3
<1>5. ASSUME NEW g \in Groups, d.quota[g] # None, e.base[g][c] # None
      PROVE  e.used[c] # None /\ (g \notin L => e.base[g][c] <= e.used[c])
  <2>1. e.used[c] \in Nat /\ e.used[c] # None /\ d.used[c] <= e.used[c]
    BY <1>0, <1>3
  <2>2. CASE d.base[g][c] = None
    BY <1>0, <1>3, <1>5, <2>1, <2>2
  <2>3. CASE d.base[g][c] # None
    <3>1. e.base[g][c] = d.base[g][c] /\ d.base[g][c] \in Nat
      BY <1>0, <1>3, <2>3 DEF DB
    <3>2. g \notin L => d.base[g][c] <= d.used[c]
      BY <1>0, <1>5, <2>3 DEF Charges
    <3> QED BY <1>0, <1>3, <2>1, <3>1, <3>2
  <2> QED BY <2>2, <2>3
<1>6. \A g \in Groups, x \in Clients \ {c} : e.base[g][x] = d.base[g][x]
  BY <1>3
<1>7. Charges(e, new, L)
  BY <1>0, <1>3, <1>4, <1>5, <1>6, ClientCharges
<1> QED BY <1>7 DEF e, new

\* PreserveReset and the zeroed counter.
LEMMA ZeroCharges ==
  ASSUME db \in DB, NEW c \in Live(db), NEW cons \in [Groups -> Nat], NEW K,
         Charges(db, cons, K)
  PROVE  Charges(Zeroed(c), cons, K \cup Astray(c))
<1> DEFINE e == Zeroed(c)
           L == K \cup Astray(c)
<1>0. c \in Clients /\ db.used[c] \in Nat /\ db.used[c] # None /\ None \notin Nat
  BY GroupQuotaAssumption DEF Live, DB
<1>a. \A g \in Groups \ L : db.base[g][c] # None => db.group[c] = g
  BY <1>0 DEF Astray, Members
<1>k. K \subseteq L
  OBVIOUS
<1>1. ZeroedTo(db, c, e)
  BY ZeroedFields
<1> HIDE DEF e, L
<1>2. /\ e \in DB /\ e.quota = db.quota /\ e.group = db.group /\ e.used[c] = 0
      /\ \A x \in Clients \ {c} : e.used[x] = db.used[x]
      /\ \A h \in Groups, x \in Clients \ {c} : e.base[h][x] = db.base[h][x]
      /\ \A h \in Groups :
         IF h = db.group[c] /\ db.quota[h] # None /\ db.base[h][c] # None
           THEN e.base[h][c] = 0 /\ e.carry[h] = db.carry[h] + Share(db, h, c)
           ELSE e.base[h][c] = db.base[h][c] /\ e.carry[h] = db.carry[h]
  BY <1>1 DEF ZeroedTo
<1>3. ASSUME NEW g \in Groups \ L, db.quota[g] # None
      PROVE  /\ e.carry[g] + Share(e, g, c) = db.carry[g] + Share(db, g, c) + 0
             /\ e.base[g][c] # None => e.base[g][c] <= e.used[c]
  <2>0. PICK a, p \in Nat : a = db.carry[g] /\ p = Share(db, g, c)
    BY <1>0, ShareNat DEF DB
  <2>1. CASE db.base[g][c] # None
    <3>1. db.group[c] = g
      BY <1>a, <2>1
    <3>2. e.base[g][c] = 0 /\ e.carry[g] = a + p
      BY <1>2, <1>3, <2>0, <2>1, <3>1
    <3>3. Share(e, g, c) = 0
      BY <1>0, <1>2, <3>2 DEF Share, Members, Live
    <3> QED BY <1>0, <1>2, <2>0, <3>1, <3>2, <3>3
  <2>2. CASE db.base[g][c] = None
    <3>1. e.base[g][c] = None /\ e.carry[g] = a
      BY <1>2, <2>0, <2>2
    <3>2. Share(e, g, c) = 0 /\ Share(db, g, c) = 0
      BY <2>2, <3>1 DEF Share, Members
    <3> QED BY <2>0, <3>1, <3>2
  <2> QED BY <2>1, <2>2
<1>4. \A g \in Groups \ L : db.quota[g] # None =>
        \E k \in Nat : /\ cons[g] = cons[g] + k
                       /\ e.carry[g] + Share(e, g, c) = db.carry[g] + Share(db, g, c) + k
  <2> TAKE g \in Groups \ L
  <2> HAVE db.quota[g] # None
  <2> WITNESS 0 \in Nat
  <2> QED BY <1>3
<1>5. e.used[c] # None
  BY <1>0, <1>2
<1>6. Charges(e, cons, L)
  BY <1>0, <1>k, <1>2, <1>3, <1>4, <1>5, ClientCharges
<1> QED BY <1>6 DEF e, L

\* A client moves: what it owes the old group stays there.
LEMMA ChangeCharges ==
  ASSUME NEW d \in DB, NEW c \in Clients, NEW old \in Groups \cup {None},
         NEW new \in Groups \cup {None},
         NEW cons \in [Groups -> Nat], NEW K, Charges(d, cons, K)
  PROVE  Charges(ChangeMembership(d, c, old, new), cons, K)
<1> DEFINE e == ChangeMembership(d, c, old, new)
<1>0. None \notin Nat /\ None \notin Groups
  BY GroupQuotaAssumption
<1>1. CASE new = old
  BY <1>1 DEF ChangeMembership
<1>2. CASE new # old
  <2>1. Changed(d, c, old, new, e)
    BY <1>2, ChangeFields
  <2> HIDE DEF e
  <2>2. /\ e \in DB /\ e.used = d.used /\ e.quota = d.quota
        /\ \A h \in Groups : e.carry[h] =
              IF h = old /\ d.quota[h] # None THEN d.carry[h] + Share(d, h, c) ELSE d.carry[h]
        /\ \A h \in Groups, x \in Clients \ {c} : e.base[h][x] = d.base[h][x]
        /\ \A h \in Groups : e.base[h][c] =
              IF h = old THEN None
              ELSE IF h = new /\ c \in Live(d) /\ d.base[h][c] = None THEN d.used[c]
              ELSE d.base[h][c]
    BY <2>1 DEF Changed
  <2>3. ASSUME NEW g \in Groups, d.quota[g] # None
        PROVE  /\ e.carry[g] + Share(e, g, c) = d.carry[g] + Share(d, g, c) + 0
               /\ e.base[g][c] # None =>
                    e.used[c] # None /\ (g \notin K => e.base[g][c] <= e.used[c])
    <3>0. PICK a, p \in Nat : a = d.carry[g] /\ p = Share(d, g, c)
      BY ShareNat DEF DB
    <3>1. CASE g = old
      <4>1. e.base[g][c] = None /\ e.carry[g] = a + p
        BY <2>2, <2>3, <3>0, <3>1
      <4>2. Share(e, g, c) = 0
        BY <4>1 DEF Share, Members
      <4> QED BY <3>0, <4>1, <4>2
    <3>2. CASE g # old /\ e.base[g][c] = d.base[g][c]
      <4>1. e.carry[g] = a /\ Share(e, g, c) = p
        BY <2>2, <3>0, <3>2 DEF Share, Members, Live
      <4> QED BY <2>2, <2>3, <3>0, <3>2, <4>1 DEF Charges
    <3>3. CASE g # old /\ e.base[g][c] # d.base[g][c]
      <4>1. c \in Live(d) /\ d.base[g][c] = None /\ e.base[g][c] = d.used[c] /\ e.carry[g] = a
        BY <2>2, <3>0, <3>3
      <4>2. d.used[c] \in Nat /\ d.used[c] # None
        BY <1>0, <4>1 DEF Live, DB
      <4>3. Share(d, g, c) = 0 /\ Share(e, g, c) = 0
        BY <2>2, <4>1, <4>2 DEF Share, Members, Live
      <4> QED BY <2>2, <3>0, <4>1, <4>2, <4>3
    <3> QED BY <3>1, <3>2, <3>3
  <2>4. \A g \in Groups \ K : d.quota[g] # None =>
          \E k \in Nat : /\ cons[g] = cons[g] + k
                         /\ e.carry[g] + Share(e, g, c) = d.carry[g] + Share(d, g, c) + k
    <3> TAKE g \in Groups \ K
    <3> HAVE d.quota[g] # None
    <3> WITNESS 0 \in Nat
    <3> QED BY <2>3
  <2>5. \A x \in Clients \ {c} : e.used[x] = d.used[x]
    BY <2>2
  <2>6. Charges(e, cons, K)
    BY <2>2, <2>3, <2>4, <2>5, ClientCharges
  <2> QED BY <2>6 DEF e
<1> QED BY <1>1, <1>2

\* A client is deleted: what it owes stays with its groups.
LEMMA DeleteCharges ==
  ASSUME NEW d \in DB, NEW c \in Clients, NEW cons \in [Groups -> Nat], NEW K,
         Charges(d, cons, K)
  PROVE  Charges(Deleted(d, c), cons, K)
<1> DEFINE e == Deleted(d, c)
<1>1. DeletedTo(d, c, e)
  BY DeleteFields
<1> HIDE DEF e
<1>2. /\ e \in DB /\ e.quota = d.quota
      /\ \A x \in Clients \ {c} : e.used[x] = d.used[x] /\ e.group[x] = d.group[x]
      /\ \A h \in Groups : e.carry[h] =
           IF d.quota[h] # None THEN d.carry[h] + Share(d, h, c) ELSE d.carry[h]
      /\ \A h \in Groups, x \in Clients : e.base[h][x] = IF x = c THEN None ELSE d.base[h][x]
  BY <1>1 DEF DeletedTo
<1>3. \A g \in Groups : e.base[g][c] = None /\ Share(e, g, c) = 0
  BY <1>2 DEF Share, Members
<1>4. \A g \in Groups \ K : d.quota[g] # None =>
        \E k \in Nat : /\ cons[g] = cons[g] + k
                       /\ e.carry[g] + Share(e, g, c) = d.carry[g] + Share(d, g, c) + k
  <2> TAKE g \in Groups \ K
  <2> HAVE d.quota[g] # None
  <2> WITNESS 0 \in Nat
  <2>1. PICK a, p \in Nat : a = d.carry[g] /\ p = Share(d, g, c)
    BY ShareNat DEF DB
  <2>2. e.carry[g] = a + p
    BY <1>2, <2>1
  <2> QED BY <1>3, <2>1, <2>2
<1>5. \A g \in Groups, x \in Clients \ {c} : e.base[g][x] = d.base[g][x]
  BY <1>2
<1>6. Charges(e, cons, K)
  BY <1>2, <1>3, <1>4, <1>5, ClientCharges
<1> QED BY <1>6 DEF e

\* A reset group is charged nothing, the others what they were.
LEMMA RestartCharges ==
  ASSUME NEW d \in DB, NEW g \in Groups, NEW cons \in [Groups -> Nat], NEW K,
         Charges(d, cons, K)
  PROVE  Charges(Restarted(d, g), [cons EXCEPT ![g] = 0], K \ {g})
<1> DEFINE e == Restarted(d, g)
<1>0. None \notin Nat
  BY GroupQuotaAssumption
<1>1. RestartedTo(d, g, e)
  BY RestartFields
<1> HIDE DEF e
<1>2. /\ e \in DB /\ e.used = d.used /\ e.group = d.group /\ e.quota = d.quota
      /\ e.carry[g] = 0 /\ \A h \in Groups \ {g} : e.carry[h] = d.carry[h]
      /\ \A h \in Groups \ {g} : e.base[h] = d.base[h]
      /\ \A x \in Clients :
           e.base[g][x] = IF x \in Members(d, g) \cap Live(d) THEN d.used[x] ELSE d.base[g][x]
  BY <1>1 DEF RestartedTo
<1>3. ASSUME d.quota[g] # None, NEW c \in Clients
      PROVE  /\ Share(e, g, c) = 0
             /\ e.base[g][c] # None => e.used[c] # None /\ e.base[g][c] <= e.used[c]
  <2>0. d.used[c] \in Nat \cup {None}
    BY DEF DB
  <2>1. CASE d.base[g][c] = None
    <3>1. e.base[g][c] = None
      BY <1>2, <2>1 DEF Members
    <3> QED BY <3>1 DEF Share, Members
  <2>2. CASE d.base[g][c] # None
    <3>1. d.used[c] # None
      BY <1>3, <2>2 DEF Charges
    <3>2. e.base[g][c] = d.used[c] /\ e.used[c] = d.used[c] /\ d.used[c] \in Nat
      BY <1>2, <2>0, <2>2, <3>1 DEF Members, Live
    <3>3. Share(e, g, c) = 0
      BY <3>2 DEF Share
    <3> QED BY <1>2, <3>1, <3>2, <3>3
  <2> QED BY <2>1, <2>2
<1>4. d.quota[g] # None => Used(e, g) = 0
  BY <1>2, <1>3, NoShares
<1>5. ASSUME NEW h \in Groups \ {g} PROVE Used(e, h) = Used(d, h)
  <2>1. \A x \in Clients : Share(e, h, x) = Share(d, h, x)
    BY <1>2 DEF Share, Members, Live
  <2>2. [x \in Clients |-> Share(e, h, x)] = [x \in Clients |-> Share(d, h, x)]
    BY <2>1
  <2> QED BY <1>2, <2>2 DEF Used
<1>6. \A h \in Groups \ (K \ {g}) : d.quota[h] # None => Used(e, h) = [cons EXCEPT ![g] = 0][h]
  BY <1>4, <1>5 DEF Charges
<1>7. \A h \in Groups, c \in Clients : d.quota[h] # None /\ e.base[h][c] # None
        => e.used[c] # None /\ (h \notin K \ {g} => e.base[h][c] <= e.used[c])
  BY <1>2, <1>3 DEF Charges
<1> QED BY <1>2, <1>6, <1>7 DEF Charges, e

----------------------------------------------------------------------------
(***************************************************************************)
(* Ownership.                                                              *)
(***************************************************************************)

\* A marked client has a membership row.
OwnedMembers(d) == \A g \in Groups, c \in Clients : d.owned[g][c] => d.base[g][c] # None

LEMMA OwnedSame ==
  ASSUME NEW d, NEW e, OwnedMembers(d), e.base = d.base,
         \A g \in Groups, c \in Clients : e.owned[g][c] => d.owned[g][c]
  PROVE  OwnedMembers(e)
BY DEF OwnedMembers

LEMMA OwnedMark ==
  ASSUME NEW d \in DB, OwnedMembers(d)
  PROVE  OwnedMembers(MarkOwned(d))
<1>1. MarkOwned(d).base = d.base
  BY MarkFields DEF SameCharges, SameCounts
<1>2. \A g \in Groups, c \in Clients :
        MarkOwned(d).owned[g][c] => d.owned[g][c] \/ c \in Members(d, g)
  BY MarkFields
<1> QED BY <1>1, <1>2 DEF OwnedMembers, Members

LEMMA OwnedEnforce ==
  ASSUME NEW d \in DB, OwnedMembers(d)
  PROVE  OwnedMembers(Enforce(d))
BY EnforceFields DEF OwnedMembers, SameCharges, SameCounts, Members

LEMMA OwnedReconcile ==
  ASSUME NEW d \in DB, OwnedMembers(d)
  PROVE  OwnedMembers(ReconcileEnabled(d))
<1>1. ReconcileEnabled(d).base = d.base
  BY ReconcileFields DEF SameCharges, SameCounts
<1>2. \A g \in Groups, c \in Clients :
        ReconcileEnabled(d).owned[g][c] => d.owned[g][c] \/ c \in Members(d, g)
  BY ReconcileFields
<1> QED BY <1>1, <1>2 DEF OwnedMembers, Members

NoneExpired(d) == \A c \in Clients : ~d.expired[c]

\* The clients that are off and marked are the clients a group switched off.
Owners(d, r) ==
    /\ NoneExpired(d)
    /\ \A g \in Groups, c \in Clients : ~d.enable[c] /\ d.owned[g][c] => r[c] = "group"
    /\ \A c \in Live(d) : ~d.enable[c] /\ r[c] = "group" => \E g \in Groups : d.owned[g][c]

\* The database old became e, the operator switching off the clients in C: what
\* the history needs of an operation.
Tracks(old, e, C) ==
    /\ \A g \in Groups, c \in Clients :
         ~e.enable[c] /\ ~old.enable[c] /\ e.owned[g][c] => \E h \in Groups : old.owned[h][c]
    /\ \A c \in Live(e) \ C : ~e.enable[c] /\ old.enable[c] => \E g \in Groups : e.owned[g][c]
    /\ \A g \in Groups, c \in Clients \ C :
         ~e.enable[c] /\ ~old.enable[c] /\ old.owned[g][c] /\ c \in Members(e, g)
           => \E h \in Groups : e.owned[h][c]
    /\ \A g \in Groups, c \in C : ~e.owned[g][c]

LEMMA TrackOwners ==
  ASSUME NEW d, NEW old, NEW e, NEW C, Owners(d, reason), Tracks(old, e, C),
         old.owned = d.owned, \A c \in Clients : ~old.enable[c] => ~d.enable[c],
         Live(e) \subseteq Live(d), NoneExpired(e)
  PROVE  Owners(e, Reasons(old, e, C))
<1> DEFINE r == Reasons(old, e, C)
<1>1. ASSUME NEW c \in Clients
      PROVE r[c] = IF e.enable[c] THEN None
              ELSE IF c \in C THEN "manual"
              ELSE IF old.enable[c] THEN "group"
              ELSE IF /\ \E g \in Groups : old.owned[g][c] /\ c \notin Members(e, g)
                      /\ \A g \in Groups : ~e.owned[g][c]
                   THEN "left"
              ELSE reason[c]
  <2>1. ~e.expired[c]
    BY DEF NoneExpired
  <2> QED BY <2>1 DEF Reasons
<1> HIDE DEF r
<1>2. ASSUME NEW g \in Groups, NEW c \in Clients, ~e.enable[c], e.owned[g][c]
      PROVE  r[c] = "group"
  <2>1. c \notin C
    BY <1>2 DEF Tracks
  <2>2. CASE old.enable[c]
    BY <1>1, <1>2, <2>1, <2>2
  <2>3. CASE ~old.enable[c]
    <3>1. r[c] = reason[c]
      BY <1>1, <1>2, <2>1, <2>3
    <3>2. PICK h \in Groups : d.owned[h][c]
      BY <1>2, <2>3 DEF Tracks
    <3>3. ~d.enable[c]
      BY <2>3
    <3> QED BY <3>1, <3>2, <3>3 DEF Owners
  <2> QED BY <2>2, <2>3
<1>3. ASSUME NEW c \in Live(e), ~e.enable[c], r[c] = "group"
      PROVE  \E g \in Groups : e.owned[g][c]
  <2>0. c \in Clients /\ c \in Live(d)
    BY DEF Live
  <2>1. c \notin C
    BY <1>1, <1>3, <2>0
  <2>2. CASE old.enable[c]
    BY <1>3, <2>1, <2>2 DEF Tracks
  <2>3. CASE ~old.enable[c]
    <3> SUFFICES ASSUME \A g \in Groups : ~e.owned[g][c] PROVE FALSE
      OBVIOUS
    <3>1. \A g \in Groups : old.owned[g][c] => c \notin Members(e, g)
      BY <1>3, <2>0, <2>1, <2>3 DEF Tracks
    <3>2. \A g \in Groups : ~old.owned[g][c]
      BY <1>1, <1>3, <2>0, <2>1, <2>3, <3>1
    <3>3. reason[c] = "group"
      BY <1>1, <1>3, <2>0, <2>1, <2>3, <3>2
    <3> QED BY <2>0, <2>3, <3>2, <3>3 DEF Owners
  <2> QED BY <2>2, <2>3
<1> QED BY <1>2, <1>3 DEF Owners, r

\* An operation before the groups are judged: only marked clients are enabled,
\* none is disabled, and a client that stays off and a member keeps its mark.
Follows(old, f) ==
    /\ \A c \in Clients : old.enable[c] => f.enable[c]
    /\ \A c \in Clients : f.enable[c] /\ ~old.enable[c] => \E h \in Groups : old.owned[h][c]
    /\ \A g \in Groups, c \in Clients :
         ~f.enable[c] /\ f.owned[g][c] => \E h \in Groups : old.owned[h][c]
    /\ \A g \in Groups, c \in Clients :
         ~f.enable[c] /\ old.owned[g][c] /\ c \in Members(f, g)
           => \E h \in Groups : f.owned[h][c]

LEMMA FollowTracks ==
  ASSUME NEW old \in DB, NEW f \in DB, Follows(old, f)
  PROVE  Tracks(old, f, {})
BY DEF Follows, Tracks, Live

LEMMA MarkFollows ==
  ASSUME NEW old \in DB, NEW f \in DB, Follows(old, f)
  PROVE  Follows(old, MarkOwned(f))
<1> DEFINE e == MarkOwned(f)
<1>1. /\ e.enable = f.enable
      /\ \A g \in Groups : Members(e, g) = Members(f, g)
      /\ \A g \in Groups, c \in Clients : f.owned[g][c] => e.owned[g][c]
      /\ \A g \in Groups, c \in Clients : ~f.enable[c] /\ e.owned[g][c] => f.owned[g][c]
  BY MarkFields DEF SameCharges, SameCounts, Members, DepletedEmails
<1> HIDE DEF e
<1>2. Follows(old, e)
  BY <1>1 DEF Follows
<1> QED BY <1>2 DEF e

LEMMA EnforceTracks ==
  ASSUME NEW old \in DB, NEW f \in DB, Follows(old, f), NoneExpired(f)
  PROVE  Tracks(old, Enforce(f), {})
<1> DEFINE e == Enforce(f)
<1>1. Expired(f) = {}
  BY DEF Expired, NoneExpired, Live
<1>2. /\ Live(e) = Live(f) /\ \A g \in Groups : Members(e, g) = Members(f, g)
  BY EnforceFields, SameViews DEF SameCharges
<1>3. /\ \A c \in Clients : e.enable[c] = (f.enable[c] /\ c \notin DepletedEmails(f))
      /\ \A g \in Groups, c \in Clients : e.owned[g][c] =
           (f.owned[g][c] \/ (Depleted(f, g) /\ c \in Members(f, g) \cap DepletedEmails(f)))
  BY <1>1, EnforceFields
<1>4. \A c \in Clients : c \in DepletedEmails(f) => f.enable[c]
  BY DEF DepletedEmails
<1>5. \A c \in Clients : c \in DepletedEmails(f) => \E g \in Groups : e.owned[g][c]
  <2> TAKE c \in Clients
  <2> HAVE c \in DepletedEmails(f)
  <2>1. PICK g \in Groups : Depleted(f, g) /\ c \in Members(f, g)
    BY DEF DepletedEmails
  <2> QED BY <1>3, <2>1
<1> HIDE DEF e
<1>6. ASSUME NEW g \in Groups, NEW c \in Clients, ~e.enable[c], ~old.enable[c], e.owned[g][c]
      PROVE  \E h \in Groups : old.owned[h][c]
  <2>1. CASE f.enable[c]
    BY <1>6, <2>1 DEF Follows
  <2>2. CASE ~f.enable[c]
    <3>1. f.owned[g][c]
      BY <1>3, <1>4, <1>6, <2>2
    <3> QED BY <2>2, <3>1 DEF Follows
  <2> QED BY <2>1, <2>2
<1>7. ASSUME NEW c \in Live(e), ~e.enable[c], old.enable[c]
      PROVE  \E g \in Groups : e.owned[g][c]
  <2>1. c \in Clients
    BY DEF Live
  <2>2. c \in DepletedEmails(f)
    BY <1>3, <1>7, <2>1 DEF Follows
  <2> QED BY <1>5, <2>1, <2>2
<1>8. ASSUME NEW g \in Groups, NEW c \in Clients, ~e.enable[c], ~old.enable[c],
             old.owned[g][c], c \in Members(e, g)
      PROVE  \E h \in Groups : e.owned[h][c]
  <2>1. CASE f.enable[c]
    BY <1>3, <1>5, <1>8, <2>1
  <2>2. CASE ~f.enable[c]
    <3>1. \E h \in Groups : f.owned[h][c]
      BY <1>2, <1>8, <2>2 DEF Follows
    <3> QED BY <1>3, <3>1
  <2> QED BY <2>1, <2>2
<1>9. Tracks(old, e, {})
  BY <1>6, <1>7, <1>8 DEF Tracks
<1> QED BY <1>9 DEF e

LEMMA ReconcileTracks ==
  ASSUME NEW old \in DB, NEW f \in DB, Follows(old, f), OwnedMembers(f)
  PROVE  Tracks(old, ReconcileEnabled(f), {})
<1> DEFINE e == ReconcileEnabled(f)
<1>2. /\ Live(e) = Live(f) /\ \A g \in Groups : Members(e, g) = Members(f, g)
  BY ReconcileFields, SameViews DEF SameCharges
<1>3. /\ \A c \in Clients : e.enable[c] =
           ( \/ f.enable[c] /\ c \notin DepletedEmails(f)
             \/ \E g \in Groups : Free(f, g) /\ c \in Members(f, g) /\ f.owned[g][c])
      /\ \A g \in Groups, c \in Clients : e.owned[g][c] =
           ( /\ ~Free(f, g)
             /\ \/ f.owned[g][c]
                \/ Depleted(f, g) /\ c \in Members(f, g) \cap DepletedEmails(f))
  BY ReconcileFields, Zenon
<1>4. \A c \in Clients : c \in DepletedEmails(f) => f.enable[c]
  BY DEF DepletedEmails
<1>5. \A c \in Clients : c \in DepletedEmails(f) => \E g \in Groups : e.owned[g][c]
  <2> TAKE c \in Clients
  <2> HAVE c \in DepletedEmails(f)
  <2>1. PICK g \in Groups : Depleted(f, g) /\ c \in Members(f, g)
    BY DEF DepletedEmails
  <2>2. ~Free(f, g)
    BY <2>1 DEF Free
  <2> QED BY <1>3, <2>1, <2>2
<1> HIDE DEF e
<1>6. ASSUME NEW g \in Groups, NEW c \in Clients, ~e.enable[c], ~old.enable[c], e.owned[g][c]
      PROVE  \E h \in Groups : old.owned[h][c]
  <2>1. CASE f.enable[c]
    BY <1>6, <2>1 DEF Follows
  <2>2. CASE ~f.enable[c]
    <3>1. f.owned[g][c]
      BY <1>3, <1>4, <1>6, <2>2
    <3> QED BY <2>2, <3>1 DEF Follows
  <2> QED BY <2>1, <2>2
<1>7. ASSUME NEW c \in Live(e), ~e.enable[c], old.enable[c]
      PROVE  \E g \in Groups : e.owned[g][c]
  <2>1. c \in Clients
    BY DEF Live
  <2>2. c \in DepletedEmails(f)
    BY <1>3, <1>7, <2>1 DEF Follows
  <2> QED BY <1>5, <2>1, <2>2
<1>8. ASSUME NEW g \in Groups, NEW c \in Clients, ~e.enable[c], ~old.enable[c],
             old.owned[g][c], c \in Members(e, g)
      PROVE  \E h \in Groups : e.owned[h][c]
  <2>1. CASE f.enable[c]
    BY <1>3, <1>5, <1>8, <2>1
  <2>2. CASE ~f.enable[c]
    <3>1. PICK h \in Groups : f.owned[h][c]
      BY <1>2, <1>8, <2>2 DEF Follows
    <3>2. c \in Members(f, h)
      BY <3>1 DEF OwnedMembers, Members
    <3>3. ~Free(f, h)
      BY <1>3, <1>8, <3>1, <3>2
    <3> QED BY <1>3, <3>1, <3>3
  <2> QED BY <2>1, <2>2
<1>9. Tracks(old, e, {})
  BY <1>6, <1>7, <1>8 DEF Tracks
<1> QED BY <1>9 DEF e

LEMMA RecoverFollows ==
  ASSUME NEW old \in DB, NEW f \in DB, NEW g \in Groups, Follows(old, f), OwnedMembers(f)
  PROVE  Follows(old, RecoverGroup(f, g)) /\ OwnedMembers(RecoverGroup(f, g))
<1> DEFINE e == RecoverGroup(f, g)
<1>1. /\ e.base = f.base /\ \A h \in Groups : Members(e, h) = Members(f, h)
  BY RecoverFields, SameViews DEF SameCharges, SameCounts
<1>2. /\ \A c \in Clients : e.enable[c] =
           (f.enable[c] \/ (~Depleted(f, g) /\ c \in Members(f, g) /\ f.owned[g][c]))
      /\ \A h \in Groups, c \in Clients : e.owned[h][c] =
           (f.owned[h][c] /\ ~(h = g /\ ~Depleted(f, g)))
  BY RecoverFields
<1> HIDE DEF e
<1>3. OwnedMembers(e)
  BY <1>1, <1>2 DEF OwnedMembers
<1>4. \A c \in Clients : old.enable[c] => e.enable[c]
  BY <1>2 DEF Follows
<1>5. ASSUME NEW c \in Clients, e.enable[c], ~old.enable[c] PROVE \E h \in Groups : old.owned[h][c]
  <2>1. CASE f.enable[c]
    BY <1>5, <2>1 DEF Follows
  <2>2. CASE ~f.enable[c]
    BY <1>2, <1>5, <2>2 DEF Follows
  <2> QED BY <2>1, <2>2
<1>6. ASSUME NEW h \in Groups, NEW c \in Clients, ~e.enable[c], e.owned[h][c]
      PROVE  \E k \in Groups : old.owned[k][c]
  BY <1>2, <1>6 DEF Follows
<1>7. ASSUME NEW h \in Groups, NEW c \in Clients, ~e.enable[c], old.owned[h][c], c \in Members(e, h)
      PROVE  \E k \in Groups : e.owned[k][c]
  <2>1. ~f.enable[c]
    BY <1>2, <1>7
  <2>2. PICK k \in Groups : f.owned[k][c]
    BY <1>1, <1>7, <2>1 DEF Follows
  <2>3. c \in Members(f, k)
    BY <2>2 DEF OwnedMembers, Members
  <2>4. ~(k = g /\ ~Depleted(f, g))
    BY <1>2, <1>7, <2>2, <2>3
  <2> QED BY <1>2, <2>2, <2>4
<1>8. Follows(old, e)
  BY <1>4, <1>5, <1>6, <1>7 DEF Follows
<1> QED BY <1>3, <1>8 DEF e

\* The three ways an operation ends, each with the history it writes.
LEMMA FollowOwners ==
  ASSUME NEW d \in DB, NEW old \in DB, NEW f \in DB, Owners(d, reason), Follows(old, f),
         old.owned = d.owned, \A c \in Clients : ~old.enable[c] => ~d.enable[c],
         Live(f) \subseteq Live(d), NoneExpired(f)
  PROVE  Owners(f, Reasons(old, f, {}))
<1>1. Tracks(old, f, {})
  BY FollowTracks
<1> QED BY <1>1, TrackOwners

LEMMA EnforceOwners ==
  ASSUME NEW d \in DB, NEW old \in DB, NEW f \in DB, Owners(d, reason), Follows(old, f),
         old.owned = d.owned, \A c \in Clients : ~old.enable[c] => ~d.enable[c],
         Live(f) \subseteq Live(d), NoneExpired(f)
  PROVE  Owners(Enforce(f), Reasons(old, Enforce(f), {}))
<1>1. Tracks(old, Enforce(f), {})
  BY EnforceTracks
<1>2. Live(Enforce(f)) \subseteq Live(d) /\ NoneExpired(Enforce(f))
  BY EnforceFields, SameViews DEF SameCharges, NoneExpired
<1> QED BY <1>1, <1>2, TrackOwners

LEMMA ReconcileOwners ==
  ASSUME NEW d \in DB, NEW old \in DB, NEW f \in DB, Owners(d, reason), Follows(old, f),
         old.owned = d.owned, \A c \in Clients : ~old.enable[c] => ~d.enable[c],
         Live(f) \subseteq Live(d), NoneExpired(f), OwnedMembers(f)
  PROVE  Owners(ReconcileEnabled(f), Reasons(old, ReconcileEnabled(f), {}))
<1>1. Tracks(old, ReconcileEnabled(f), {})
  BY ReconcileTracks
<1>2. Live(ReconcileEnabled(f)) \subseteq Live(d) /\ NoneExpired(ReconcileEnabled(f))
  BY ReconcileFields, SameViews DEF SameCharges, NoneExpired
<1> QED BY <1>1, <1>2, TrackOwners

----------------------------------------------------------------------------
(***************************************************************************)
(* The invariant, action by action.                                        *)
(***************************************************************************)

Renamings == [from : Groups, to : Groups \cup {None}]

Updates == [pc : {"shares", "group", "judge"}, client : Clients, enable : BOOLEAN,
            group : Groups \cup {None}, was : BOOLEAN, from : Groups \cup {None}]

Types ==
    /\ workload \in Workloads
    /\ db \in DB
    /\ consumed \in [Groups -> Nat]
    /\ renaming = None \/ renaming \in Renamings
    /\ apart \in SUBSET Groups

\* An edit of a client is under way only where edits happen.
Editing == updating = None \/ (updating \in Updates /\ "update" \in workload.kinds)

\* No renewal, no edit of a quota, no rename.
Plain == workload.kinds \cap {"renew", "config", "rename"} = {}

Inv ==
    /\ Types
    /\ Editing
    /\ OwnedMembers(db)
    /\ Plain => Charges(db, consumed, apart) /\ renaming = None
    /\ OwnershipExact => Owners(db, reason)

\* What a step of an action has to keep.
Keeps ==
    /\ workload' = workload
    /\ db' \in DB
    /\ consumed' \in [Groups -> Nat]
    /\ renaming' = None \/ renaming' \in Renamings
    /\ apart' \in SUBSET Groups
    /\ OwnedMembers(db')
    /\ Plain => Charges(db', consumed', apart') /\ renaming' = None
    /\ OwnershipExact => Owners(db', reason')

LEMMA WorkloadFacts ==
  ASSUME Types
  PROVE  workload.groups \subseteq Groups /\ workload.quotas \subseteq Nat
BY GroupQuotaAssumption DEF Types

LEMMA AstrayGroups ==
  \A c : Astray(c) \subseteq Groups
BY DEF Astray

LEMMA AddTrafficKeeps ==
  ASSUME Inv, NEW c \in Clients, AddTraffic(c, 1)
  PROVE  Keeps
<1>0. db \in DB /\ OwnedMembers(db) /\ c \in Live(db) /\ consumed \in [Groups -> Nat]
  BY DEF Inv, Types, AddTraffic
<1>1. db' = Polled(db, c, 1) /\ reason' = Reasons(db, db', {})
  BY DEF AddTraffic, Commit, Polled
<1>2. PolledTo(db, c, 1, db')
  BY <1>0, <1>1, PollFields
<1>3. /\ db' \in DB /\ db'.enable = db.enable /\ db'.expired = db.expired
      /\ \A x \in Clients \ {c} : db'.used[x] = db.used[x]
      /\ \A g \in Groups, x \in Clients : db.base[g][x] # None => db'.base[g][x] = db.base[g][x]
      /\ \A g \in Groups, x \in Clients : db'.owned[g][x] =>
           db.owned[g][x] /\ ~(g = db.group[c] /\ x = c /\ db.base[g][x] = None)
      /\ \A g \in Groups, x \in Clients : db.base[g][x] # None /\ db.owned[g][x] => db'.owned[g][x]
  BY <1>2 DEF PolledTo
<1>4. OwnedMembers(db')
  BY <1>0, <1>3 DEF OwnedMembers
<1>5. consumed' = [g \in Groups |-> IF g = db.group[c] /\ db.quota[g] # None THEN consumed[g] + 1
                                    ELSE consumed[g]]
  BY DEF AddTraffic
<1>6. consumed' \in [Groups -> Nat]
  BY <1>0, <1>5
<1>7. Plain => Charges(db', consumed', apart') /\ renaming' = None
  <2> HAVE Plain
  <2>1. Charges(db, consumed, apart) /\ renaming = None
    BY DEF Inv
  <2>2. apart' = apart \cup Astray(c) /\ renaming' = None /\ 1 \in Nat
    BY <2>1 DEF AddTraffic
  <2>3. \A g \in Groups \ apart' : db.base[g][c] # None => db.group[c] = g
    BY <2>2 DEF Astray, Members
  <2>4. apart \subseteq apart'
    BY <2>2
  <2>5. Charges(Polled(db, c, 1), consumed', apart')
    BY <1>0, <1>5, <2>1, <2>2, <2>3, <2>4, PollCharges
  <2> QED BY <1>1, <2>2, <2>5
<1>8. OwnershipExact => Owners(db', reason')
  <2> HAVE OwnershipExact
  <2>1. Owners(db, reason)
    BY DEF Inv
  <2>2. Follows(db, db')
    BY <1>0, <1>3 DEF Follows, OwnedMembers
  <2>3. Live(db') \subseteq Live(db)
    BY <1>0, <1>3 DEF Live
  <2>4. NoneExpired(db')
    BY <1>3, <2>1 DEF Owners, NoneExpired
  <2> QED BY <1>0, <1>1, <1>3, <2>1, <2>2, <2>3, <2>4, FollowOwners
<1>9. apart' \in SUBSET Groups
  BY AstrayGroups DEF AddTraffic, Inv, Types
<1> QED BY <1>3, <1>4, <1>6, <1>7, <1>8, <1>9 DEF Keeps, AddTraffic, Inv, Types

LEMMA MaintainKeeps ==
  ASSUME Inv, NEW R, Maintain(R)
  PROVE  Keeps
<1> DEFINE f == Renew(db, R)
<1>0. db \in DB /\ OwnedMembers(db) /\ consumed' = consumed /\ renaming' = renaming
      /\ apart' = apart
  BY DEF Inv, Types, Maintain
<1>1. db' = Enforce(f) /\ reason' = Reasons(db, db', {})
  BY DEF Maintain, Commit
<1>2. /\ f \in DB /\ f.base = db.base /\ f.owned = db.owned
      /\ R = {} => SameCharges(db, f) /\ f.enable = db.enable
  BY <1>0, RenewFields
<1>r. "renew" \notin workload.kinds => R = {}
  BY DEF Maintain
<1> HIDE DEF f
<1>3. db' \in DB /\ SameCharges(f, db')
  BY <1>1, <1>2, EnforceFields
<1>4. OwnedMembers(db')
  <2>1. OwnedMembers(f)
    BY <1>0, <1>2 DEF OwnedMembers
  <2> QED BY <1>1, <1>2, <2>1, OwnedEnforce
<1>5. Plain => Charges(db', consumed', apart') /\ renaming' = None
  <2> HAVE Plain
  <2>1. Charges(db, consumed, apart) /\ renaming = None
    BY DEF Inv
  <2>2. R = {}
    BY <1>r DEF Plain
  <2>3. SameCounts(db, db')
    BY <1>2, <1>3, <2>2 DEF SameCharges, SameCounts
  <2> QED BY <1>0, <1>3, <2>1, <2>3, ChargesSame
<1>6. OwnershipExact => Owners(db', reason')
  <2> HAVE OwnershipExact
  <2>1. Owners(db, reason)
    BY DEF Inv
  <2>2. SameCharges(db, f) /\ f.enable = db.enable
    BY <1>2, <1>r DEF OwnershipExact
  <2>3. Follows(db, f)
    BY <1>2, <2>2 DEF Follows
  <2>4. Live(f) \subseteq Live(db)
    BY <1>0, <1>2, <2>2, SameViews DEF SameCharges
  <2>5. NoneExpired(f)
    BY <2>1, <2>2 DEF Owners, NoneExpired, SameCharges
  <2> QED BY <1>0, <1>1, <1>2, <2>1, <2>3, <2>4, <2>5, EnforceOwners
<1> QED BY <1>0, <1>3, <1>4, <1>5, <1>6 DEF Keeps, Maintain, Inv, Types

LEMMA ExpireKeeps ==
  ASSUME Inv, NEW c \in Clients, Expire(c)
  PROVE  Keeps
<1>0. db \in DB /\ OwnedMembers(db) /\ consumed' = consumed /\ renaming' = renaming /\ apart' = apart
      /\ reason' = reason /\ workload' = workload
  BY DEF Inv, Types, Expire, Op
<1>1. db' = [db EXCEPT !.expired[c] = TRUE]
  BY DEF Expire
<1>2. db' \in DB /\ SameCounts(db, db') /\ db'.owned = db.owned
  BY <1>0, <1>1 DEF DB, SameCounts
<1>3. OwnedMembers(db')
  BY <1>0, <1>2 DEF OwnedMembers, SameCounts
<1>4. Plain => Charges(db', consumed', apart') /\ renaming' = None
  BY <1>0, <1>2, ChargesSame DEF Inv
<1>5. ~OwnershipExact
  BY DEF OwnershipExact, Expire, Op
<1> QED BY <1>0, <1>2, <1>3, <1>4, <1>5 DEF Keeps, Inv, Types

\* A client switched on by the operator or by a reset of its traffic.
LEMMA OnFacts ==
  ASSUME NEW d \in DB, NEW c \in Clients
  PROVE  /\ On(d, {c}) \in DB /\ On(d, {c}).owned = d.owned
         /\ On(d, {c}).enable[c]
         /\ \A x \in Clients \ {c} : On(d, {c}).enable[x] = d.enable[x]
         /\ \A x \in Clients : ~On(d, {c}).enable[x] => ~d.enable[x]
<1>1. /\ On(d, {c}) \in DB /\ On(d, {c}).owned = d.owned
      /\ \A x \in Clients : On(d, {c}).enable[x] = (d.enable[x] \/ x \in {c})
  BY SwitchOn
<1>2. \A x \in Clients : d.enable[x] \in BOOLEAN
  BY DEF DB
<1> QED BY <1>1, <1>2

LEMMA ZeroedFollows ==
  ASSUME Inv, NEW c \in Live(db)
  PROVE  /\ Zeroed(c) \in DB /\ OwnedMembers(Zeroed(c))
         /\ Follows(On(db, {c}), Zeroed(c))
         /\ Live(Zeroed(c)) \subseteq Live(db)
         /\ Zeroed(c).expired = db.expired
<1> DEFINE e == Zeroed(c)
           old == On(db, {c})
<1>0. db \in DB /\ OwnedMembers(db) /\ c \in Clients /\ None \notin Nat
  BY GroupQuotaAssumption DEF Inv, Types, Live
<1>1. /\ old \in DB /\ old.owned = db.owned /\ old.enable[c]
      /\ \A x \in Clients \ {c} : old.enable[x] = db.enable[x]
  BY <1>0, OnFacts
<1>2. ZeroedTo(db, c, e)
  BY <1>0, ZeroedFields
<1> HIDE DEF e, old
<1>3. /\ e \in DB /\ e.expired = db.expired /\ e.owned = db.owned /\ e.enable[c]
      /\ \A x \in Clients \ {c} : e.used[x] = db.used[x] /\ e.enable[x] = db.enable[x]
      /\ \A g \in Groups, x \in Clients : db.base[g][x] # None => e.base[g][x] # None
  BY <1>0, <1>2 DEF ZeroedTo
<1>4. OwnedMembers(e)
  BY <1>0, <1>3 DEF OwnedMembers
<1>5. Live(e) \subseteq Live(db)
  BY <1>0, <1>3 DEF Live
<1>6. Follows(old, e)
  BY <1>1, <1>3 DEF Follows
<1> QED BY <1>3, <1>4, <1>5, <1>6 DEF e, old

LEMMA ResetTrafficKeeps ==
  ASSUME Inv, NEW c \in Clients, ResetTraffic(c)
  PROVE  Keeps
<1> DEFINE f == Zeroed(c)
           old == On(db, {c})
<1>0. /\ db \in DB /\ OwnedMembers(db) /\ consumed \in [Groups -> Nat]
      /\ c \in Live(db) /\ workload' = workload
      /\ consumed' = consumed /\ renaming' = renaming /\ apart' = apart \cup Astray(c)
  BY DEF Inv, Types, ResetTraffic, Op
<1>1. db' = ReconcileEnabled(f) /\ reason' = Reasons(old, db', {})
  BY DEF ResetTraffic, On
<1>2. /\ f \in DB /\ OwnedMembers(f) /\ Follows(old, f)
      /\ Live(f) \subseteq Live(db) /\ f.expired = db.expired
  BY <1>0, ZeroedFollows
<1>3. old \in DB /\ old.owned = db.owned /\ \A x \in Clients : ~old.enable[x] => ~db.enable[x]
  BY <1>0, OnFacts
<1>4. Plain => Charges(f, consumed, apart')
  BY <1>0, ZeroCharges DEF Inv
<1> HIDE DEF f, old
<1>5. db' \in DB /\ SameCharges(f, db') /\ OwnedMembers(db')
  BY <1>1, <1>2, ReconcileFields, OwnedReconcile
<1>6. Plain => Charges(db', consumed', apart') /\ renaming' = None
  BY <1>0, <1>2, <1>4, <1>5, ChargesSame DEF SameCharges, Inv
<1>7. OwnershipExact => Owners(db', reason')
  <2> HAVE OwnershipExact
  <2>1. Owners(db, reason)
    BY DEF Inv
  <2>2. NoneExpired(f)
    BY <1>2, <2>1 DEF Owners, NoneExpired
  <2> QED BY <1>0, <1>1, <1>2, <1>3, <2>1, <2>2, ReconcileOwners
<1>8. apart' \in SUBSET Groups
  BY <1>0, AstrayGroups DEF Inv, Types
<1> QED BY <1>0, <1>5, <1>6, <1>7, <1>8 DEF Keeps, Inv, Types

LEMMA ResetClientTrafficKeeps ==
  ASSUME Inv, NEW c \in Clients, ResetClientTraffic(c)
  PROVE  Keeps
<1> DEFINE z == Zeroed(c)
           f == MarkOwned(z)
           old == On(db, {c})
<1>0. /\ db \in DB /\ OwnedMembers(db) /\ consumed \in [Groups -> Nat]
      /\ c \in Live(db) /\ workload' = workload
      /\ consumed' = consumed /\ renaming' = renaming /\ apart' = apart \cup Astray(c)
  BY DEF Inv, Types, ResetClientTraffic, Op
<1>1. (db' = Enforce(f) \/ db' = f) /\ reason' = Reasons(old, db', {})
  BY DEF ResetClientTraffic, On
<1>2. /\ z \in DB /\ OwnedMembers(z) /\ Follows(old, z)
      /\ Live(z) \subseteq Live(db) /\ z.expired = db.expired
  BY <1>0, ZeroedFollows
<1>3. old \in DB /\ old.owned = db.owned /\ \A x \in Clients : ~old.enable[x] => ~db.enable[x]
  BY <1>0, OnFacts
<1>4. Plain => Charges(z, consumed, apart')
  BY <1>0, ZeroCharges DEF Inv
<1> HIDE DEF z, old
<1>5. /\ f \in DB /\ SameCharges(z, f) /\ OwnedMembers(f) /\ Follows(old, f)
      /\ Live(f) \subseteq Live(db) /\ f.expired = db.expired
  <2>1. f \in DB /\ SameCharges(z, f)
    BY <1>2, MarkFields
  <2>2. Live(f) = Live(z) /\ f.expired = z.expired
    BY <1>2, <2>1, SameViews DEF SameCharges
  <2> QED BY <1>2, <1>3, <2>1, <2>2, OwnedMark, MarkFollows
<1> HIDE DEF f
<1>6. db' \in DB /\ SameCounts(f, db') /\ OwnedMembers(db')
  BY <1>1, <1>5, EnforceFields, OwnedEnforce DEF SameCharges, SameCounts
<1>7. Plain => Charges(db', consumed', apart') /\ renaming' = None
  <2>1. SameCounts(z, db')
    BY <1>5, <1>6 DEF SameCharges, SameCounts
  <2> QED BY <1>0, <1>2, <1>4, <1>6, <2>1, ChargesSame DEF Inv
<1>8. OwnershipExact => Owners(db', reason')
  <2> HAVE OwnershipExact
  <2>1. Owners(db, reason)
    BY DEF Inv
  <2>2. NoneExpired(f)
    BY <1>5, <2>1 DEF Owners, NoneExpired
  <2>3. CASE db' = f
    BY <1>0, <1>1, <1>3, <1>5, <2>1, <2>2, <2>3, FollowOwners
  <2>4. CASE db' = Enforce(f)
    BY <1>0, <1>1, <1>3, <1>5, <2>1, <2>2, <2>4, EnforceOwners
  <2> QED BY <1>1, <2>3, <2>4
<1>9. apart' \in SUBSET Groups
  BY <1>0, AstrayGroups DEF Inv, Types
<1> QED BY <1>0, <1>6, <1>7, <1>8, <1>9 DEF Keeps, Inv, Types

LEMMA SetEnableKeeps ==
  ASSUME Inv, NEW c \in Clients, NEW b \in BOOLEAN, SetEnable(c, b)
  PROVE  Keeps
<1>0. /\ db \in DB /\ OwnedMembers(db) /\ consumed \in [Groups -> Nat]
      /\ c \in Live(db) /\ workload' = workload
      /\ consumed' = consumed /\ renaming' = renaming /\ apart' = apart
  BY DEF Inv, Types, SetEnable, Op
<1>1. CASE b
  <2> DEFINE f == On(db, {c})
  <2>1. db' = Enforce(f) /\ reason' = Reasons(f, db', {})
    BY <1>1 DEF SetEnable, On
  <2>2. f \in DB /\ f.owned = db.owned /\ \A x \in Clients : ~f.enable[x] => ~db.enable[x]
    BY <1>0, OnFacts
  <2>3. SameCharges(db, f)
    BY <1>0, SwitchOn
  <2> HIDE DEF f
  <2>4. OwnedMembers(f)
    BY <1>0, <2>2, <2>3 DEF OwnedMembers, SameCharges, SameCounts
  <2>5. db' \in DB /\ SameCharges(f, db') /\ OwnedMembers(db')
    BY <2>1, <2>2, <2>4, EnforceFields, OwnedEnforce
  <2>6. Plain => Charges(db', consumed', apart') /\ renaming' = None
    <3>1. SameCounts(db, db')
      BY <2>3, <2>5 DEF SameCharges, SameCounts
    <3> QED BY <1>0, <2>5, <3>1, ChargesSame DEF Inv
  <2>7. OwnershipExact => Owners(db', reason')
    <3> HAVE OwnershipExact
    <3>1. Owners(db, reason)
      BY DEF Inv
    <3>2. NoneExpired(f)
      BY <2>3, <3>1 DEF Owners, NoneExpired, SameCharges
    <3>3. Follows(f, f)
      BY DEF Follows
    <3>4. Live(f) \subseteq Live(db)
      BY <1>0, <2>2, <2>3, SameViews DEF SameCharges
    <3> QED BY <1>0, <2>1, <2>2, <3>1, <3>2, <3>3, <3>4, EnforceOwners
  <2> QED BY <1>0, <2>5, <2>6, <2>7 DEF Keeps, Inv, Types
<1>2. CASE ~b
  <2> DEFINE o == ClearOwnership(db, {c})
  <2>1. db' = Off(o, {c}) /\ reason' = Reasons(db, db', {c})
    BY <1>2 DEF SetEnable, Off
  <2>2. /\ o \in DB /\ SameCharges(db, o) /\ o.enable = db.enable
        /\ \A g \in Groups, x \in Clients : o.owned[g][x] = (db.owned[g][x] /\ x \notin {c})
    BY <1>0, ClearFields
  <2> HIDE DEF o
  <2>3. /\ db' \in DB /\ SameCharges(o, db') /\ db'.owned = o.owned
        /\ \A x \in Clients : db'.enable[x] = (o.enable[x] /\ x \notin {c})
    BY <2>1, <2>2, SwitchOff
  <2>4. SameCharges(db, db')
    BY <2>2, <2>3 DEF SameCharges, SameCounts
  <2>5. OwnedMembers(db')
    BY <1>0, <2>2, <2>3, <2>4 DEF OwnedMembers, SameCharges, SameCounts
  <2>6. Plain => Charges(db', consumed', apart') /\ renaming' = None
    BY <1>0, <2>3, <2>4, ChargesSame DEF Inv, SameCharges
  <2>7. OwnershipExact => Owners(db', reason')
    <3> HAVE OwnershipExact
    <3>1. Owners(db, reason)
      BY DEF Inv
    <3>2. NoneExpired(db')
      BY <2>4, <3>1 DEF Owners, NoneExpired, SameCharges
    <3>3. Live(db') \subseteq Live(db)
      BY <1>0, <2>3, <2>4, SameViews DEF SameCharges
    <3>4. \A x \in Clients \ {c} : /\ db'.enable[x] = db.enable[x]
                                   /\ \A g \in Groups : db'.owned[g][x] = db.owned[g][x]
      <4>1. \A x \in Clients : /\ db.enable[x] \in BOOLEAN
                               /\ \A g \in Groups : db.owned[g][x] \in BOOLEAN
        BY <1>0 DEF DB
      <4> QED BY <2>2, <2>3, <4>1
    <3>5. \A g \in Groups : ~db'.owned[g][c]
      BY <2>2, <2>3
    <3>6. Tracks(db, db', {c})
      <4>1. \A x \in Live(db') : x \in Clients
        BY DEF Live
      <4> QED BY <3>4, <3>5, <4>1 DEF Tracks
    <3> QED BY <2>1, <3>1, <3>2, <3>3, <3>6, TrackOwners
  <2> QED BY <1>0, <2>3, <2>5, <2>6, <2>7 DEF Keeps, Inv, Types
<1> QED BY <1>1, <1>2

\* A switch, whichever way.
LEMMA SwitchFields ==
  ASSUME NEW d \in DB, NEW C, NEW b \in BOOLEAN
  PROVE  /\ Switch(d, C, b) \in DB /\ SameCharges(d, Switch(d, C, b))
         /\ Switch(d, C, b).owned = d.owned
<1> DEFINE y == [c \in Clients |-> IF c \in C THEN b ELSE d.enable[c]]
<1>1. y \in [Clients -> BOOLEAN]
  BY DEF DB
<1>2. Switch(d, C, b) = [d EXCEPT !.enable = y]
  BY DEF Switch
<1> HIDE DEF y
<1> QED BY <1>1, <1>2 DEF DB, SameCharges, SameCounts

LEMMA ChangeKeeps ==
  ASSUME NEW d \in DB, NEW c \in Clients, NEW old \in Groups \cup {None},
         NEW g \in Groups \cup {None}, OwnedMembers(d)
  PROVE  LET e == SetGroup(ChangeMembership(d, c, old, g), c, g)
         IN  /\ e \in DB /\ OwnedMembers(e)
             /\ e.used = d.used /\ e.enable = d.enable /\ e.expired = d.expired
             /\ Follows(d, e)
             /\ \A cons \in [Groups -> Nat], K \in SUBSET Groups :
                  Charges(d, cons, K) => Charges(e, cons, K)
<1> DEFINE m == ChangeMembership(d, c, old, g)
           e == SetGroup(m, c, g)
<1>1. /\ m \in DB /\ OwnedMembers(m)
      /\ m.used = d.used /\ m.enable = d.enable /\ m.expired = d.expired
      /\ Follows(d, m)
  <2>1. CASE g = old
    <3>1. m = d
      BY <2>1 DEF ChangeMembership
    <3>2. Follows(d, d)
      BY DEF Follows
    <3> HIDE DEF m
    <3> QED BY <3>1, <3>2
  <2>2. CASE g # old
    <3>1. Changed(d, c, old, g, m)
      BY <2>2, ChangeFields
    <3> HIDE DEF m
    <3>2. /\ m \in DB /\ m.used = d.used /\ m.enable = d.enable /\ m.expired = d.expired
          /\ \A h \in Groups, x \in Clients \ {c} :
                m.base[h][x] = d.base[h][x] /\ m.owned[h][x] = d.owned[h][x]
          /\ \A h \in Groups : m.base[h][c] =
                IF h = old THEN None
                ELSE IF h = g /\ c \in Live(d) /\ d.base[h][c] = None THEN d.used[c]
                ELSE d.base[h][c]
          /\ \A h \in Groups : m.owned[h][c] =
                (d.owned[h][c] /\ h # old /\ ~(h = g /\ c \in Live(d) /\ d.base[h][c] = None))
      BY <3>1 DEF Changed
    <3>3. \A h \in Groups, x \in Clients :
            /\ m.owned[h][x] => d.owned[h][x] /\ m.base[h][x] # None
            /\ d.owned[h][x] /\ x \in Members(m, h) => m.owned[h][x]
      <4> TAKE h \in Groups, x \in Clients
      <4>1. d.owned[h][x] => d.base[h][x] # None
        BY DEF OwnedMembers
      <4>2. CASE x # c
        BY <3>2, <4>1, <4>2
      <4>3. CASE x = c
        BY <3>2, <4>1, <4>3 DEF Members
      <4> QED BY <4>2, <4>3
    <3>4. OwnedMembers(m)
      BY <3>3 DEF OwnedMembers
    <3>5. Follows(d, m)
      BY <3>2, <3>3 DEF Follows
    <3> QED BY <3>2, <3>4, <3>5
  <2> QED BY <2>1, <2>2
<1>2. \A cons \in [Groups -> Nat], K \in SUBSET Groups : Charges(d, cons, K) => Charges(m, cons, K)
  BY ChangeCharges
<1> HIDE DEF m
<1>3. e \in DB /\ SameCharges(m, e) /\ e.enable = m.enable /\ e.owned = m.owned
  BY <1>1, SetGroupFields
<1> HIDE DEF e
<1>4. OwnedMembers(e) /\ Follows(d, e)
  BY <1>1, <1>3 DEF OwnedMembers, Follows, Members, SameCharges, SameCounts
<1>5. \A cons \in [Groups -> Nat], K \in SUBSET Groups : Charges(d, cons, K) => Charges(e, cons, K)
  BY <1>1, <1>2, <1>3, ChargesSame DEF SameCharges
<1> QED BY <1>1, <1>3, <1>4, <1>5 DEF e, m, SameCharges, SameCounts

\* The steps of an edit: the switch and the name of the group ...
LEMMA UpdateSharesKeeps ==
  ASSUME Inv, UpdateShares
  PROVE  Keeps
<1> DEFINE c == updating.client
           s == Switch(db, {c}, updating.enable)
           n == SetGroup(s, c, updating.group)
<1>0. /\ db \in DB /\ OwnedMembers(db) /\ updating \in Updates /\ ~OwnershipExact
      /\ workload' = workload /\ consumed' = consumed /\ renaming' = renaming /\ apart' = apart
  BY DEF Inv, Types, Editing, UpdateShares, OwnershipExact
<1>1. db' = s \/ db' = n
  BY DEF UpdateShares
<1>2. updating.client \in Clients /\ updating.enable \in BOOLEAN /\ updating.group \in Groups \cup {None}
  BY <1>0 DEF Updates
<1>3. s \in DB /\ SameCharges(db, s) /\ s.owned = db.owned
  BY <1>0, <1>2, SwitchFields
<1> HIDE DEF s
<1>4. n \in DB /\ SameCharges(s, n) /\ n.owned = s.owned
  BY <1>2, <1>3, SetGroupFields
<1> HIDE DEF n
<1>5. db' \in DB /\ SameCounts(db, db') /\ db'.owned = db.owned
  BY <1>1, <1>3, <1>4 DEF SameCharges, SameCounts
<1>6. OwnedMembers(db')
  BY <1>0, <1>5 DEF OwnedMembers, SameCounts
<1>7. Plain => Charges(db', consumed', apart') /\ renaming' = None
  BY <1>0, <1>5, ChargesSame DEF Inv
<1> QED BY <1>0, <1>5, <1>6, <1>7 DEF Keeps, Inv, Types

\* ... the memberships ...
LEMMA UpdateGroupKeeps ==
  ASSUME Inv, UpdateGroup
  PROVE  Keeps
<1> DEFINE f == SetGroup(ChangeMembership(db, updating.client, updating.from, updating.group),
                         updating.client, updating.group)
<1>0. /\ db \in DB /\ OwnedMembers(db) /\ consumed \in [Groups -> Nat] /\ apart \in SUBSET Groups
      /\ updating \in Updates /\ ~OwnershipExact
      /\ workload' = workload /\ consumed' = consumed /\ renaming' = renaming /\ apart' = apart
  BY DEF Inv, Types, Editing, UpdateGroup, OwnershipExact
<1>1. db' = f
  BY DEF UpdateGroup, Commit
<1>2. updating.client \in Clients /\ updating.from \in Groups \cup {None} /\ updating.group \in Groups \cup {None}
  BY <1>0 DEF Updates
<1>3. /\ f \in DB /\ OwnedMembers(f)
      /\ \A cons \in [Groups -> Nat], K \in SUBSET Groups : Charges(db, cons, K) => Charges(f, cons, K)
  BY <1>0, <1>2, ChangeKeeps
<1> HIDE DEF f
<1>4. Plain => Charges(db', consumed', apart') /\ renaming' = None
  BY <1>0, <1>1, <1>3 DEF Inv
<1> QED BY <1>0, <1>1, <1>3, <1>4 DEF Keeps, Inv, Types

\* ... and the judgement of the groups.
LEMMA UpdateEndsKeeps ==
  ASSUME Inv, UpdateEnds
  PROVE  Keeps
<1> DEFINE C == {updating.client}
           j == Enforce(db)
           y == ClearOwnership(db, C)
           z == ClearOwnership(j, C)
<1>0. /\ db \in DB /\ OwnedMembers(db) /\ ~OwnershipExact
      /\ workload' = workload /\ consumed' = consumed /\ renaming' = renaming /\ apart' = apart
  BY DEF Inv, Types, Editing, UpdateEnds, OwnershipExact
<1>1. db' = db \/ db' = j \/ db' = y \/ db' = z
  BY DEF UpdateEnds, Commit
<1>2. j \in DB /\ SameCharges(db, j) /\ OwnedMembers(j)
  BY <1>0, EnforceFields, OwnedEnforce
<1> HIDE DEF j
<1>3. /\ y \in DB /\ SameCharges(db, y)
      /\ \A h \in Groups, x \in Clients : y.owned[h][x] => db.owned[h][x]
  BY <1>0, ClearFields
<1>4. /\ z \in DB /\ SameCharges(j, z)
      /\ \A h \in Groups, x \in Clients : z.owned[h][x] => j.owned[h][x]
  BY <1>2, ClearFields
<1> HIDE DEF y, z
<1>5. OwnedMembers(y) /\ OwnedMembers(z)
  BY <1>0, <1>2, <1>3, <1>4, OwnedSame DEF SameCharges, SameCounts
<1>6. db' \in DB /\ SameCounts(db, db') /\ OwnedMembers(db')
  BY <1>0, <1>1, <1>2, <1>3, <1>4, <1>5 DEF SameCharges, SameCounts
<1>7. Plain => Charges(db', consumed', apart') /\ renaming' = None
  BY <1>0, <1>6, ChargesSame DEF Inv
<1> QED BY <1>0, <1>6, <1>7 DEF Keeps, Inv, Types

LEMMA AddToGroupKeeps ==
  ASSUME Inv, NEW c \in Clients, NEW g \in Groups \cup {None}, AddToGroup(c, g)
  PROVE  Keeps
<1> DEFINE d == SetGroup(ChangeMembership(db, c, db.group[c], g), c, g)
<1>0. /\ db \in DB /\ OwnedMembers(db) /\ consumed \in [Groups -> Nat]
      /\ apart \in SUBSET Groups /\ db.group[c] \in Groups \cup {None}
      /\ c \in Live(db) /\ workload' = workload
      /\ consumed' = consumed /\ renaming' = renaming /\ apart' = apart
  BY DEF Inv, Types, AddToGroup, Op, DB
<1>1. db' = Enforce(d) /\ reason' = Reasons(db, db', {})
  BY DEF AddToGroup, Commit
<1>2. /\ d \in DB /\ OwnedMembers(d) /\ d.used = db.used /\ d.expired = db.expired
      /\ Follows(db, d)
      /\ \A cons \in [Groups -> Nat], K \in SUBSET Groups : Charges(db, cons, K) => Charges(d, cons, K)
  BY <1>0, ChangeKeeps
<1>3. Plain => Charges(d, consumed, apart)
  BY <1>0, <1>2 DEF Inv
<1> HIDE DEF d
<1>4. db' \in DB /\ SameCharges(d, db') /\ OwnedMembers(db')
  BY <1>1, <1>2, EnforceFields, OwnedEnforce
<1>5. Plain => Charges(db', consumed', apart') /\ renaming' = None
  BY <1>0, <1>2, <1>3, <1>4, ChargesSame DEF SameCharges, Inv
<1>6. OwnershipExact => Owners(db', reason')
  <2> HAVE OwnershipExact
  <2>1. Owners(db, reason)
    BY DEF Inv
  <2>2. NoneExpired(d) /\ Live(d) \subseteq Live(db)
    BY <1>2, <2>1 DEF Owners, NoneExpired, Live
  <2> QED BY <1>0, <1>1, <1>2, <2>1, <2>2, EnforceOwners
<1> QED BY <1>0, <1>4, <1>5, <1>6 DEF Keeps, Inv, Types

LEMMA DeleteClientKeeps ==
  ASSUME Inv, NEW c \in Clients, DeleteClient(c)
  PROVE  Keeps
<1>0. /\ db \in DB /\ OwnedMembers(db) /\ consumed \in [Groups -> Nat]
      /\ workload' = workload /\ consumed' = consumed /\ renaming' = renaming /\ apart' = apart
  BY DEF Inv, Types, DeleteClient, Op
<1>1. db' = Deleted(db, c) /\ reason' = Reasons(db, db', {})
  BY DEF DeleteClient, Commit, Deleted
<1>2. DeletedTo(db, c, db')
  BY <1>0, <1>1, DeleteFields
<1>3. /\ db' \in DB /\ db'.enable = db.enable
      /\ db'.used[c] = None /\ \A x \in Clients \ {c} : db'.used[x] = db.used[x]
      /\ \A x \in Clients : db'.expired[x] => db.expired[x]
      /\ \A h \in Groups, x \in Clients : db'.base[h][x] = IF x = c THEN None ELSE db.base[h][x]
      /\ \A h \in Groups, x \in Clients : db'.owned[h][x] = (db.owned[h][x] /\ x # c)
  BY <1>2 DEF DeletedTo
<1>4. OwnedMembers(db')
  <2>1. ASSUME NEW h \in Groups, NEW x \in Clients, db'.owned[h][x]
        PROVE  db'.base[h][x] # None
    <3>1. db.owned[h][x] /\ x # c
      BY <1>3, <2>1
    <3>2. db.base[h][x] # None
      BY <1>0, <3>1 DEF OwnedMembers
    <3> QED BY <1>3, <3>1, <3>2
  <2> QED BY <2>1 DEF OwnedMembers
<1>5. Plain => Charges(db', consumed', apart') /\ renaming' = None
  BY <1>0, <1>1, DeleteCharges DEF Inv
<1>6. OwnershipExact => Owners(db', reason')
  <2> HAVE OwnershipExact
  <2>1. Owners(db, reason)
    BY DEF Inv
  <2>2. NoneExpired(db') /\ Live(db') \subseteq Live(db)
    BY <1>3, <2>1 DEF Owners, NoneExpired, Live
  <2>3. Follows(db, db')
    BY <1>3 DEF Follows, Members
  <2> QED BY <1>0, <1>1, <1>3, <2>1, <2>2, <2>3, FollowOwners
<1> QED BY <1>0, <1>3, <1>4, <1>5, <1>6 DEF Keeps, Inv, Types

\* UpsertConfig: the database before it is reconciled.
Recovered(d, g, q) ==
    IF d.quota[g] = None THEN Configured(d, g, q) ELSE RecoverGroup(Configured(d, g, q), g)

LEMMA RecoveredFollows ==
  ASSUME NEW d \in DB, NEW g \in Groups, NEW q \in Nat, OwnedMembers(d)
  PROVE  /\ Recovered(d, g, q) \in DB /\ OwnedMembers(Recovered(d, g, q))
         /\ Follows(d, Recovered(d, g, q))
         /\ Recovered(d, g, q).used = d.used /\ Recovered(d, g, q).expired = d.expired
<1> DEFINE k == Configured(d, g, q)
<1>1. ConfiguredTo(d, k)
  BY ConfigFields
<1> HIDE DEF k
<1>2. /\ k \in DB /\ k.used = d.used /\ k.enable = d.enable /\ k.expired = d.expired
      /\ \A h \in Groups, x \in Clients :
           /\ k.owned[h][x] => d.owned[h][x]
           /\ d.base[h][x] # None => k.base[h][x] # None /\ k.owned[h][x] = d.owned[h][x]
  BY <1>1 DEF ConfiguredTo
<1>3. OwnedMembers(k) /\ Follows(d, k)
  BY <1>2 DEF OwnedMembers, Follows
<1>4. CASE d.quota[g] = None
  <2>1. Recovered(d, g, q) = k
    BY <1>4 DEF Recovered, k
  <2> QED BY <1>2, <1>3, <2>1
<1>5. CASE d.quota[g] # None
  <2>1. Recovered(d, g, q) = RecoverGroup(k, g)
    BY <1>5 DEF Recovered, k
  <2>2. /\ RecoverGroup(k, g) \in DB
        /\ RecoverGroup(k, g).used = k.used /\ RecoverGroup(k, g).expired = k.expired
    BY <1>2, RecoverFields DEF SameCharges, SameCounts
  <2> QED BY <1>2, <1>3, <2>1, <2>2, RecoverFollows
<1> QED BY <1>4, <1>5

LEMMA UpsertConfigKeeps ==
  ASSUME Inv, NEW g \in Groups, NEW q \in Nat, UpsertConfig(g, q)
  PROVE  Keeps
<1> DEFINE f == Recovered(db, g, q)
<1>0. /\ db \in DB /\ OwnedMembers(db) /\ consumed \in [Groups -> Nat]
      /\ workload' = workload /\ renaming' = renaming /\ apart' = apart
  BY DEF Inv, Types, UpsertConfig, Op
<1>1. db' = ReconcileEnabled(f) /\ reason' = Reasons(db, db', {})
  BY DEF UpsertConfig, Commit, Recovered, Configured
<1>2. /\ f \in DB /\ OwnedMembers(f) /\ Follows(db, f)
      /\ f.used = db.used /\ f.expired = db.expired
  BY <1>0, RecoveredFollows
<1> HIDE DEF f
<1>3. db' \in DB /\ OwnedMembers(db')
  BY <1>1, <1>2, ReconcileFields, OwnedReconcile
<1>4. consumed' \in [Groups -> Nat]
  BY <1>0 DEF UpsertConfig
<1>5. ~Plain
  BY DEF Plain, UpsertConfig, Op
<1>6. OwnershipExact => Owners(db', reason')
  <2> HAVE OwnershipExact
  <2>1. Owners(db, reason)
    BY DEF Inv
  <2>2. NoneExpired(f) /\ Live(f) \subseteq Live(db)
    BY <1>2, <2>1 DEF Owners, NoneExpired, Live
  <2> QED BY <1>0, <1>1, <1>2, <2>1, <2>2, ReconcileOwners
<1> QED BY <1>0, <1>3, <1>4, <1>5, <1>6 DEF Keeps, Inv, Types

\* Reset: the clients the group owns.
OwnedBy(d, g) == {c \in Members(d, g) \cap Live(d) : d.owned[g][c]}

LEMMA ResetGroupKeeps ==
  ASSUME Inv, NEW g \in Groups, ResetGroup(g)
  PROVE  Keeps
<1> DEFINE d == Restarted(db, g)
           C == OwnedBy(db, g)
<1>0. /\ db \in DB /\ OwnedMembers(db) /\ consumed \in [Groups -> Nat]
      /\ workload' = workload /\ renaming' = renaming /\ apart' = apart \ {g}
      /\ consumed' = [consumed EXCEPT ![g] = 0]
  BY DEF Inv, Types, ResetGroup, Op
<1>1. db' = On(d, C) /\ reason' = Reasons(db, db', {})
  BY DEF ResetGroup, Commit, Restarted, OwnedBy, On
<1>2. RestartedTo(db, g, d)
  BY <1>0, RestartFields
<1>3. Plain => Charges(d, consumed', apart')
  BY <1>0, RestartCharges DEF Inv
<1>c. \A x \in Clients : x \in C <=> x \in Members(db, g) /\ x \in Live(db) /\ db.owned[g][x]
  BY DEF OwnedBy
<1> HIDE DEF d, C
<1>4. /\ d \in DB /\ d.used = db.used /\ d.enable = db.enable /\ d.expired = db.expired
      /\ \A h \in Groups \ {g} : d.base[h] = db.base[h] /\ d.owned[h] = db.owned[h]
      /\ \A x \in Clients :
           /\ d.base[g][x] = IF x \in Members(db, g) \cap Live(db) THEN db.used[x] ELSE db.base[g][x]
           /\ d.owned[g][x] = (db.owned[g][x] /\ x \notin Live(db))
  BY <1>2 DEF RestartedTo
<1>5. /\ db' \in DB /\ SameCharges(d, db') /\ db'.owned = d.owned
      /\ \A x \in Clients : db'.enable[x] = (d.enable[x] \/ x \in C)
  BY <1>1, <1>4, SwitchOn
<1>6. OwnedMembers(db')
  <2>1. ASSUME NEW h \in Groups, NEW x \in Clients, d.owned[h][x]
        PROVE  d.base[h][x] # None
    <3>1. CASE h # g
      BY <1>0, <1>4, <2>1, <3>1 DEF OwnedMembers
    <3>2. CASE h = g
      <4>1. db.owned[g][x] /\ x \notin Live(db)
        BY <1>4, <2>1, <3>2
      <4>2. db.base[g][x] # None
        BY <1>0, <4>1 DEF OwnedMembers
      <4> QED BY <1>4, <3>2, <4>1, <4>2
    <3> QED BY <3>1, <3>2
  <2> QED BY <1>5, <2>1 DEF OwnedMembers, SameCharges, SameCounts
<1>7. Plain => Charges(db', consumed', apart') /\ renaming' = None
  BY <1>0, <1>3, <1>4, <1>5, ChargesSame DEF SameCharges, Inv
<1>8. OwnershipExact => Owners(db', reason')
  <2> HAVE OwnershipExact
  <2>1. Owners(db, reason)
    BY DEF Inv
  <2>2. NoneExpired(db') /\ Live(db') \subseteq Live(db)
    BY <1>4, <1>5, <2>1 DEF Owners, NoneExpired, Live, SameCharges, SameCounts
  <2>3. Follows(db, db')
    <3>1. \A x \in Clients : db'.enable[x] = (db.enable[x] \/ x \in C)
      BY <1>4, <1>5
    <3>2. \A h \in Groups, x \in Clients : db'.owned[h][x] => db.owned[h][x]
      BY <1>4, <1>5
    <3>3. ASSUME NEW h \in Groups, NEW x \in Clients, ~db'.enable[x], db.owned[h][x],
                 x \in Members(db', h)
          PROVE  db'.owned[h][x]
      <4>1. CASE h # g
        BY <1>4, <1>5, <3>3, <4>1
      <4>2. CASE h = g
        <5>1. x \in Members(db, g)
          BY <1>0, <3>3, <4>2 DEF OwnedMembers, Members
        <5>2. x \notin Live(db)
          BY <1>c, <3>1, <3>3, <4>2, <5>1
        <5> QED BY <1>4, <1>5, <3>3, <4>2, <5>2
      <4> QED BY <4>1, <4>2
    <3>4. \A x \in Clients : db'.enable[x] /\ ~db.enable[x] => db.owned[g][x]
      BY <1>c, <3>1
    <3> QED BY <3>1, <3>2, <3>3, <3>4 DEF Follows
  <2> QED BY <1>0, <1>1, <1>5, <2>1, <2>2, <2>3, FollowOwners
<1> QED BY <1>0, <1>5, <1>6, <1>7, <1>8 DEF Keeps, Inv, Types

LEMMA RenameGroupKeeps ==
  ASSUME Inv, NEW g \in Groups, NEW new \in Groups \cup {None}, RenameGroup(g, new)
  PROVE  Keeps
<1>0. /\ db \in DB /\ OwnedMembers(db) /\ consumed \in [Groups -> Nat]
      /\ workload' = workload /\ renaming' \in Renamings /\ apart' = apart /\ g # new
      /\ new # None => Members(db, new) = {}
  BY DEF Inv, Types, RenameGroup, Op, Renamings
<1>1. db' = RenameQuota(db, g, new) /\ reason' = Reasons(db, db', {})
  BY DEF RenameGroup, Commit
<1>2. RenamedTo(db, g, new, db')
  BY <1>0, <1>1, RenameFields
<1>3. /\ db' \in DB /\ db'.used = db.used /\ db'.enable = db.enable /\ db'.expired = db.expired
      /\ \A x \in Clients : db'.base[g][x] = None /\ ~db'.owned[g][x]
      /\ new # None => db'.base[new] = db.base[g] /\ db'.owned[new] = db.owned[g]
      /\ \A h \in Groups \ {g, new} : db'.base[h] = db.base[h] /\ db'.owned[h] = db.owned[h]
  BY <1>2 DEF RenamedTo
<1>4. ASSUME NEW h \in Groups, NEW x \in Clients, db'.owned[h][x]
      PROVE  db'.base[h][x] # None /\ \E k \in Groups : db.owned[k][x]
  <2>1. h # g
    BY <1>3, <1>4
  <2>2. CASE h = new
    <3>1. new # None
      BY <2>2, GroupQuotaAssumption
    <3> QED BY <1>0, <1>3, <1>4, <2>2, <3>1 DEF OwnedMembers
  <2>3. CASE h # new
    BY <1>0, <1>3, <1>4, <2>1, <2>3 DEF OwnedMembers
  <2> QED BY <2>2, <2>3
<1>5. OwnedMembers(db')
  BY <1>4 DEF OwnedMembers
<1>6. consumed' \in [Groups -> Nat]
  <2>1. consumed' = [h \in Groups |-> CASE h = g -> 0 [] h = new -> consumed[g]
                                        [] OTHER -> consumed[h]]
    BY DEF RenameGroup
  <2>2. \A h \in Groups : consumed[h] \in Nat
    BY <1>0
  <2> QED BY <1>0, <2>1, <2>2
<1>7. ~Plain
  BY DEF Plain, RenameGroup, Op
<1>8. OwnershipExact => Owners(db', reason')
  <2> HAVE OwnershipExact
  <2>1. Owners(db, reason)
    BY DEF Inv
  <2>2. NoneExpired(db') /\ Live(db') \subseteq Live(db)
    BY <1>3, <2>1 DEF Owners, NoneExpired, Live
  <2>3. ASSUME NEW h \in Groups, NEW x \in Clients, db.owned[h][x], x \in Members(db', h)
        PROVE  db'.owned[h][x]
    <3>1. h # g
      BY <1>3, <2>3 DEF Members
    <3>2. CASE h = new
      <4>1. new # None
        BY <3>2, GroupQuotaAssumption
      <4>2. db.base[h][x] # None
        BY <1>0, <2>3 DEF OwnedMembers
      <4> QED BY <1>0, <3>2, <4>1, <4>2 DEF Members
    <3>3. CASE h # new
      BY <1>3, <2>3, <3>1, <3>3
    <3> QED BY <3>2, <3>3
  <2>4. Follows(db, db')
    BY <1>3, <1>4, <2>3 DEF Follows
  <2> QED BY <1>0, <1>1, <1>3, <2>1, <2>2, <2>4, FollowOwners
<1> QED BY <1>0, <1>3, <1>5, <1>6, <1>7, <1>8 DEF Keeps, Inv, Types

LEMMA RenameClientsKeeps ==
  ASSUME Inv, RenameClients
  PROVE  Keeps
<1> DEFINE gs == [c \in Clients |-> IF db.group[c] = renaming.from THEN renaming.to ELSE db.group[c]]
<1>0. /\ db \in DB /\ OwnedMembers(db) /\ renaming \in Renamings
      /\ consumed' = consumed /\ workload' = workload /\ reason' = reason /\ renaming' = None
      /\ apart' = apart
  BY DEF Inv, Types, RenameClients
<1>1. db' = [db EXCEPT !.group = gs]
  BY DEF RenameClients
<1>2. gs \in [Clients -> Groups \cup {None}]
  <2>1. renaming.to \in Groups \cup {None}
    BY <1>0 DEF Renamings
  <2> QED BY <1>0, <2>1 DEF DB
<1> HIDE DEF gs
<1>3. /\ db' \in DB /\ db'.used = db.used /\ db'.enable = db.enable /\ db'.expired = db.expired
      /\ db'.base = db.base /\ db'.owned = db.owned
  BY <1>0, <1>1, <1>2 DEF DB
<1>4. OwnedMembers(db')
  BY <1>0, <1>3 DEF OwnedMembers
<1>5. ~Plain
  BY DEF RenameClients, Inv
<1>6. OwnershipExact => Owners(db', reason')
  BY <1>0, <1>3 DEF Inv, Owners, NoneExpired, Live
<1> QED BY <1>0, <1>3, <1>4, <1>5, <1>6 DEF Keeps, Inv, Types

LEMMA StepKeeps ==
  ASSUME Inv, Next
  PROVE  Keeps
<1>0. workload.groups \subseteq Groups /\ workload.quotas \subseteq Nat
  BY WorkloadFacts DEF Inv
<1>1. ASSUME NEW c \in Clients, ClientStep(c) PROVE Keeps
  <2>1. CASE AddTraffic(c, 1)
    BY <2>1, AddTrafficKeeps
  <2>2. CASE Expire(c)
    BY <2>2, ExpireKeeps
  <2>3. CASE ResetTraffic(c)
    BY <2>3, ResetTrafficKeeps
  <2>4. CASE ResetClientTraffic(c)
    BY <2>4, ResetClientTrafficKeeps
  <2>5. CASE DeleteClient(c)
    BY <2>5, DeleteClientKeeps
  <2>6. CASE \E e \in BOOLEAN : SetEnable(c, e)
    BY <2>6, SetEnableKeeps
  <2>7. CASE \E e \in BOOLEAN, g \in workload.groups \cup {None} : UpdateClient(c, e, g)
    BY <2>7 DEF UpdateClient, Op, Inv, Types, Keeps
  <2>8. CASE \E g \in workload.groups \cup {None} : AddToGroup(c, g)
    BY <1>0, <2>8, AddToGroupKeeps
  <2> QED BY <1>1, <2>1, <2>2, <2>3, <2>4, <2>5, <2>6, <2>7, <2>8 DEF ClientStep
<1>2. ASSUME NEW g \in workload.groups, GroupStep(g) PROVE Keeps
  <2>1. CASE \E q \in workload.quotas : UpsertConfig(g, q)
    BY <1>0, <2>1, UpsertConfigKeeps
  <2>2. CASE ResetGroup(g)
    BY <1>0, <2>2, ResetGroupKeeps
  <2>3. CASE \E new \in workload.groups \cup {None} : RenameGroup(g, new)
    BY <1>0, <2>3, RenameGroupKeeps
  <2> QED BY <1>2, <2>1, <2>2, <2>3 DEF GroupStep
<1>3. ASSUME NEW R \in SUBSET Clients, Maintain(R) PROVE Keeps
  BY <1>3, MaintainKeeps
<1>4. CASE MaintainFails
  BY <1>4 DEF MaintainFails, Inv, Types, Keeps
<1>5. CASE RenameClients
  BY <1>5, RenameClientsKeeps
<1>6. CASE UpdateShares
  BY <1>6, UpdateSharesKeeps
<1>7. CASE UpdateGroup
  BY <1>7, UpdateGroupKeeps
<1>8. CASE UpdateEnds
  BY <1>8, UpdateEndsKeeps
<1>9. CASE UpdateFails
  BY <1>9 DEF UpdateFails, Inv, Types, Keeps
<1> QED BY <1>1, <1>2, <1>3, <1>4, <1>5, <1>6, <1>7, <1>8, <1>9 DEF Next

LEMMA StepEditing ==
  ASSUME Inv, Next
  PROVE  Editing'
<1>0. workload.groups \subseteq Groups /\ Editing /\ db \in DB /\ workload' = workload
  BY StepKeeps, WorkloadFacts DEF Inv, Types, Keeps
<1>1. ASSUME NEW c \in Clients, NEW e \in BOOLEAN, NEW g \in workload.groups \cup {None},
             UpdateClient(c, e, g)
      PROVE  Editing'
  <2>1. db.enable[c] \in BOOLEAN /\ db.group[c] \in Groups \cup {None} /\ g \in Groups \cup {None}
    BY <1>0 DEF DB
  <2>2. updating' \in Updates
    BY <1>1, <2>1 DEF UpdateClient, Updates
  <2> QED BY <1>0, <1>1, <2>2 DEF Editing, UpdateClient, Op
<1>2. ASSUME updating # None, updating' = [updating EXCEPT !.pc = "group"]
             \/ updating' = [updating EXCEPT !.pc = "judge"]
      PROVE  Editing'
  <2>1. updating \in Updates
    BY <1>0, <1>2 DEF Editing
  <2>2. updating' \in Updates
    BY <1>2, <2>1 DEF Updates
  <2> QED BY <1>0, <1>2, <2>2 DEF Editing
<1>3. CASE UpdateShares
  BY <1>2, <1>3 DEF UpdateShares
<1>4. CASE UpdateGroup
  BY <1>2, <1>4 DEF UpdateGroup
<1>5. CASE updating' = None \/ updating' = updating
  BY <1>0, <1>5 DEF Editing
<1>6. ASSUME NEW c \in Clients, ClientStep(c) PROVE Editing'
  <2>1. CASE \E e \in BOOLEAN, g \in workload.groups \cup {None} : UpdateClient(c, e, g)
    BY <1>1, <2>1
  <2>2. CASE ~\E e \in BOOLEAN, g \in workload.groups \cup {None} : UpdateClient(c, e, g)
    <3>1. updating' = updating
      BY <1>6, <2>2 DEF ClientStep, AddTraffic, Expire, ResetTraffic, ResetClientTraffic,
                        DeleteClient, SetEnable, AddToGroup
    <3> QED BY <1>5, <3>1
  <2> QED BY <2>1, <2>2
<1>7. ASSUME NEW g \in workload.groups, GroupStep(g) PROVE Editing'
  <2>1. updating' = updating
    BY <1>7 DEF GroupStep, UpsertConfig, ResetGroup, RenameGroup
  <2> QED BY <1>5, <2>1
<1>8. ASSUME NEW R \in SUBSET Clients, Maintain(R) PROVE Editing'
  <2>1. updating' = updating
    BY <1>8 DEF Maintain
  <2> QED BY <1>5, <2>1
<1>9. CASE MaintainFails \/ RenameClients
  <2>1. updating' = updating
    BY <1>9 DEF MaintainFails, RenameClients
  <2> QED BY <1>5, <2>1
<1>10. CASE UpdateEnds \/ UpdateFails
  <2>1. updating' = None
    BY <1>10 DEF UpdateEnds, UpdateFails
  <2> QED BY <1>5, <2>1
<1> QED BY <1>3, <1>4, <1>6, <1>7, <1>8, <1>9, <1>10 DEF Next

----------------------------------------------------------------------------
(***************************************************************************)
(* Theorems.                                                               *)
(***************************************************************************)

LEMMA InitInv == Init => Inv
<1> SUFFICES ASSUME Init PROVE Inv
  OBVIOUS
<1>0. workload \in Workloads /\ workload.groups \subseteq Groups /\ workload.quotas \subseteq Nat
  BY GroupQuotaAssumption DEF Init
<1>1. PICK group \in [Clients -> workload.groups \cup {None}],
           quota \in [workload.groups -> workload.quotas] :
         db = [used |-> [c \in Clients |-> 0],
               enable |-> [c \in Clients |-> TRUE],
               expired |-> [c \in Clients |-> FALSE],
               group |-> group,
               base |-> [g \in Groups |-> [c \in Clients |-> None]],
               owned |-> [g \in Groups |-> [c \in Clients |-> FALSE]],
               quota |-> [g \in Groups |-> IF g \in DOMAIN quota THEN quota[g] ELSE None],
               carry |-> [g \in Groups |-> 0]]
  BY DEF Init
<1>2. group \in [Clients -> Groups \cup {None}]
  BY <1>0
<1>3. [g \in Groups |-> IF g \in DOMAIN quota THEN quota[g] ELSE None] \in [Groups -> Nat \cup {None}]
  BY <1>0
<1>4. db \in DB
  <2>1. [c \in Clients |-> TRUE] \in [Clients -> BOOLEAN] /\ [c \in Clients |-> FALSE] \in [Clients -> BOOLEAN]
    OBVIOUS
  <2>2. [g \in Groups |-> [c \in Clients |-> FALSE]] \in [Groups -> [Clients -> BOOLEAN]]
    OBVIOUS
  <2>3. [g \in Groups |-> [c \in Clients |-> None]] \in [Groups -> [Clients -> Nat \cup {None}]]
    OBVIOUS
  <2>4. [c \in Clients |-> 0] \in [Clients -> Nat \cup {None}] /\ [g \in Groups |-> 0] \in [Groups -> Nat]
    OBVIOUS
  <2> QED BY <1>1, <1>2, <1>3, <2>1, <2>2, <2>3, <2>4 DEF DB
<1>5. /\ \A c \in Clients : db.enable[c] /\ ~db.expired[c]
      /\ \A g \in Groups, c \in Clients : db.base[g][c] = None /\ ~db.owned[g][c]
      /\ \A g \in Groups : db.carry[g] = 0
  BY <1>1
<1>6. consumed = [g \in Groups |-> 0] /\ renaming = None /\ updating = None
      /\ apart = {}
  BY DEF Init
<1>7. Types
  BY <1>0, <1>4, <1>6 DEF Types
<1>8. Charges(db, consumed, apart)
  <2>1. \A g \in Groups, c \in Clients : Share(db, g, c) = 0
    BY <1>5 DEF Share, Members
  <2>2. \A g \in Groups : Used(db, g) = 0
    BY <1>4, <1>5, <2>1, NoShares
  <2> QED BY <1>5, <1>6, <2>2 DEF Charges
<1>9. OwnedMembers(db) /\ Owners(db, reason)
  BY <1>5 DEF OwnedMembers, Owners, NoneExpired, Live
<1>10. Editing
  BY <1>6 DEF Editing
<1> QED BY <1>6, <1>7, <1>8, <1>9, <1>10 DEF Inv

LEMMA NextInv == Inv /\ [Next]_vars => Inv'
<1> SUFFICES ASSUME Inv, [Next]_vars PROVE Inv'
  OBVIOUS
<1>1. CASE Next
  <2>1. Keeps
    BY <1>1, StepKeeps
  <2>2. workload' = workload /\ (Plain' <=> Plain) /\ (OwnershipExact' <=> OwnershipExact)
    BY <2>1 DEF Keeps, Plain, OwnershipExact
  <2>3. Types' /\ Editing'
    BY <1>1, <2>1, StepEditing DEF Keeps, Types, Inv
  <2> QED BY <2>1, <2>2, <2>3 DEF Keeps, Inv
<1>2. CASE UNCHANGED vars
  BY <1>2 DEF vars, Inv, Types, Editing, Plain, OwnershipExact
<1> QED BY <1>1, <1>2

LEMMA AlwaysInv == Spec => []Inv
BY InitInv, NextInv, PTL DEF Spec

\* The claim of ApplyClientDeltas and PreserveReset (groupquota.go:152, :589) for
\* any number of clients, groups and operations: without renewals, edits of the
\* quota and renames, a configured group is charged exactly the bytes its members
\* carried since its last reset, whatever resets, deletes, moves and edits its
\* clients, except a group whose row a half-done ClientService.Update left behind
\* when the client's counter moved (apart).
THEOREM ChargedExactlyOnce == Spec => []ChargedOnce
<1>1. Inv => ChargedOnce
  BY DEF Inv, Plain, Charges, ChargedOnce
<1> QED BY <1>1, AlwaysInv, PTL

\* The claim of DepletedEmails (groupquota.go:355): a client that a group switched
\* off is marked by a group as long as it is a member, so that a reset finds it.
THEOREM GroupDisablesAreMarked == Spec => []ReleasedByReset
<1>1. Inv => ReleasedByReset
  BY DEF Inv, Owners, ReleasedByReset
<1> QED BY <1>1, AlwaysInv, PTL

\* The claim of recoverGroup (groupquota.go:406): configuring or resetting a group
\* enables no client that the operator, or a move out of a group, left disabled.
THEOREM RecoveryTouchesOwnOnly == Spec => RevivesOnlyOwn
<1> DEFINE A == \A g \in Groups :
                  /\ OwnershipExact
                  /\ (\E q \in Quotas : UpsertConfig(g, q)) \/ ResetGroup(g)
                  => \A c \in Clients : ~db.enable[c] /\ db'.enable[c] => reason[c] = "group"
<1>1. Inv => A
  <2> SUFFICES ASSUME Inv, NEW g \in Groups, OwnershipExact,
                      (\E q \in Quotas : UpsertConfig(g, q)) \/ ResetGroup(g),
                      NEW c \in Clients, ~db.enable[c], db'.enable[c]
               PROVE  reason[c] = "group"
    BY DEF A
  <2>0. db \in DB /\ OwnedMembers(db) /\ Owners(db, reason)
    BY DEF Inv, Types
  <2> SUFFICES \E h \in Groups : db.owned[h][c]
    BY <2>0 DEF Owners
  <2>1. ASSUME NEW q \in Quotas, UpsertConfig(g, q) PROVE \E h \in Groups : db.owned[h][c]
    <3> DEFINE f == Recovered(db, g, q)
    <3>1. db' = ReconcileEnabled(f)
      BY <2>1 DEF UpsertConfig, Commit, Recovered, Configured
    <3>2. q \in Nat
      BY GroupQuotaAssumption
    <3>3. f \in DB /\ Follows(db, f)
      BY <2>0, <3>2, RecoveredFollows
    <3> HIDE DEF f
    <3>4. CASE f.enable[c]
      BY <3>3, <3>4 DEF Follows
    <3>5. CASE ~f.enable[c]
      <4>1. \A x \in Clients : ReconcileEnabled(f).enable[x] =
              ( \/ f.enable[x] /\ x \notin DepletedEmails(f)
                \/ \E h \in Groups : Free(f, h) /\ x \in Members(f, h) /\ f.owned[h][x])
        BY <3>3, ReconcileFields, Zenon
      <4>2. \E h \in Groups : f.owned[h][c]
        BY <3>1, <3>5, <4>1
      <4> QED BY <3>3, <3>5, <4>2 DEF Follows
    <3> QED BY <3>4, <3>5
  <2>2. ASSUME ResetGroup(g) PROVE \E h \in Groups : db.owned[h][c]
    <3> DEFINE d == Restarted(db, g)
               C == OwnedBy(db, g)
    <3>1. db' = On(d, C)
      BY <2>2 DEF ResetGroup, Commit, Restarted, OwnedBy, On
    <3>2. RestartedTo(db, g, d)
      BY <2>0, RestartFields
    <3>3. c \in C => db.owned[g][c]
      BY DEF OwnedBy
    <3> HIDE DEF d, C
    <3>4. d \in DB /\ d.enable = db.enable
      BY <3>2 DEF RestartedTo
    <3>5. db'.enable[c] = (d.enable[c] \/ c \in C)
      BY <3>1, <3>4, SwitchOn
    <3> QED BY <3>3, <3>4, <3>5
  <2> QED BY <2>1, <2>2
<1>2. RevivesOnlyOwn <=> [][A]_vars
  BY DEF RevivesOnlyOwn
<1> HIDE DEF A
<1> QED BY <1>1, <1>2, AlwaysInv, PTL

\* The claim of addTrafficLocked (inbound_traffic.go:81): the maintenance that ends
\* a tick leaves no member of a depleted group enabled, also one it has renewed.
THEOREM TickEnforces == Spec => EnforcedAfterTick
<1> DEFINE A == tick /\ ~tick' /\ db # db'
                  => \A g \in Groups : Depleted(db', g)
                       => \A c \in Members(db', g) \cap Live(db') : ~db'.enable[c]
<1>1. Inv /\ [Next]_vars => A
  <2> SUFFICES ASSUME Inv, [Next]_vars, tick, ~tick', db # db',
                      NEW g \in Groups, Depleted(db', g),
                      NEW c \in Members(db', g) \cap Live(db')
               PROVE  ~db'.enable[c]
    BY DEF A
  <2>0. db \in DB
    BY DEF Inv, Types
  <2>1. PICK R \in SUBSET Clients : Maintain(R)
    <3>1. Next
      BY DEF vars
    <3>2. ~(\E x \in Clients : ClientStep(x))
      BY DEF ClientStep, AddTraffic, Expire, ResetTraffic, ResetClientTraffic, DeleteClient,
             SetEnable, UpdateClient, AddToGroup
    <3>3. ~(\E h \in workload.groups : GroupStep(h))
      BY DEF GroupStep, UpsertConfig, ResetGroup, RenameGroup
    <3>4. ~MaintainFails /\ ~RenameClients
      BY DEF MaintainFails, RenameClients
    <3>5. ~UpdateShares /\ ~UpdateGroup /\ ~UpdateEnds /\ ~UpdateFails
      BY DEF UpdateShares, UpdateGroup, UpdateEnds, UpdateFails
    <3> QED BY <3>1, <3>2, <3>3, <3>4, <3>5 DEF Next
  <2> DEFINE f == Renew(db, R)
  <2>2. db' = Enforce(f)
    BY <2>1 DEF Maintain, Commit
  <2>3. f \in DB
    BY <2>0, RenewFields
  <2> HIDE DEF f
  <2>4. /\ db' \in DB /\ SameCharges(f, db')
        /\ \A x \in Clients : db'.enable[x] = (f.enable[x] /\ x \notin DepletedEmails(f) \cup Expired(f))
    BY <2>2, <2>3, EnforceFields
  <2>5. Depleted(f, g) /\ c \in Members(f, g) /\ c \in Live(f)
    BY <2>3, <2>4, SameViews DEF SameCharges
  <2>6. f.enable[c] => c \in DepletedEmails(f)
    BY <2>5 DEF DepletedEmails
  <2> QED BY <2>4, <2>5, <2>6 DEF Live
<1>2. EnforcedAfterTick <=> [][A]_vars
  BY DEF EnforcedAfterTick
<1> HIDE DEF A
<1> QED BY <1>1, <1>2, AlwaysInv, PTL DEF Spec

=============================================================================
