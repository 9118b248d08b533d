------------------------- MODULE TuicTrafficProofs -------------------------
(***************************************************************************)
(* Proofs about TuicTraffic, for any connections, user objects and edits   *)
(* and any amount of traffic, faults and stops.                            *)
(***************************************************************************)
EXTENDS TuicTraffic, SumTheorems, TLAPS

Bound == [user : Users, open : BOOLEAN]

\* A user object with a session is never free, so the object a session counts in
\* is not given to another user; and outside UpdateUsers an open session's user
\* is the current one.
SessionInv ==
    /\ user \in [Users -> {"free", "current", "retired"}]
    /\ conn \in [Conns -> Bound \cup {None}]
    /\ cutting \in BOOLEAN
    /\ \A c \in Conns : conn[c] # None =>
         /\ user[conn[c].user] # "free"
         /\ ~cutting /\ conn[c].open => user[conn[c].user] = "current"

\* Steps that leave users, connections and the cut alone.
LEMMA SameSessions ==
  ASSUME SessionInv, UNCHANGED <<user, conn, cutting>> PROVE SessionInv'
  BY DEF SessionInv

\* Close ends every session.
LEMMA ClosedSessions ==
  ASSUME SessionInv, conn' = [c \in Conns |-> None],
         user' \in [Users -> {"free", "current", "retired"}], cutting' \in BOOLEAN
  PROVE  SessionInv'
  BY DEF SessionInv

\* Ensure ends every session, or replaces the users and begins the cut.
LEMMA EnsureStep ==
  ASSUME SessionInv, NEW inst, Ensure(inst) PROVE SessionInv'
<1>1. CASE Remove
  <2>1. /\ conn' = [c \in Conns |-> None] /\ user' = [u \in Users |-> "free"]
        /\ cutting' = cutting
    BY <1>1 DEF Remove, StopAndDrain
  <2> QED BY <2>1, ClosedSessions DEF SessionInv
<1>2. CASE Restart(inst)
  <2>1. /\ conn' = [c \in Conns |-> None] /\ cutting' = cutting
        /\ \/ user' = [w \in Users |-> IF w = AnyUser THEN "current" ELSE "free"]
           \/ user' = [w \in Users |-> "free"]
    BY <1>2 DEF Restart, StopAndDrain
  <2>2. user' \in [Users -> {"free", "current", "retired"}]
    BY <2>1
  <2> QED BY <2>1, <2>2, ClosedSessions DEF SessionInv
<1>3. CASE SetUsers(inst)
  <2>1. PICK f \in Users : f = FreeUser /\ user[f] = "free"
    BY <1>3 DEF SetUsers, FreeUser
  <2>2. /\ user' = [w \in Users |-> IF w = f THEN "current"
                                   ELSE IF w \in Current THEN "retired" ELSE user[w]]
        /\ cutting' = TRUE /\ conn' = conn
    BY <1>3, <2>1 DEF SetUsers
  <2>3. user' \in [Users -> {"free", "current", "retired"}]
    BY <2>2 DEF SessionInv
  <2>4. ASSUME NEW c \in Conns, conn[c] # None PROVE user'[conn[c].user] # "free"
    <3>1. conn[c].user \in Users /\ user[conn[c].user] # "free"
      BY <2>4 DEF SessionInv, Bound
    <3> QED BY <2>2, <3>1
  <2> QED BY <2>2, <2>3, <2>4 DEF SessionInv
<1>4. CASE UNCHANGED <<server, pending, stray, faults>>
  BY <1>4, SameSessions DEF server
<1> QED BY <1>1, <1>2, <1>3, <1>4 DEF Ensure

\* A retired user is forgotten only when no session is left.
LEMMA PruneStep ==
  ASSUME SessionInv, Prune, UNCHANGED <<conn, cutting>> PROVE SessionInv'
<1> DEFINE gone == {u \in Retired : srv # None /\ srv.running /\ Sessions(u) = {}}
<1>1. user' = [u \in Users |-> IF u \in gone THEN "free" ELSE user[u]]
  BY DEF Prune
<1>2. user' \in [Users -> {"free", "current", "retired"}]
  BY <1>1 DEF SessionInv
<1>3. ASSUME NEW c \in Conns, conn[c] # None PROVE user'[conn[c].user] = user[conn[c].user]
  <2>1. conn[c].user \in Users
    BY <1>3 DEF SessionInv, Bound
  <2>2. c \in Sessions(conn[c].user)
    BY <1>3 DEF Sessions
  <2>3. conn[c].user \notin gone
    BY <2>2
  <2> HIDE DEF gone
  <2> QED BY <1>1, <2>1, <2>3
<1> QED BY <1>2, <1>3 DEF SessionInv

\* Sessions begin with the current user and end.
LEMMA ConnStep ==
  ASSUME SessionInv, NEW c \in Conns,
         Relay(c) \/ EndConn(c) \/ \E u \in Users : Authenticate(c, u)
  PROVE  SessionInv'
<1>1. CASE Relay(c)
  BY <1>1, SameSessions DEF Relay
<1>2. CASE EndConn(c)
  BY <1>2 DEF EndConn, SessionInv
<1>3. ASSUME NEW u \in Users, Authenticate(c, u) PROVE SessionInv'
  <2> DEFINE b == [user |-> u, open |-> TRUE]
  <2>1. /\ conn' = [conn EXCEPT ![c] = b] /\ UNCHANGED <<user, cutting>>
        /\ user[u] = "current"
    BY <1>3 DEF Authenticate, Current
  <2>2. b \in Bound /\ b.user = u
    BY DEF Bound
  <2> HIDE DEF b
  <2> QED BY <2>1, <2>2 DEF SessionInv
<1> QED BY <1>1, <1>2, <1>3

\* closeUserConns: what stays open belongs to the current user.
LEMMA CutStep ==
  ASSUME SessionInv, CloseUserConns PROVE SessionInv'
<1>1. /\ UNCHANGED user /\ cutting' = FALSE
      /\ conn' = [c \in Conns |-> IF conn[c] # None /\ conn[c].user \in Retired
                                    THEN [conn[c] EXCEPT !.open = FALSE] ELSE conn[c]]
  BY DEF CloseUserConns
<1>2. ASSUME NEW c \in Conns
      PROVE  /\ conn'[c] \in Bound \cup {None}
             /\ conn'[c] # None => /\ user[conn'[c].user] # "free"
                                   /\ conn'[c].open => user[conn'[c].user] = "current"
  <2>1. CASE conn[c] = None
    BY <1>1, <2>1 DEF SessionInv
  <2>2. CASE conn[c] # None
    <3>1. conn[c] \in Bound /\ conn[c].user \in Users
      BY <2>2 DEF SessionInv, Bound
    <3>2. CASE conn[c].user \in Retired
      <4>1. conn'[c] = [conn[c] EXCEPT !.open = FALSE]
        BY <1>1, <2>2, <3>2
      <4>2. conn'[c] \in Bound /\ ~conn'[c].open /\ conn'[c].user = conn[c].user
        BY <3>1, <4>1 DEF Bound
      <4> QED BY <2>2, <4>2 DEF SessionInv
    <3>3. CASE conn[c].user \notin Retired
      BY <1>1, <2>2, <3>1, <3>3 DEF SessionInv, Retired
    <3> QED BY <3>2, <3>3
  <2> QED BY <2>1, <2>2
<1>3. conn' \in [Conns -> Bound \cup {None}]
  BY <1>1, <1>2
<1> QED BY <1>1, <1>2, <1>3 DEF SessionInv

\* The steps of a run and of the shutdown.
LEMMA JobStepSessions ==
  ASSUME SessionInv, NEW p,
         \/ Lock(p) \/ ReplayDone(p) \/ ReplayFails(p) \/ RemoveFile(p)
         \/ (\E id \in DOMAIN journal : AddTuicTrafficBatch(p, id))
         \/ ReadDesired(p) \/ Reconcile(p) \/ Collect(p) \/ CollectEnds(p)
         \/ AddTraffic(p) \/ AddTrafficFails(p)
  PROVE  SessionInv'
<1>1. CASE Reconcile(p)
  BY <1>1, EnsureStep DEF Reconcile
<1>2. CASE CollectEnds(p)
  BY <1>2, PruneStep DEF CollectEnds
<1>3. CASE Lock(p) \/ ReplayDone(p) \/ ReplayFails(p) \/ RemoveFile(p) \/ Collect(p)
  BY <1>3, SameSessions DEF Lock, ReplayDone, ReplayFails, RemoveFile, Collect, server
<1>4. CASE ReadDesired(p) \/ AddTraffic(p) \/ AddTrafficFails(p)
  BY <1>4, SameSessions DEF ReadDesired, AddTraffic, AddTrafficFails, server
<1>5. CASE \E id \in DOMAIN journal : AddTuicTrafficBatch(p, id)
  BY <1>5, SameSessions DEF AddTuicTrafficBatch, server
<1> QED BY <1>1, <1>2, <1>3, <1>4, <1>5

\* The process ends with its sessions.
LEMMA EndStep ==
  ASSUME SessionInv, Exit \/ Crash PROVE SessionInv'
<1>1. /\ conn' = [c \in Conns |-> None] /\ user' = [u \in Users |-> "free"]
      /\ cutting' = FALSE
  BY DEF Exit, Crash, End, Down
<1> QED BY <1>1, ClosedSessions

\* SessionInv is inductive: sessions are tied to their users at every step.
THEOREM SessionInvariant == Spec => []SessionInv
<1>1. Init => SessionInv
  BY DEF Init, SessionInv
<1>2. SessionInv /\ [Next]_vars => SessionInv'
  <2> SUFFICES ASSUME SessionInv, [Next]_vars PROVE SessionInv'
    OBVIOUS
  <2>1. CASE UNCHANGED vars
    BY <2>1, SameSessions DEF vars, server
  <2>2. CASE AcceptFails \/ CronRun \/ Boot
    BY <2>2, SameSessions DEF AcceptFails, CronRun, Boot, server
  <2>3. ASSUME NEW r \in Rows, Edit(r) \/ Apply(r) PROVE SessionInv'
    <3>1. CASE Edit(r)
      BY <3>1, SameSessions DEF Edit, server
    <3>2. CASE Apply(r)
      BY <3>2, EnsureStep DEF Apply
    <3> QED BY <2>3, <3>1, <3>2
  <2>4. CASE StopAll
    <3>1. /\ conn' = [c \in Conns |-> None] /\ user' = [u \in Users |-> "free"]
          /\ cutting' = cutting
      BY <2>4 DEF StopAll, StopAndDrain
    <3> QED BY <3>1, ClosedSessions DEF SessionInv
  <2>5. ASSUME NEW r \in Runs, JobStep(r) PROVE SessionInv'
    BY <2>5, JobStepSessions DEF JobStep
  <2>6. CASE StopStep
    <3>1. CASE StoreBatch \/ StoreFails
      BY <3>1, SameSessions DEF StoreBatch, StoreFails, server
    <3> QED BY <2>6, <3>1, JobStepSessions, EndStep DEF StopStep
  <2>7. CASE Crash
    BY <2>7, EndStep
  <2> QED BY <2>1, <2>2, <2>3, <2>4, <2>5, <2>6, <2>7, ConnStep, CutStep DEF Next
<1> QED BY <1>1, <1>2, PTL DEF Spec

\* When UpdateUsers has returned, every open connection belongs to the current
\* user (auth.go:160, server.go:249), for any number of sessions that
\* authenticate, relay and end while users are replaced and collected.
THEOREM RevocationCuts == Spec => []RevokedIsCut
<1>1. SessionInv => RevokedIsCut
  BY DEF SessionInv, RevokedIsCut
<1> QED BY <1>1, SessionInvariant, PTL

----------------------------------------------------------------------------
\* The sum over the three processes.
LEMMA SumOfThree ==
  ASSUME NEW f, DOMAIN f = {"boot", "cron", "stop"}, \A p \in DOMAIN f : f[p] \in Nat
  PROVE  SumFunction(f) = f["boot"] + f["cron"] + f["stop"]
<1> DEFINE S1 == {"stop"}
           S2 == {"cron", "stop"}
           S3 == {"boot", "cron", "stop"}
<1>1. S2 = S1 \cup {"cron"} /\ S3 = S2 \cup {"boot"}
  OBVIOUS
<1>2. IsFiniteSet(S1) /\ IsFiniteSet(S2) /\ IsFiniteSet(S3)
  <2>1. IsFiniteSet(S1)
    BY FS_Singleton
  <2>2. IsFiniteSet(S1 \cup {"cron"})
    BY <2>1, FS_AddElement
  <2>3. IsFiniteSet(S2 \cup {"boot"})
    BY <1>1, <2>2, FS_AddElement
  <2> QED BY <1>1, <2>1, <2>2, <2>3
<1>3. S1 \ {"stop"} = {} /\ S2 \ {"cron"} = S1 /\ S3 \ {"boot"} = S2
  OBVIOUS
<1>4. SumFunctionOnSet(f, S1) = f["stop"] + SumFunctionOnSet(f, S1 \ {"stop"})
  BY <1>2, SumRemove
<1>5. SumFunctionOnSet(f, S2) = f["cron"] + SumFunctionOnSet(f, S2 \ {"cron"})
  BY <1>2, SumRemove
<1>6. SumFunctionOnSet(f, S3) = f["boot"] + SumFunctionOnSet(f, S3 \ {"boot"})
  BY <1>2, SumRemove
<1>7. f["boot"] \in Nat /\ f["cron"] \in Nat /\ f["stop"] \in Nat
  OBVIOUS
<1>8. SumFunction(f) = SumFunctionOnSet(f, S3)
  BY DEF SumFunction
<1>9. SumFunctionOnSet(f, {}) = 0
  BY SumEmpty
<1> HIDE DEF S1, S2, S3
<1>10. SumFunctionOnSet(f, S1) = f["stop"]
  BY <1>3, <1>4, <1>7, <1>9
<1>11. SumFunctionOnSet(f, S2) = f["cron"] + f["stop"]
  BY <1>3, <1>5, <1>10
<1>12. SumFunction(f) = f["boot"] + (f["cron"] + f["stop"])
  BY <1>3, <1>6, <1>8, <1>11
<1> QED BY <1>7, <1>12

----------------------------------------------------------------------------
(***************************************************************************)
(* Conservation of the bytes.                                              *)
(***************************************************************************)

Procs == {"boot", "cron", "stop"}

\* Where a process holds bytes that are nowhere else.
Loaded == {"prune", "add", "store"}
InHand(p) == IF Pc(p) \in Loaded THEN Held(p) ELSE 0
InHands == InHand("boot") + InHand("cron") + InHand("stop")

\* The bytes there are to account for: carried, or given back once counted.
Owed == carried + again

Amounts ==
    /\ counted \in Nat /\ pending \in Nat /\ carried \in Nat /\ again \in Nat /\ lost \in Nat
    /\ slipped \in Nat /\ stops \in Nat
    /\ bytes \in [Users -> Nat]

\* Where the shutdown has stored no batch yet.
Early == {"lock", "collect", "prune", "store"}

\* A batch is named by the stop that stores it, so its name is new.
Files ==
    /\ journal = [i \in DOMAIN journal |-> journal[i]]
    /\ IsFiniteSet(DOMAIN journal)
    /\ \A i \in DOMAIN journal : journal[i] \in Nat
    /\ DOMAIN journal \subseteq Nat /\ receipts \subseteq Nat
    /\ \A i \in DOMAIN journal \cup receipts : i <= stops
    /\ stop.pc \in Early => stops \notin DOMAIN journal \cup receipts

\* A file is removed only after its batch has a receipt.
Hands ==
    /\ run = [r \in Runs |-> run[r]]
    /\ \A p \in Procs : /\ Pc(p) \in Loaded => Held(p) \in Nat
                        /\ Pc(p) = "remove" => Held(p) \in receipts

Typed == Amounts /\ Files /\ Hands
Accounts == Typed /\ Conserved

\* Conserved, for the bytes c in the counters, h in hands and j in files.
Balanced ==
    /\ InCounters \in Nat /\ InHands \in Nat /\ InJournal \in Nat
    /\ \A p \in Procs : InHand(p) \in Nat
    /\ \A c, h, j \in Nat : InCounters = c /\ InHands = h /\ InJournal = j =>
         /\ InMemory = c + pending + h
         /\ Conserved <=> Owed = counted + c + pending + h + j + lost + slipped

\* The bytes in each place are numbers, and Conserved is about their sum.
LEMMA Balance == Typed => Balanced
<1> SUFFICES ASSUME Typed PROVE Balanced
  OBVIOUS
<1>1. \A p \in Procs : InHand(p) \in Nat
  BY DEF Typed, Hands, InHand
<1>2. InHands \in Nat
  BY <1>1 DEF InHands, Procs
<1>3. InCounters \in Nat
  <2>1. DOMAIN bytes = Users /\ IsFiniteSet(Users) /\ \A u \in Users : bytes[u] \in Nat
    BY TuicAssumption DEF Typed, Amounts
  <2> QED BY <2>1, SumNat DEF InCounters, SumFunction
<1>4. InJournal \in Nat
  <2>1. IsFiniteSet(DOMAIN journal \ receipts)
    BY FS_Subset DEF Typed, Files
  <2>2. \A i \in DOMAIN journal \ receipts : journal[i] \in Nat
    BY DEF Typed, Files
  <2> QED BY <2>1, <2>2, SumNat DEF InJournal
<1>5. InMemory = InCounters + pending + InHands
  <2> DEFINE f == [p \in Runs \cup {"stop"} |-> IF Pc(p) \in Loaded THEN Held(p) ELSE 0]
  <2>1. InMemory = InCounters + pending + SumFunction(f)
    BY DEF InMemory, Loaded
  <2>2. Runs \cup {"stop"} = Procs
    BY DEF Runs, Procs
  <2>3. DOMAIN f = Procs /\ \A p \in Procs : f[p] = InHand(p)
    BY <2>2 DEF InHand
  <2> HIDE DEF f
  <2>4. SumFunction(f) = f["boot"] + f["cron"] + f["stop"]
    BY <1>1, <2>3, SumOfThree DEF Procs
  <2>5. SumFunction(f) = InHands
    BY <2>3, <2>4 DEF InHands, Procs
  <2> QED BY <2>1, <2>5
<1>6. ASSUME NEW c \in Nat, NEW h \in Nat, NEW j \in Nat,
             InCounters = c, InHands = h, InJournal = j
      PROVE  /\ InMemory = c + pending + h
             /\ Conserved <=> Owed = counted + c + pending + h + j + lost + slipped
  <2>1. counted \in Nat /\ pending \in Nat /\ lost \in Nat /\ slipped \in Nat
    BY DEF Typed, Amounts
  <2>2. InMemory = c + pending + h
    BY <1>5, <1>6
  <2>3. Conserved <=> Owed = counted + (c + pending + h) + j + lost + slipped
    BY <1>6, <2>2 DEF Conserved, Owed
  <2> QED BY <2>1, <2>2, <2>3
<1> QED BY <1>1, <1>2, <1>3, <1>4, <1>6 DEF Balanced

\* A step moves bytes from one place to another, or carries one more; the
\* arguments are what it leaves in each place.
LEMMA Kept ==
  ASSUME Accounts, Typed',
         NEW c \in Nat, NEW h \in Nat, NEW j \in Nat,
         InCounters = c, InHands = h, InJournal = j,
         NEW cn \in Nat, NEW hn \in Nat, NEW jn \in Nat,
         InCounters' = cn, InHands' = hn, InJournal' = jn,
         NEW sum \in Nat, NEW cnt \in Nat, NEW pen \in Nat, NEW los \in Nat, NEW sli \in Nat,
         Owed' = sum, counted' = cnt, pending' = pen, lost' = los, slipped' = sli,
         sum + (counted + c + pending + h + j + lost + slipped)
         = Owed + (cnt + cn + pen + hn + jn + los + sli)
  PROVE  Accounts'
<1>1. Balanced
  BY Balance DEF Accounts
<1>2. Balanced'
  <2>1. Typed' => Balanced'
    BY Balance, PTL
  <2> QED BY <2>1
<1>3. /\ counted \in Nat /\ pending \in Nat /\ Owed \in Nat /\ lost \in Nat /\ slipped \in Nat
  BY DEF Accounts, Typed, Amounts, Owed
<1>4. Owed = counted + c + pending + h + j + lost + slipped
  BY <1>1, <1>3 DEF Accounts, Balanced
<1>5. sum = cnt + cn + pen + hn + jn + los + sli
  BY <1>3, <1>4
<1>6. Conserved'
  BY <1>2, <1>5 DEF Balanced
<1> QED BY <1>6 DEF Accounts
\* A process moves on, with what it then holds.
LEMMA GoStep ==
  ASSUME Hands, NEW p \in Procs, NEW pc, NEW held, Go(p, pc, held),
         receipts \subseteq receipts',
         pc \in Loaded => held \in Nat, pc = "remove" => held \in receipts'
  PROVE  /\ Hands'
         /\ \A q \in Procs : InHand(q)' = IF q # p THEN InHand(q)
                                          ELSE IF pc \in Loaded THEN held ELSE 0
         /\ stop' = IF p = "stop" THEN [pc |-> pc, held |-> held] ELSE stop
<1>1. p = "stop" \/ p \in Runs
  BY DEF Procs, Runs
<1>2. /\ run' = [r \in Runs |-> run'[r]]
      /\ stop' = IF p = "stop" THEN [pc |-> pc, held |-> held] ELSE stop
  BY <1>1 DEF Go, Hands
<1>3. ASSUME NEW q \in Procs
      PROVE  /\ Pc(q)' = IF q = p THEN pc ELSE Pc(q)
             /\ Held(q)' = IF q = p THEN held ELSE Held(q)
  <2>1. q = "stop" \/ q \in Runs
    BY DEF Procs, Runs
  <2>2. "stop" \notin Runs
    BY DEF Runs
  <2>3. CASE p = "stop"
    BY <1>2, <2>1, <2>2, <2>3 DEF Go, Pc, Held
  <2>4. CASE p \in Runs
    <3>1. stop' = stop /\ run' = [run EXCEPT ![p] = [pc |-> pc, held |-> held]]
      BY <2>2, <2>4 DEF Go
    <3>2. CASE q = "stop"
      BY <2>2, <2>4, <3>1, <3>2 DEF Pc, Held
    <3>3. CASE q \in Runs
      <4>1. run'[q] = IF q = p THEN [pc |-> pc, held |-> held] ELSE run[q]
        BY <2>4, <3>1, <3>3 DEF Hands
      <4> QED BY <2>2, <3>3, <4>1 DEF Pc, Held
    <3> QED BY <2>1, <3>2, <3>3
  <2> QED BY <1>1, <2>3, <2>4
<1>4. \A q \in Procs : InHand(q)' = IF q # p THEN InHand(q)
                                    ELSE IF pc \in Loaded THEN held ELSE 0
  BY <1>3 DEF InHand
<1>5. \A q \in Procs : /\ Pc(q)' \in Loaded => Held(q)' \in Nat
                       /\ Pc(q)' = "remove" => Held(q)' \in receipts'
  BY <1>3 DEF Hands
<1> QED BY <1>2, <1>4, <1>5 DEF Hands

\* What the processes hold changes by what one of them takes or gives.
LEMMA HandsMove ==
  ASSUME Typed, NEW p \in Procs, NEW h \in Nat, InHands = h,
         NEW x \in Nat, InHand(p) = x, NEW y \in Nat,
         \A q \in Procs : InHand(q)' = IF q # p THEN InHand(q) ELSE y
  PROVE  h + y - x \in Nat /\ InHands' = h + y - x
<1>1. \A q \in Procs : InHand(q) \in Nat
  BY Balance DEF Balanced
<1>2. PICK a \in Nat, b \in Nat, k \in Nat :
        InHand("boot") = a /\ InHand("cron") = b /\ InHand("stop") = k
  BY <1>1 DEF Procs
<1>3. h = a + b + k
  BY <1>2 DEF InHands
<1>4. CASE p = "boot"
  <2>1. InHand("boot")' = y /\ InHand("cron")' = b /\ InHand("stop")' = k
    BY <1>2, <1>4 DEF Procs
  <2>2. InHands' = y + b + k
    BY <2>1 DEF InHands
  <2>3. x = a
    BY <1>2, <1>4
  <2> QED BY <1>3, <2>2, <2>3
<1>5. CASE p = "cron"
  <2>1. InHand("boot")' = a /\ InHand("cron")' = y /\ InHand("stop")' = k
    BY <1>2, <1>5 DEF Procs
  <2>2. InHands' = a + y + k
    BY <2>1 DEF InHands
  <2>3. x = b
    BY <1>2, <1>5
  <2> QED BY <1>3, <2>2, <2>3
<1>6. CASE p = "stop"
  <2>1. InHand("boot")' = a /\ InHand("cron")' = b /\ InHand("stop")' = y
    BY <1>2, <1>6 DEF Procs
  <2>2. InHands' = a + b + y
    BY <2>1 DEF InHands
  <2>3. x = k
    BY <1>2, <1>6
  <2> QED BY <1>3, <2>2, <2>3
<1> QED BY <1>4, <1>5, <1>6 DEF Procs
\* What the arithmetic below needs.
LEMMA Numbers ==
  ASSUME Accounts
  PROVE  /\ counted \in Nat /\ pending \in Nat /\ Owed \in Nat /\ lost \in Nat /\ slipped \in Nat
         /\ stops \in Nat /\ bytes \in [Users -> Nat]
         /\ InCounters \in Nat /\ InHands \in Nat /\ InJournal \in Nat
         /\ \A p \in Procs : InHand(p) \in Nat
  BY Balance DEF Accounts, Typed, Amounts, Balanced, Owed

\* Counters set to zero hold nothing.
LEMMA CountersZero ==
  ASSUME bytes' = [u \in Users |-> 0] PROVE InCounters' = 0 /\ bytes' \in [Users -> Nat]
<1>1. DOMAIN bytes' = Users /\ IsFiniteSet(Users) /\ \A u \in Users : bytes'[u] = 0
  BY TuicAssumption
<1> QED BY <1>1, SumZero DEF InCounters, SumFunction

\* One more byte in one counter is one more in all.
LEMMA CountersBump ==
  ASSUME bytes \in [Users -> Nat], NEW u \in Users, bytes' = [bytes EXCEPT ![u] = @ + 1],
         NEW c \in Nat, InCounters = c
  PROVE  InCounters' = c + 1 /\ bytes' \in [Users -> Nat]
<1>1. bytes' \in [Users -> Nat] /\ DOMAIN bytes = Users /\ DOMAIN bytes' = Users
  OBVIOUS
<1>2. IsFiniteSet(Users) /\ IsFiniteSet(Users \ {u})
  BY TuicAssumption, FS_RemoveElement
<1>3. SumFunctionOnSet(bytes, Users) = bytes[u] + SumFunctionOnSet(bytes, Users \ {u})
  BY <1>2, SumRemove
<1>4. SumFunctionOnSet(bytes', Users) = bytes'[u] + SumFunctionOnSet(bytes', Users \ {u})
  <2>1. \A i \in Users : bytes'[i] \in Nat
    BY <1>1
  <2> QED BY <1>2, <2>1, SumRemove
<1>5. SumFunctionOnSet(bytes, Users \ {u}) = SumFunctionOnSet(bytes', Users \ {u})
  <2>1. \A i \in Users \ {u} : bytes[i] = bytes'[i]
    OBVIOUS
  <2> QED BY <1>2, <2>1, SumSame
<1>6. SumFunctionOnSet(bytes, Users \ {u}) \in Nat
  BY <1>2, SumNat
<1>7. PICK k \in Nat : k = SumFunctionOnSet(bytes, Users \ {u})
  BY <1>6
<1>8. PICK n \in Nat : n = bytes[u] /\ bytes'[u] = n + 1
  OBVIOUS
<1>9. c = n + k
  BY <1>1, <1>3, <1>7, <1>8 DEF InCounters, SumFunction
<1>10. InCounters' = (n + 1) + k
  BY <1>1, <1>4, <1>5, <1>7, <1>8 DEF InCounters, SumFunction
<1> QED BY <1>1, <1>9, <1>10

\* Steps that leave the journal alone.
LEMMA FilesKept ==
  ASSUME Files, UNCHANGED <<journal, receipts, stops>>,
         stop'.pc \in Early => stop.pc \in Early
  PROVE  Files' /\ InJournal' = InJournal
  BY DEF Files, InJournal

\* Steps that touch no place where bytes are.
LEMMA SameAccounts ==
  ASSUME Accounts,
         UNCHANGED <<counted, receipts, journal, bytes, pending, run, stop, stops, carried, again, lost, slipped>>
  PROVE  Accounts'
<1>1. Typed'
  <2>1. Amounts' /\ Files'
    BY DEF Accounts, Typed, Amounts, Files
  <2>2. Hands'
    BY DEF Accounts, Typed, Hands, Pc, Held
  <2> QED BY <2>1, <2>2 DEF Typed
<1>2. InMemory' = InMemory /\ InJournal' = InJournal
  BY DEF InMemory, InCounters, InJournal, Pc, Held
<1> QED BY <1>1, <1>2 DEF Accounts, Conserved

\* Steps of a process that hold no bytes and move none.
LEMMA NothingMoves ==
  ASSUME Accounts, NEW p \in Procs, NEW pc, NEW held, Go(p, pc, held),
         pc \notin Loaded, pc # "remove", Pc(p) \notin Loaded,
         p = "stop" /\ pc \in Early => Pc(p) \in Early,
         UNCHANGED <<counted, receipts, journal, bytes, pending, stops, carried, again, lost, slipped>>
  PROVE  Accounts'
<1>0. Amounts /\ Files /\ Hands /\ Typed
  BY DEF Accounts, Typed
<1>1. /\ Hands'
      /\ \A q \in Procs : InHand(q)' = IF q # p THEN InHand(q) ELSE 0
      /\ stop' = IF p = "stop" THEN [pc |-> pc, held |-> held] ELSE stop
  BY <1>0, GoStep
<1>2. Files' /\ InJournal' = InJournal
  BY <1>0, <1>1, FilesKept DEF Pc
<1>3. Amounts'
  BY <1>0 DEF Amounts
<1>4. PICK c \in Nat, h \in Nat, j \in Nat : InCounters = c /\ InHands = h /\ InJournal = j
  BY Numbers
<1>5. InHands' = h
  <2>1. InHand(p) = 0
    BY DEF InHand
  <2>2. h + 0 - 0 \in Nat /\ InHands' = h + 0 - 0
    BY <1>0, <1>1, <1>4, <2>1, HandsMove
  <2> QED BY <2>2
<1>6. InCounters' = c /\ InJournal' = j
  BY <1>2, <1>4 DEF InCounters
<1>7. Typed'
  BY <1>1, <1>2, <1>3 DEF Typed
<1>8. /\ counted \in Nat /\ pending \in Nat /\ Owed \in Nat /\ lost \in Nat /\ slipped \in Nat
      /\ Owed' = Owed /\ counted' = counted /\ pending' = pending /\ lost' = lost
      /\ slipped' = slipped
  BY Numbers DEF Owed
<1> QED BY <1>4, <1>5, <1>6, <1>7, <1>8, Kept
\* StopAndDrain moves the counters to the pending bytes.
LEMMA Drained ==
  ASSUME pending \in Nat, StopAndDrain, NEW c \in Nat, InCounters = c
  PROVE  pending' = pending + c /\ InCounters' = 0 /\ bytes' \in [Users -> Nat]
<1>1. pending' = pending + InCounters /\ bytes' = [u \in Users |-> 0]
  BY DEF StopAndDrain
<1> QED BY <1>1, CountersZero

\* Ensure drains the counters or leaves them.
LEMMA EnsureMoves ==
  ASSUME pending \in Nat, bytes \in [Users -> Nat], NEW inst, Ensure(inst),
         NEW c \in Nat, InCounters = c
  PROVE  /\ \E cn, pen \in Nat : InCounters' = cn /\ pending' = pen /\ cn + pen = c + pending
         /\ bytes' \in [Users -> Nat]
<1>1. CASE Remove \/ Restart(inst)
  <2>1. StopAndDrain
    BY <1>1 DEF Remove, Restart
  <2>2. pending' = pending + c /\ InCounters' = 0 /\ bytes' \in [Users -> Nat]
    BY <2>1, Drained
  <2>3. 0 \in Nat /\ pending + c \in Nat /\ 0 + (pending + c) = c + pending
    OBVIOUS
  <2> QED BY <2>2, <2>3
<1>2. CASE SetUsers(inst) \/ UNCHANGED <<server, pending, stray, faults>>
  <2>1. bytes' = bytes /\ pending' = pending
    BY <1>2 DEF SetUsers, server
  <2>2. InCounters' = c
    BY <2>1 DEF InCounters
  <2> QED BY <2>1, <2>2
<1> QED BY <1>1, <1>2 DEF Ensure

\* An edit reaches the manager.
LEMMA ApplyAccounts ==
  ASSUME Accounts, NEW r, Apply(r) PROVE Accounts'
<1>0. Amounts /\ Files /\ Hands /\ Typed
  BY DEF Accounts, Typed
<1>1. PICK c \in Nat, h \in Nat, j \in Nat : InCounters = c /\ InHands = h /\ InJournal = j
  BY Numbers
<1>2. /\ UNCHANGED <<counted, receipts, journal, run, stop, stops, carried, again, lost, slipped>>
      /\ Ensure(r)
  BY DEF Apply, disk
<1>3. pending \in Nat /\ bytes \in [Users -> Nat]
  BY Numbers
<1>4. PICK cn \in Nat, pen \in Nat : InCounters' = cn /\ pending' = pen /\ cn + pen = c + pending
  BY <1>1, <1>2, <1>3, EnsureMoves
<1>5. bytes' \in [Users -> Nat]
  BY <1>1, <1>2, <1>3, EnsureMoves
<1>6. InHands' = h /\ InJournal' = j
  BY <1>1, <1>2 DEF InHands, InHand, Pc, Held, InJournal
<1>7. Typed'
  <2>1. Amounts'
    BY <1>0, <1>2, <1>4, <1>5 DEF Amounts
  <2>2. Files'
    BY <1>0, <1>2, FilesKept
  <2>3. Hands'
    BY <1>0, <1>2 DEF Hands, Pc, Held
  <2> QED BY <2>1, <2>2, <2>3 DEF Typed
<1>8. /\ counted \in Nat /\ pending \in Nat /\ Owed \in Nat /\ lost \in Nat /\ slipped \in Nat
      /\ Owed' = Owed /\ counted' = counted /\ lost' = lost /\ slipped' = slipped
  BY <1>2, Numbers DEF Owed
<1>9. Owed + (counted + c + pending + h + j + lost + slipped)
      = Owed + (counted + cn + pen + h + j + lost + slipped)
  BY <1>4, <1>8
<1> QED BY <1>1, <1>4, <1>6, <1>7, <1>8, <1>9, Kept

\* A run reconciles.
LEMMA ReconcileAccounts ==
  ASSUME Accounts, NEW r \in Runs, Reconcile(r) PROVE Accounts'
<1>0. Amounts /\ Files /\ Hands /\ Typed
  BY DEF Accounts, Typed
<1>1. PICK c \in Nat, h \in Nat, j \in Nat : InCounters = c /\ InHands = h /\ InJournal = j
  BY Numbers
<1>2. /\ UNCHANGED <<counted, receipts, journal, stops, carried, again, lost, slipped>>
      /\ Ensure(run[r].held)
      /\ \E pc \in {"collect", "idle"} : Go(r, pc, 0)
      /\ run[r].pc \notin Loaded
  BY DEF Reconcile, disk, Loaded
<1>3. pending \in Nat /\ bytes \in [Users -> Nat] /\ r \in Procs /\ r # "stop"
  BY Numbers DEF Runs, Procs
<1>4. PICK cn \in Nat, pen \in Nat : InCounters' = cn /\ pending' = pen /\ cn + pen = c + pending
  BY <1>1, <1>2, <1>3, EnsureMoves
<1>5. bytes' \in [Users -> Nat]
  BY <1>1, <1>2, <1>3, EnsureMoves
<1>6. /\ Hands' /\ stop' = stop
      /\ \A q \in Procs : InHand(q)' = IF q # r THEN InHand(q) ELSE 0
  BY <1>0, <1>2, <1>3, GoStep DEF Loaded
<1>7. InHands' = h
  <2>1. InHand(r) = 0
    BY <1>2, <1>3 DEF InHand, Pc
  <2>2. h + 0 - 0 \in Nat /\ InHands' = h + 0 - 0
    BY <1>0, <1>1, <1>3, <1>6, <2>1, HandsMove
  <2> QED BY <2>2
<1>8. Typed' /\ InJournal' = j
  <2>1. Amounts'
    BY <1>0, <1>2, <1>4, <1>5 DEF Amounts
  <2>2. Files' /\ InJournal' = InJournal
    BY <1>0, <1>2, <1>6, FilesKept
  <2> QED BY <1>1, <1>6, <2>1, <2>2 DEF Typed
<1>9. /\ counted \in Nat /\ pending \in Nat /\ Owed \in Nat /\ lost \in Nat /\ slipped \in Nat
      /\ Owed' = Owed /\ counted' = counted /\ lost' = lost /\ slipped' = slipped
  BY <1>2, Numbers DEF Owed
<1>10. Owed + (counted + c + pending + h + j + lost + slipped)
       = Owed + (counted + cn + pen + h + j + lost + slipped)
  BY <1>4, <1>9
<1> QED BY <1>1, <1>4, <1>7, <1>8, <1>9, <1>10, Kept
\* A byte is carried and counted in a user object.
LEMMA RelayAccounts ==
  ASSUME Accounts, SessionInv, NEW k \in Conns, Relay(k) PROVE Accounts'
<1>0. Amounts /\ Files /\ Hands /\ Typed
  BY DEF Accounts, Typed
<1>1. PICK c \in Nat, h \in Nat, j \in Nat : InCounters = c /\ InHands = h /\ InJournal = j
  BY Numbers
<1>2. /\ UNCHANGED <<counted, receipts, journal, pending, run, stop, stops, again, lost, slipped>>
      /\ carried' = carried + 1
      /\ bytes' = [bytes EXCEPT ![conn[k].user] = @ + 1]
  BY DEF Relay, disk, procs, bounds
<1>3. conn[k].user \in Users
  BY DEF Relay, SessionInv, Bound
<1>4. InCounters' = c + 1 /\ bytes' \in [Users -> Nat]
  BY <1>1, <1>2, <1>3, CountersBump, Numbers
<1>5. InHands' = h /\ InJournal' = j
  BY <1>1, <1>2 DEF InHands, InHand, Pc, Held, InJournal
<1>6. /\ counted \in Nat /\ pending \in Nat /\ Owed \in Nat /\ lost \in Nat /\ slipped \in Nat
  BY Numbers
<1>7. Typed'
  <2>1. carried + 1 \in Nat
    BY <1>0 DEF Amounts
  <2>2. Amounts'
    BY <1>0, <1>2, <1>4, <2>1 DEF Amounts
  <2>3. Files'
    BY <1>0, <1>2, FilesKept
  <2>4. Hands'
    BY <1>0, <1>2 DEF Hands, Pc, Held
  <2> QED BY <2>2, <2>3, <2>4 DEF Typed
<1>8. /\ c + 1 \in Nat /\ Owed + 1 \in Nat
      /\ (Owed + 1) + (counted + c + pending + h + j + lost + slipped)
         = Owed + (counted + (c + 1) + pending + h + j + lost + slipped)
  BY <1>6
<1>9. counted' = counted /\ pending' = pending /\ lost' = lost /\ slipped' = slipped
  BY <1>2
<1>10. Owed' = Owed + 1
  BY <1>0, <1>2 DEF Amounts, Owed
<1> QED BY <1>1, <1>2, <1>4, <1>5, <1>6, <1>7, <1>8, <1>9, <1>10, Kept

\* CollectAllTraffic: from the pending bytes and the counters to the caller.
LEMMA CollectAccounts ==
  ASSUME Accounts, NEW p \in Procs, Collect(p) PROVE Accounts'
<1>0. Amounts /\ Files /\ Hands /\ Typed
  BY DEF Accounts, Typed
<1>1. PICK c \in Nat, h \in Nat, j \in Nat : InCounters = c /\ InHands = h /\ InJournal = j
  BY Numbers
<1>2. UNCHANGED <<counted, receipts, journal, stops, carried, again, lost, slipped>>
  BY DEF Collect, disk, bounds, history
<1>3. PICK n \in Nat : Swap(n) /\ Go(p, "prune", n)
  <2>1. PICK n \in 0 .. carried + again : Swap(n) /\ Go(p, "prune", n)
    BY DEF Collect
  <2>2. n \in Nat
    BY <1>1, <2>1, Numbers DEF Swap
  <2> QED BY <2>1, <2>2
<1>4. /\ counted \in Nat /\ pending \in Nat /\ Owed \in Nat /\ lost \in Nat /\ slipped \in Nat
      /\ bytes \in [Users -> Nat]
  BY Numbers
<1>5. /\ pending' = 0 /\ bytes' \in [Users -> Nat]
      /\ \/ InCounters' = 0 /\ n = pending + c
         \/ InCounters' = c /\ n = pending
  <2>1. CASE srv # None /\ srv.running
    <3>1. n = pending + c /\ bytes' = [u \in Users |-> 0] /\ pending' = 0
      BY <1>1, <1>3, <2>1 DEF Swap
    <3> QED BY <3>1, CountersZero
  <2>2. CASE ~(srv # None /\ srv.running)
    <3>1. n = pending /\ bytes' = bytes /\ pending' = 0
      BY <1>3, <2>2 DEF Swap
    <3> QED BY <1>1, <1>4, <3>1 DEF InCounters
  <2> QED BY <2>1, <2>2
<1>6. /\ Hands'
      /\ \A q \in Procs : InHand(q)' = IF q # p THEN InHand(q) ELSE n
      /\ stop' = IF p = "stop" THEN [pc |-> "prune", held |-> n] ELSE stop
  BY <1>0, <1>2, <1>3, GoStep DEF Loaded
<1>7. h + n \in Nat /\ InHands' = h + n
  <2>1. InHand(p) = 0
    BY DEF InHand, Collect, Loaded
  <2>2. h + n - 0 \in Nat /\ InHands' = h + n - 0
    BY <1>0, <1>1, <1>6, <2>1, HandsMove
  <2> QED BY <2>2
<1>8. Typed' /\ InJournal' = j
  <2>1. Amounts'
    BY <1>0, <1>2, <1>5 DEF Amounts
  <2>2. Files' /\ InJournal' = InJournal
    <3>1. stop'.pc \in Early => stop.pc \in Early
      BY <1>6 DEF Collect, Pc, Early
    <3> QED BY <1>0, <1>2, <3>1, FilesKept
  <2> QED BY <1>1, <1>6, <2>1, <2>2 DEF Typed
<1>9. counted' = counted /\ Owed' = Owed /\ lost' = lost /\ slipped' = slipped
  BY <1>2 DEF Owed
<1>10. CASE InCounters' = 0 /\ n = pending + c
  <2>1. Owed + (counted + c + pending + h + j + lost + slipped)
        = Owed + (counted + 0 + 0 + (h + n) + j + lost + slipped)
    BY <1>4, <1>10
  <2> QED BY <1>1, <1>4, <1>5, <1>7, <1>8, <1>9, <1>10, <2>1, Kept
<1>11. CASE InCounters' = c /\ n = pending
  <2>1. Owed + (counted + c + pending + h + j + lost + slipped)
        = Owed + (counted + c + 0 + (h + n) + j + lost + slipped)
    BY <1>4, <1>11
  <2> QED BY <1>1, <1>4, <1>5, <1>7, <1>8, <1>9, <1>11, <2>1, Kept
<1> QED BY <1>5, <1>10, <1>11

\* Prune: what a forgotten user counted after the swap slips.
LEMMA PruneMoves ==
  ASSUME bytes \in [Users -> Nat], slipped \in Nat, Prune, NEW c \in Nat, InCounters = c
  PROVE  /\ \E cn, sli \in Nat : InCounters' = cn /\ slipped' = sli /\ cn + sli = c + slipped
         /\ bytes' \in [Users -> Nat]
<1> DEFINE gone == {u \in Retired : srv # None /\ srv.running /\ Sessions(u) = {}}
<1>1. /\ slipped' = slipped + SumFunctionOnSet(bytes, gone)
      /\ bytes' = [u \in Users |-> IF u \in gone THEN 0 ELSE bytes[u]]
  BY DEF Prune
<1>2. gone \in SUBSET Users
  BY DEF Retired
<1> HIDE DEF gone
<1>3. bytes' \in [Users -> Nat] /\ DOMAIN bytes = Users /\ DOMAIN bytes' = Users
  BY <1>1
<1>4. IsFiniteSet(Users) /\ IsFiniteSet(gone)
  BY <1>2, TuicAssumption, FS_Subset
<1>5. SumFunctionOnSet(bytes, Users)
      = SumFunctionOnSet(bytes, gone) + SumFunctionOnSet(bytes', Users)
  <2>1. \A i \in Users : bytes'[i] = IF i \in gone THEN 0 ELSE bytes[i]
    BY <1>1
  <2>2. \A i \in Users : bytes[i] \in Nat
    OBVIOUS
  <2> QED BY <1>2, <1>4, <2>1, <2>2, SumSplit
<1>6. PICK g \in Nat : g = SumFunctionOnSet(bytes, gone)
  <2>1. \A i \in gone : bytes[i] \in Nat
    BY <1>2
  <2> QED BY <1>4, <2>1, SumNat
<1>7. PICK n \in Nat : n = SumFunctionOnSet(bytes', Users)
  <2>1. \A i \in Users : bytes'[i] \in Nat
    BY <1>3
  <2> QED BY <1>4, <2>1, SumNat
<1>8. InCounters' = n
  BY <1>3, <1>7 DEF InCounters, SumFunction
<1>9. c = g + n
  BY <1>3, <1>5, <1>6, <1>7 DEF InCounters, SumFunction
<1>10. slipped' = slipped + g
  BY <1>1, <1>6
<1>11. slipped + g \in Nat /\ n + (slipped + g) = c + slipped
  BY <1>9
<1> QED BY <1>3, <1>8, <1>10, <1>11
\* The collector ends: its caller keeps the bytes, a forgotten user's slip.
LEMMA CollectEndsAccounts ==
  ASSUME Accounts, NEW p \in Procs, CollectEnds(p) PROVE Accounts'
<1>0. Amounts /\ Files /\ Hands /\ Typed
  BY DEF Accounts, Typed
<1>1. PICK c \in Nat, h \in Nat, j \in Nat : InCounters = c /\ InHands = h /\ InJournal = j
  BY Numbers
<1>2. UNCHANGED <<counted, receipts, journal, pending, stops, carried, again, lost>> /\ Prune /\ Pc(p) = "prune"
  BY DEF CollectEnds, disk, bounds
<1>3. /\ counted \in Nat /\ pending \in Nat /\ Owed \in Nat /\ lost \in Nat /\ slipped \in Nat
      /\ bytes \in [Users -> Nat]
  BY Numbers
<1>4. PICK cn \in Nat, sli \in Nat : InCounters' = cn /\ slipped' = sli /\ cn + sli = c + slipped
  BY <1>1, <1>2, <1>3, PruneMoves
<1>5. bytes' \in [Users -> Nat]
  BY <1>1, <1>2, <1>3, PruneMoves
<1>6. PICK n \in Nat : Held(p) = n /\ InHand(p) = n
  BY <1>0, <1>2 DEF Hands, Loaded, InHand
<1>7. PICK pc : /\ Go(p, pc, n)
                /\ pc \in {"replay", "store", "add", "idle"}
                /\ pc \notin Loaded => n = 0
                /\ pc \in Early => pc = "store"
  <2>1. CASE p = "stop" /\ Go(p, IF Held(p) = 0 THEN "replay" ELSE "store", Held(p))
    BY <1>6, <2>1 DEF Loaded, Early
  <2>2. CASE Go(p, "add", Held(p))
    BY <1>6, <2>2 DEF Loaded, Early
  <2>3. CASE Held(p) = 0 /\ Go(p, "idle", 0)
    BY <1>6, <2>3 DEF Loaded, Early
  <2> QED BY <2>1, <2>2, <2>3 DEF CollectEnds
<1>8. /\ Hands'
      /\ \A q \in Procs : InHand(q)' = IF q # p THEN InHand(q) ELSE n
      /\ stop' = IF p = "stop" THEN [pc |-> pc, held |-> n] ELSE stop
  BY <1>0, <1>2, <1>7, GoStep
<1>9. InHands' = h
  <2>1. h + n - n \in Nat /\ InHands' = h + n - n
    BY <1>0, <1>1, <1>6, <1>8, HandsMove
  <2> QED BY <2>1
<1>10. Typed' /\ InJournal' = j
  <2>1. Amounts'
    BY <1>0, <1>2, <1>4, <1>5 DEF Amounts
  <2>2. Files' /\ InJournal' = InJournal
    <3>1. stop'.pc \in Early => stop.pc \in Early
      BY <1>2, <1>8 DEF Pc, Early
    <3> QED BY <1>0, <1>2, <3>1, FilesKept
  <2> QED BY <1>1, <1>8, <2>1, <2>2 DEF Typed
<1>11. counted' = counted /\ Owed' = Owed /\ lost' = lost /\ pending' = pending
  BY <1>2 DEF Owed
<1>12. Owed + (counted + c + pending + h + j + lost + slipped)
       = Owed + (counted + cn + pending + h + j + lost + sli)
  BY <1>3, <1>4
<1> QED BY <1>1, <1>3, <1>4, <1>9, <1>10, <1>11, <1>12, Kept

\* AddTraffic commits, or the bytes go back to the manager.
LEMMA AddTrafficAccounts ==
  ASSUME Accounts, NEW r \in Runs, AddTraffic(r) \/ AddTrafficFails(r) PROVE Accounts'
<1>0. Amounts /\ Files /\ Hands /\ Typed
  BY DEF Accounts, Typed
<1>1. PICK c \in Nat, h \in Nat, j \in Nat : InCounters = c /\ InHands = h /\ InJournal = j
  BY Numbers
<1>2. /\ UNCHANGED <<receipts, journal, bytes, stops, carried, lost, slipped>>
      /\ run[r].pc = "add"
      /\ \E pc \in {"idle", "again"} : Go(r, pc, 0)
  BY DEF AddTraffic, AddTrafficFails, Fault, disk, server, bounds, history
<1>3. /\ counted \in Nat /\ pending \in Nat /\ Owed \in Nat /\ lost \in Nat /\ slipped \in Nat
      /\ r \in Procs /\ r # "stop"
  BY Numbers DEF Runs, Procs
<1>4. PICK n \in Nat : run[r].held = n /\ InHand(r) = n
  BY <1>0, <1>2, <1>3 DEF Hands, Loaded, InHand, Pc, Held
<1>5. \/ counted' = counted + n /\ pending' = pending /\ again' = again
      \/ counted' = counted /\ pending' = pending + n /\ again' = again
      \/ counted' = counted + n /\ pending' = pending + n /\ again' = again + n
  BY <1>4 DEF AddTraffic, AddTrafficFails, disk, history
<1>6. /\ Hands' /\ stop' = stop
      /\ \A q \in Procs : InHand(q)' = IF q # r THEN InHand(q) ELSE 0
  BY <1>0, <1>2, <1>3, GoStep DEF Loaded
<1>7. h + 0 - n \in Nat /\ InHands' = h + 0 - n
  <2>1. Typed /\ r \in Procs /\ InHands = h /\ InHand(r) = n
    BY <1>0, <1>1, <1>3, <1>4
  <2>2. \A q \in Procs : InHand(q)' = IF q # r THEN InHand(q) ELSE 0
    BY <1>6
  <2> QED BY <2>1, <2>2, HandsMove
<1>8. /\ counted + n \in Nat /\ pending + n \in Nat /\ again + n \in Nat /\ Owed + n \in Nat
      /\ again' = again => Owed' = Owed
      /\ again' = again + n => Owed' = Owed + n
  BY <1>0, <1>2, <1>3 DEF Amounts, Owed
<1>9. Typed' /\ InJournal' = j /\ InCounters' = c
  <2>1. Amounts'
    BY <1>0, <1>2, <1>3, <1>5, <1>8 DEF Amounts
  <2>2. Files' /\ InJournal' = InJournal
    BY <1>0, <1>2, <1>6, FilesKept
  <2>3. InCounters' = InCounters
    BY <1>2 DEF InCounters
  <2> QED BY <1>1, <1>6, <2>1, <2>2, <2>3 DEF Typed
<1>10. lost' = lost /\ slipped' = slipped
  BY <1>2
<1>11. CASE counted' = counted + n /\ pending' = pending /\ again' = again
  <2>1. Owed + (counted + c + pending + h + j + lost + slipped)
        = Owed + ((counted + n) + c + pending + (h + 0 - n) + j + lost + slipped)
    BY <1>3
  <2> QED BY <1>1, <1>3, <1>7, <1>8, <1>9, <1>10, <1>11, <2>1, Kept
<1>12. CASE counted' = counted /\ pending' = pending + n /\ again' = again
  <2>1. Owed + (counted + c + pending + h + j + lost + slipped)
        = Owed + (counted + c + (pending + n) + (h + 0 - n) + j + lost + slipped)
    BY <1>3
  <2> QED BY <1>1, <1>3, <1>7, <1>8, <1>9, <1>10, <1>12, <2>1, Kept
<1>13. CASE counted' = counted + n /\ pending' = pending + n /\ again' = again + n
  <2>1. (Owed + n) + (counted + c + pending + h + j + lost + slipped)
        = Owed + ((counted + n) + c + (pending + n) + (h + 0 - n) + j + lost + slipped)
    BY <1>3
  <2> QED BY <1>1, <1>3, <1>7, <1>8, <1>9, <1>10, <1>13, <2>1, Kept
<1> QED BY <1>5, <1>11, <1>12, <1>13

\* A batch is counted with its receipt, and no batch that has one.
LEMMA BatchMoves ==
  ASSUME Files, counted \in Nat, NEW p, NEW id, AddTuicTrafficBatch(p, id),
         NEW j \in Nat, InJournal = j
  PROVE  \E jn, cnt \in Nat : InJournal' = jn /\ counted' = cnt /\ jn + cnt = j + counted
<1> DEFINE D == DOMAIN journal \ receipts
           E == DOMAIN journal \ (receipts \cup {id})
<1>1. /\ id \in DOMAIN journal /\ journal' = journal /\ receipts' = receipts \cup {id}
      /\ counted' = IF id \in receipts THEN counted ELSE counted + journal[id]
  BY DEF AddTuicTrafficBatch
<1>2. j = SumFunctionOnSet(journal, D) /\ InJournal' = SumFunctionOnSet(journal, E)
  BY <1>1 DEF InJournal
<1>3. CASE id \in receipts
  <2>1. D = E
    BY <1>3
  <2> HIDE DEF D, E
  <2> QED BY <1>1, <1>2, <1>3, <2>1
<1>4. CASE id \notin receipts
  <2>1. id \in D /\ E = D \ {id} /\ IsFiniteSet(D) /\ IsFiniteSet(E)
    BY <1>1, <1>4, FS_Subset DEF Files
  <2>2. (\A i \in D : journal[i] \in Nat) /\ (\A i \in E : journal[i] \in Nat)
    BY DEF Files
  <2> HIDE DEF D, E
  <2>3. SumFunctionOnSet(journal, D) = journal[id] + SumFunctionOnSet(journal, E)
    BY <2>1, <2>2, SumRemove
  <2>4. PICK k \in Nat : k = SumFunctionOnSet(journal, E)
    BY <2>1, <2>2, SumNat
  <2>5. PICK n \in Nat : n = journal[id]
    BY <2>1, <2>2
  <2>6. j = n + k /\ InJournal' = k /\ counted' = counted + n
    BY <1>1, <1>2, <1>4, <2>3, <2>4, <2>5
  <2>7. counted + n \in Nat /\ k + (counted + n) = j + counted
    BY <2>6
  <2> QED BY <2>6, <2>7
<1> QED BY <1>3, <1>4

\* A batch of the journal is replayed.
LEMMA BatchAccounts ==
  ASSUME Accounts, NEW p \in Procs, NEW id, AddTuicTrafficBatch(p, id) PROVE Accounts'
<1>0. Amounts /\ Files /\ Hands /\ Typed
  BY DEF Accounts, Typed
<1>1. PICK c \in Nat, h \in Nat, j \in Nat : InCounters = c /\ InHands = h /\ InJournal = j
  BY Numbers
<1>2. /\ UNCHANGED <<journal, bytes, pending, stops, carried, again, lost, slipped>>
      /\ Pc(p) = "replay" /\ Go(p, "remove", id)
      /\ id \in DOMAIN journal /\ receipts' = receipts \cup {id}
  BY DEF AddTuicTrafficBatch, server, bounds, history
<1>3. /\ counted \in Nat /\ pending \in Nat /\ Owed \in Nat /\ lost \in Nat /\ slipped \in Nat
  BY Numbers
<1>4. PICK jn \in Nat, cnt \in Nat : InJournal' = jn /\ counted' = cnt /\ jn + cnt = j + counted
  BY <1>0, <1>1, <1>3, BatchMoves
<1>5. /\ Hands'
      /\ \A q \in Procs : InHand(q)' = IF q # p THEN InHand(q) ELSE 0
      /\ stop' = IF p = "stop" THEN [pc |-> "remove", held |-> id] ELSE stop
  BY <1>0, <1>2, GoStep DEF Loaded
<1>6. InHands' = h
  <2>1. InHand(p) = 0
    BY <1>2 DEF InHand, Loaded
  <2>2. h + 0 - 0 \in Nat /\ InHands' = h + 0 - 0
    BY <1>0, <1>1, <1>5, <2>1, HandsMove
  <2> QED BY <2>2
<1>7. Typed' /\ InCounters' = c
  <2>1. Amounts'
    BY <1>0, <1>2, <1>4 DEF Amounts
  <2>2. Files'
    <3>1. stop'.pc \in Early => stop' = stop
      BY <1>5 DEF Early
    <3>2. id \in Nat /\ id <= stops
      BY <1>0, <1>2 DEF Files
    <3>3. stop.pc \in Early => id # stops
      BY <1>0, <1>2 DEF Files
    <3> QED BY <1>0, <1>2, <3>1, <3>2, <3>3 DEF Files
  <2>3. InCounters' = InCounters
    BY <1>2 DEF InCounters
  <2> QED BY <1>1, <1>5, <2>1, <2>2, <2>3 DEF Typed
<1>8. Owed' = Owed /\ lost' = lost /\ slipped' = slipped /\ pending' = pending
  BY <1>2 DEF Owed
<1>9. Owed + (counted + c + pending + h + j + lost + slipped)
      = Owed + (cnt + c + pending + h + jn + lost + slipped)
  BY <1>3, <1>4
<1> QED BY <1>1, <1>3, <1>4, <1>6, <1>7, <1>8, <1>9, Kept
\* A file is removed when its batch has a receipt: no byte goes with it.
LEMMA RemoveFileAccounts ==
  ASSUME Accounts, NEW p \in Procs, RemoveFile(p) PROVE Accounts'
<1>0. Amounts /\ Files /\ Hands /\ Typed
  BY DEF Accounts, Typed
<1>1. PICK c \in Nat, h \in Nat, j \in Nat : InCounters = c /\ InHands = h /\ InJournal = j
  BY Numbers
<1>2. /\ UNCHANGED <<counted, receipts, bytes, pending, stops, carried, again, lost, slipped>>
      /\ Pc(p) = "remove" /\ Go(p, "replay", 0)
      /\ journal' = [i \in DOMAIN journal \ {Held(p)} |-> journal[i]]
  BY DEF RemoveFile, server, bounds, history, Restrict
<1>3. Held(p) \in receipts
  BY <1>0, <1>2 DEF Hands
<1>4. /\ Hands'
      /\ \A q \in Procs : InHand(q)' = IF q # p THEN InHand(q) ELSE 0
      /\ stop' = IF p = "stop" THEN [pc |-> "replay", held |-> 0] ELSE stop
  BY <1>0, <1>2, GoStep DEF Loaded
<1>5. InHands' = h
  <2>1. InHand(p) = 0
    BY <1>2 DEF InHand, Loaded
  <2>2. h + 0 - 0 \in Nat /\ InHands' = h + 0 - 0
    BY <1>0, <1>1, <1>4, <2>1, HandsMove
  <2> QED BY <2>2
<1>6. InJournal' = j
  <2> DEFINE D == DOMAIN journal \ receipts
  <2>1. DOMAIN journal' \ receipts' = D /\ \A i \in D : journal'[i] = journal[i]
    BY <1>2, <1>3
  <2>2. IsFiniteSet(D)
    BY <1>0, FS_Subset DEF Files
  <2>3. InJournal' = SumFunctionOnSet(journal', D)
    BY <2>1 DEF InJournal
  <2>4. InJournal = SumFunctionOnSet(journal, D)
    BY DEF InJournal
  <2> HIDE DEF D
  <2> QED BY <1>1, <2>1, <2>2, <2>3, <2>4, SumSame
<1>7. Typed' /\ InCounters' = c
  <2>1. Amounts'
    BY <1>0, <1>2 DEF Amounts
  <2>2. Files'
    <3>1. stop'.pc \in Early => stop' = stop
      BY <1>4 DEF Early
    <3>2. DOMAIN journal' \subseteq DOMAIN journal
      BY <1>2
    <3>3. IsFiniteSet(DOMAIN journal')
      BY <1>0, <3>2, FS_Subset DEF Files
    <3>4. journal' = [i \in DOMAIN journal' |-> journal'[i]]
      BY <1>2
    <3>5. \A i \in DOMAIN journal' : journal'[i] \in Nat
      BY <1>0, <1>2 DEF Files
    <3> QED BY <1>0, <1>2, <3>1, <3>2, <3>3, <3>4, <3>5 DEF Files
  <2>3. InCounters' = InCounters
    BY <1>2 DEF InCounters
  <2> QED BY <1>1, <1>4, <2>1, <2>2, <2>3 DEF Typed
<1>8. /\ counted \in Nat /\ pending \in Nat /\ Owed \in Nat /\ lost \in Nat /\ slipped \in Nat
      /\ Owed' = Owed /\ counted' = counted /\ pending' = pending /\ lost' = lost
      /\ slipped' = slipped
  BY <1>2, Numbers DEF Owed
<1> QED BY <1>1, <1>5, <1>6, <1>7, <1>8, Kept

\* StopAll: from the counters to the pending bytes.
LEMMA StopAllAccounts ==
  ASSUME Accounts, StopAll PROVE Accounts'
<1>0. Amounts /\ Files /\ Hands /\ Typed
  BY DEF Accounts, Typed
<1>1. PICK c \in Nat, h \in Nat, j \in Nat : InCounters = c /\ InHands = h /\ InJournal = j
  BY Numbers
<1>2. /\ UNCHANGED <<counted, receipts, journal, carried, again, lost, slipped>>
      /\ stop = Idle /\ stops' = stops + 1 /\ StopAndDrain /\ Go("stop", "lock", 0)
  BY DEF StopAll, disk
<1>3. /\ counted \in Nat /\ pending \in Nat /\ Owed \in Nat /\ lost \in Nat /\ slipped \in Nat
      /\ stops \in Nat /\ "stop" \in Procs
  BY Numbers DEF Procs
<1>4. pending' = pending + c /\ InCounters' = 0 /\ bytes' \in [Users -> Nat]
  BY <1>1, <1>2, <1>3, Drained
<1>5. /\ Hands'
      /\ \A q \in Procs : InHand(q)' = IF q # "stop" THEN InHand(q) ELSE 0
  BY <1>0, <1>2, <1>3, GoStep DEF Loaded
<1>6. InHands' = h
  <2>1. InHand("stop") = 0
    BY <1>2 DEF InHand, Pc, Idle, Loaded
  <2>2. h + 0 - 0 \in Nat /\ InHands' = h + 0 - 0
    BY <1>0, <1>1, <1>3, <1>5, <2>1, HandsMove
  <2> QED BY <2>2
<1>7. InJournal' = j
  BY <1>1, <1>2 DEF InJournal
<1>8. pending + c \in Nat /\ stops + 1 \in Nat
  BY <1>3
<1>9. Typed'
  <2>1. Amounts'
    BY <1>0, <1>2, <1>4, <1>8 DEF Amounts
  <2>2. Files'
    <3>1. \A i \in DOMAIN journal \cup receipts : i \in Nat /\ i <= stops
      BY <1>0 DEF Files
    <3>2. \A i \in DOMAIN journal \cup receipts : i <= stops + 1 /\ i # stops + 1
      BY <1>3, <3>1
    <3> QED BY <1>0, <1>2, <3>2 DEF Files
  <2> QED BY <1>5, <2>1, <2>2 DEF Typed
<1>10. counted' = counted /\ Owed' = Owed /\ lost' = lost /\ slipped' = slipped
  BY <1>2 DEF Owed
<1>11. Owed + (counted + c + pending + h + j + lost + slipped)
       = Owed + (counted + 0 + (pending + c) + h + j + lost + slipped)
  BY <1>3
<1> QED BY <1>1, <1>3, <1>4, <1>6, <1>7, <1>8, <1>9, <1>10, <1>11, Kept

\* storeTuicBatch under a name that no file and no receipt has.
LEMMA StoreMoves ==
  ASSUME Files, stops \in Nat, stop.pc = "store", NEW n \in Nat, stop.held = n,
         receipts' = receipts,
         journal' = [i \in DOMAIN journal \cup {stops} |-> IF i = stops THEN n ELSE journal[i]],
         NEW j \in Nat, InJournal = j
  PROVE  /\ InJournal' = j + n
         /\ journal' = [i \in DOMAIN journal' |-> journal'[i]]
         /\ DOMAIN journal' = DOMAIN journal \cup {stops} /\ IsFiniteSet(DOMAIN journal')
         /\ \A i \in DOMAIN journal' : journal'[i] \in Nat
<1>1. stops \notin DOMAIN journal \cup receipts
  BY DEF Files, Early
<1>2. /\ journal' = [i \in DOMAIN journal' |-> journal'[i]]
      /\ DOMAIN journal' = DOMAIN journal \cup {stops}
      /\ \A i \in DOMAIN journal' : journal'[i] \in Nat
  BY DEF Files
<1>3. IsFiniteSet(DOMAIN journal')
  BY <1>2, FS_AddElement DEF Files
<1> DEFINE D == DOMAIN journal \ receipts
           E == DOMAIN journal' \ receipts'
<1>4. stops \in E /\ E \ {stops} = D
  BY <1>1, <1>2
<1>5. IsFiniteSet(E) /\ IsFiniteSet(D)
  BY <1>3, FS_Subset DEF Files
<1>6. (\A i \in E : journal'[i] \in Nat) /\ journal'[stops] = n
  BY <1>2
<1>7. \A i \in D : journal'[i] = journal[i]
  BY <1>1
<1>8. InJournal = SumFunctionOnSet(journal, D) /\ InJournal' = SumFunctionOnSet(journal', E)
  BY DEF InJournal
<1> HIDE DEF D, E
<1>9. SumFunctionOnSet(journal', E) = n + SumFunctionOnSet(journal', D)
  BY <1>4, <1>5, <1>6, SumRemove
<1>10. SumFunctionOnSet(journal', D) = SumFunctionOnSet(journal, D)
  BY <1>5, <1>7, SumSame
<1>11. InJournal' = n + j
  BY <1>8, <1>9, <1>10
<1>12. InJournal' = j + n
  BY <1>11
<1> QED BY <1>2, <1>3, <1>12, Zenon

\* From the hands of the shutdown to a file.
LEMMA StoreBatchAccounts ==
  ASSUME Accounts, StoreBatch PROVE Accounts'
<1>0. Amounts /\ Files /\ Hands /\ Typed
  BY DEF Accounts, Typed
<1>1. PICK c \in Nat, h \in Nat, j \in Nat : InCounters = c /\ InHands = h /\ InJournal = j
  BY Numbers
<1>2. /\ UNCHANGED <<counted, receipts, bytes, pending, stops, carried, again, lost, slipped>>
      /\ stop.pc = "store" /\ \E pc \in {"replay", "exit"} : Go("stop", pc, 0)
      /\ journal' = [i \in DOMAIN journal \cup {stops} |->
                       IF i = stops THEN stop.held ELSE journal[i]]
  BY DEF StoreBatch, Fault, server, bounds, history
<1>3. /\ counted \in Nat /\ pending \in Nat /\ Owed \in Nat /\ lost \in Nat /\ slipped \in Nat
      /\ stops \in Nat /\ "stop" \in Procs
  BY Numbers DEF Procs
<1>4. PICK n \in Nat : stop.held = n /\ InHand("stop") = n
  BY <1>0, <1>2, <1>3 DEF Hands, Loaded, InHand, Pc, Held
<1>5. /\ InJournal' = j + n
      /\ journal' = [i \in DOMAIN journal' |-> journal'[i]]
      /\ DOMAIN journal' = DOMAIN journal \cup {stops} /\ IsFiniteSet(DOMAIN journal')
      /\ \A i \in DOMAIN journal' : journal'[i] \in Nat
  BY <1>0, <1>1, <1>2, <1>3, <1>4, StoreMoves
<1>6. /\ Hands' /\ stop'.pc \notin Early
      /\ \A q \in Procs : InHand(q)' = IF q # "stop" THEN InHand(q) ELSE 0
  BY <1>0, <1>2, <1>3, GoStep DEF Loaded, Early
<1>7. h + 0 - n \in Nat /\ InHands' = h + 0 - n
  BY <1>0, <1>1, <1>3, <1>4, <1>6, HandsMove
<1>8. Typed' /\ InCounters' = c
  <2>1. Amounts'
    BY <1>0, <1>2 DEF Amounts
  <2>2. Files'
    BY <1>0, <1>2, <1>3, <1>5, <1>6 DEF Files
  <2>3. InCounters' = InCounters
    BY <1>2 DEF InCounters
  <2> QED BY <1>1, <1>6, <2>1, <2>2, <2>3 DEF Typed
<1>9. /\ Owed' = Owed /\ counted' = counted /\ pending' = pending /\ lost' = lost
      /\ slipped' = slipped
  BY <1>2 DEF Owed
<1>10. /\ j + n \in Nat
       /\ Owed + (counted + c + pending + h + j + lost + slipped)
          = Owed + (counted + c + pending + (h + 0 - n) + (j + n) + lost + slipped)
  BY <1>3
<1> QED BY <1>1, <1>3, <1>5, <1>7, <1>8, <1>9, <1>10, Kept

\* From the hands of the shutdown back to the manager.
LEMMA StoreFailsAccounts ==
  ASSUME Accounts, StoreFails PROVE Accounts'
<1>0. Amounts /\ Files /\ Hands /\ Typed
  BY DEF Accounts, Typed
<1>1. PICK c \in Nat, h \in Nat, j \in Nat : InCounters = c /\ InHands = h /\ InJournal = j
  BY Numbers
<1>2. /\ UNCHANGED <<counted, receipts, journal, bytes, stops, carried, again, lost, slipped>>
      /\ stop.pc = "store" /\ Go("stop", "failed", 0)
      /\ pending' = pending + stop.held
  BY DEF StoreFails, Fault, disk, server, history
<1>3. /\ counted \in Nat /\ pending \in Nat /\ Owed \in Nat /\ lost \in Nat /\ slipped \in Nat
      /\ "stop" \in Procs
  BY Numbers DEF Procs
<1>4. PICK n \in Nat : stop.held = n /\ InHand("stop") = n
  BY <1>0, <1>2, <1>3 DEF Hands, Loaded, InHand, Pc, Held
<1>5. /\ Hands' /\ stop'.pc \notin Early
      /\ \A q \in Procs : InHand(q)' = IF q # "stop" THEN InHand(q) ELSE 0
  BY <1>0, <1>2, <1>3, GoStep DEF Loaded, Early
<1>6. h + 0 - n \in Nat /\ InHands' = h + 0 - n
  BY <1>0, <1>1, <1>3, <1>4, <1>5, HandsMove
<1>7. pending + n \in Nat /\ pending' = pending + n
  BY <1>2, <1>3, <1>4
<1>8. Typed' /\ InJournal' = j /\ InCounters' = c
  <2>1. Amounts'
    BY <1>0, <1>2, <1>7 DEF Amounts
  <2>2. Files' /\ InJournal' = InJournal
    BY <1>0, <1>2, <1>5, FilesKept
  <2>3. InCounters' = InCounters
    BY <1>2 DEF InCounters
  <2> QED BY <1>1, <1>5, <2>1, <2>2, <2>3 DEF Typed
<1>9. Owed' = Owed /\ counted' = counted /\ lost' = lost /\ slipped' = slipped
  BY <1>2 DEF Owed
<1>10. Owed + (counted + c + pending + h + j + lost + slipped)
       = Owed + (counted + c + (pending + n) + (h + 0 - n) + j + lost + slipped)
  BY <1>3
<1> QED BY <1>1, <1>3, <1>6, <1>7, <1>8, <1>9, <1>10, Kept

\* The process ends: what its memory held is lost.
LEMMA EndAccounts ==
  ASSUME Accounts, Exit \/ Crash PROVE Accounts'
<1>0. Amounts /\ Files /\ Hands /\ Typed
  BY DEF Accounts, Typed
<1>1. PICK c \in Nat, h \in Nat, j \in Nat : InCounters = c /\ InHands = h /\ InJournal = j
  BY Numbers
<1>2. /\ UNCHANGED <<counted, receipts, journal, carried, again, slipped>>
      /\ lost' = lost + InMemory /\ pending' = 0 /\ bytes' = [u \in Users |-> 0]
      /\ run' = [r \in Runs |-> Idle] /\ stop' = Idle
      /\ stops' = stops \/ stops' = stops + 1
  BY DEF Exit, Crash, End, Down, disk
<1>3. /\ counted \in Nat /\ pending \in Nat /\ Owed \in Nat /\ lost \in Nat /\ slipped \in Nat
      /\ stops \in Nat
  BY Numbers
<1>4. InMemory = c + pending + h
  BY <1>0, <1>1, Balance DEF Balanced
<1>5. InCounters' = 0 /\ bytes' \in [Users -> Nat]
  BY <1>2, CountersZero
<1>6. \A p \in Procs : Pc(p)' = "idle"
  <2>1. ASSUME NEW p \in Procs PROVE Pc(p)' = "idle"
    <3>1. p = "stop" \/ (p # "stop" /\ p \in Runs)
      BY DEF Procs, Runs
    <3> QED BY <1>2, <3>1 DEF Pc, Idle
  <2> QED BY <2>1
<1>7. InHands' = 0
  <2>1. InHand("boot")' = 0 /\ InHand("cron")' = 0 /\ InHand("stop")' = 0
    BY <1>6 DEF InHand, Loaded, Procs
  <2> QED BY <2>1 DEF InHands
<1>8. InJournal' = j
  BY <1>1, <1>2 DEF InJournal
<1>9. lost + (c + pending + h) \in Nat /\ lost' = lost + (c + pending + h) /\ stops + 1 \in Nat
  BY <1>2, <1>3, <1>4
<1>10. Typed'
  <2>1. Amounts'
    BY <1>0, <1>2, <1>5, <1>9 DEF Amounts
  <2>2. Files'
    <3>1. \A i \in DOMAIN journal \cup receipts : i \in Nat /\ i <= stops
      BY <1>0 DEF Files
    <3>2. \A i \in DOMAIN journal \cup receipts : i <= stops + 1
      BY <1>3, <3>1
    <3>3. stop'.pc \notin Early
      BY <1>2 DEF Idle, Early
    <3> QED BY <1>0, <1>2, <3>2, <3>3 DEF Files
  <2>3. Hands'
    BY <1>2, <1>6 DEF Hands, Loaded
  <2> QED BY <2>1, <2>2, <2>3 DEF Typed
<1>11. counted' = counted /\ Owed' = Owed /\ slipped' = slipped
  BY <1>2 DEF Owed
<1>12. Owed + (counted + c + pending + h + j + lost + slipped)
       = Owed + (counted + 0 + 0 + 0 + j + (lost + (c + pending + h)) + slipped)
  BY <1>3
<1> QED BY <1>1, <1>2, <1>3, <1>5, <1>7, <1>8, <1>9, <1>10, <1>11, <1>12, Kept
\* The steps that a run and the shutdown share.
LEMMA StopOrJob ==
  ASSUME Accounts, NEW p \in Procs,
         \/ Lock(p) \/ ReplayDone(p) \/ ReplayFails(p) \/ RemoveFile(p)
         \/ (\E id \in DOMAIN journal : AddTuicTrafficBatch(p, id))
         \/ Collect(p) \/ CollectEnds(p)
  PROVE  Accounts'
<1>1. CASE Lock(p) \/ ReplayDone(p) \/ ReplayFails(p)
  <2>1. UNCHANGED <<counted, receipts, journal, bytes, pending, stops, carried, again, lost, slipped>>
    BY <1>1 DEF Lock, ReplayDone, ReplayFails, Fault, disk, server, bounds, history
  <2>2. CASE Lock(p)
    <3>1. PICK pc \in {"collect", "replay"} : Go(p, pc, 0)
      BY <2>2 DEF Lock
    <3>2. Pc(p) = "lock"
      BY <2>2 DEF Lock
    <3> QED BY <2>1, <3>1, <3>2, NothingMoves DEF Loaded, Early
  <2>3. CASE ReplayDone(p) \/ ReplayFails(p)
    <3>1. PICK pc \in {"exit", "desired", "replay"} : Go(p, pc, 0)
      BY <2>3 DEF ReplayDone, ReplayFails, AfterReplay
    <3>2. Pc(p) \in {"replay", "remove"}
      BY <2>3 DEF ReplayDone, ReplayFails
    <3> QED BY <2>1, <3>1, <3>2, NothingMoves DEF Loaded, Early
  <2> QED BY <1>1, <2>2, <2>3
<1> QED BY <1>1, RemoveFileAccounts, BatchAccounts, CollectAccounts, CollectEndsAccounts

----------------------------------------------------------------------------
(***************************************************************************)
(* The end of a stop.                                                      *)
(***************************************************************************)

\* Where the shutdown has taken the pending bytes and not given them back.
Taken == {"prune", "store", "replay", "remove", "exit"}

\* Nothing runs in a panel that is down; and once StopAll had the manager to
\* itself, nothing is served, no run of the job is under way, and what the
\* shutdown has taken is not pending.
Quiet ==
    /\ run = [r \in Runs |-> run[r]]
    /\ ~up => stop = Idle /\ run = [r \in Runs |-> Idle]
    /\ stop # Idle /\ ~stray =>
         /\ srv = None
         /\ conn = [c \in Conns |-> None]
         /\ bytes = [u \in Users |-> 0]
         /\ run = [r \in Runs |-> Idle]
         /\ stop.pc \in Taken => pending = 0

\* Steps that touch nothing Quiet is about.
LEMMA SameQuiet ==
  ASSUME Quiet, UNCHANGED <<up, run, stop, stray, srv, conn, bytes, pending>> PROVE Quiet'
  BY DEF Quiet

\* Sessions need a server.
LEMMA ConnQuiet ==
  ASSUME Quiet, NEW c \in Conns,
         Relay(c) \/ EndConn(c) \/ \E u \in Users : Authenticate(c, u)
  PROVE  Quiet'
<1>1. UNCHANGED <<up, run, stop, stray>>
  BY DEF Relay, EndConn, Authenticate, procs, history
<1>2. conn[c] # None \/ srv # None
  BY DEF Relay, EndConn, Authenticate
<1>3. ~(stop # Idle /\ ~stray)
  BY <1>2 DEF Quiet
<1> QED BY <1>1, <1>3 DEF Quiet

\* A start during the stop stays on record.
LEMMA EnsureStray == ASSUME NEW inst, Ensure(inst), stray PROVE stray'
<1>1. CASE Remove
  BY <1>1 DEF Remove
<1>2. CASE Restart(inst)
  BY <1>2 DEF Restart
<1>3. CASE SetUsers(inst)
  BY <1>3 DEF SetUsers
<1>4. CASE UNCHANGED <<server, pending, stray, faults>>
  BY <1>4
<1> QED BY <1>1, <1>2, <1>3, <1>4 DEF Ensure

\* Ensure starts a server during a stop only on record.
LEMMA EnsureQuiet ==
  ASSUME Quiet, NEW inst, Ensure(inst), UNCHANGED <<up, run, stop>> PROVE Quiet'
<1>1. CASE Remove \/ Restart(inst)
  <2>1. /\ StopAndDrain
        /\ stray => stray'
        /\ srv' = None \/ stray' = (stray \/ stop # Idle)
    <3>1. CASE Remove
      BY <3>1 DEF Remove
    <3>2. CASE Restart(inst)
      BY <3>2, EnsureStray DEF Restart
    <3> QED BY <1>1, <3>1, <3>2
  <2>2. /\ pending' = pending + InCounters /\ conn' = [c \in Conns |-> None]
        /\ bytes' = [u \in Users |-> 0]
    BY <2>1 DEF StopAndDrain
  <2>3. ASSUME stop # Idle, ~stray' PROVE srv' = None /\ (stop.pc \in Taken => pending' = 0)
    <3>1. ~stray /\ srv' = None /\ bytes = [u \in Users |-> 0]
      BY <2>1, <2>3 DEF Quiet
    <3>2. InCounters = 0
      <4>1. DOMAIN bytes = Users /\ IsFiniteSet(Users) /\ \A u \in Users : bytes[u] = 0
        BY <3>1, TuicAssumption
      <4> QED BY <4>1, SumZero DEF InCounters, SumFunction
    <3>3. stop.pc \in Taken => pending = 0
      BY <2>3, <3>1 DEF Quiet
    <3> QED BY <2>2, <3>1, <3>2, <3>3
  <2> QED BY <2>1, <2>2, <2>3 DEF Quiet
<1>2. CASE srv # None /\ SetUsers(inst)
  BY <1>2 DEF SetUsers, Quiet
<1>3. CASE UNCHANGED <<server, pending, stray, faults>>
  BY <1>3, SameQuiet DEF server
<1> QED BY <1>1, <1>2, <1>3 DEF Ensure

\* A run under way: neither is the panel down, nor did StopAll have the manager
\* to itself.
LEMMA JobQuiet ==
  ASSUME Quiet, NEW r \in Runs, JobStep(r) PROVE Quiet'
<1>0. r # "stop"
  BY DEF Runs
<1>1. run[r].pc # "idle"
  BY <1>0 DEF JobStep, Lock, ReplayDone, ReplayFails, RemoveFile, AddTuicTrafficBatch, ReadDesired,
       Reconcile, Collect, CollectEnds, AddTraffic, AddTrafficFails, Pc
<1>2. up /\ ~(stop # Idle /\ ~stray)
  BY <1>1 DEF Quiet, Idle
<1>3. up' = up /\ (stray => stray')
  <2>1. CASE Reconcile(r)
    BY <2>1, EnsureStray DEF Reconcile
  <2> QED BY <2>1 DEF JobStep, Lock, ReplayDone, ReplayFails, RemoveFile, AddTuicTrafficBatch, ReadDesired,
       Collect, CollectEnds, AddTraffic, AddTrafficFails, history
<1>4. \E pc, held : Go(r, pc, held)
  BY DEF JobStep, Lock, ReplayDone, ReplayFails, AfterReplay, RemoveFile, AddTuicTrafficBatch,
       ReadDesired, Reconcile, Collect, CollectEnds, AddTraffic, AddTrafficFails
<1>5. stop' = stop /\ run' = [q \in Runs |-> run'[q]]
  BY <1>0, <1>4 DEF Go, Quiet
<1> QED BY <1>2, <1>3, <1>5 DEF Quiet

\* The steps of the shutdown.
LEMMA StopQuiet ==
  ASSUME Quiet,
         \/ Lock("stop") \/ Collect("stop") \/ CollectEnds("stop") \/ StoreBatch \/ StoreFails
         \/ ReplayDone("stop") \/ ReplayFails("stop") \/ RemoveFile("stop")
         \/ \E id \in DOMAIN journal : AddTuicTrafficBatch("stop", id)
  PROVE  Quiet'
<1>1. stop # Idle /\ up
  <2>1. stop.pc # "idle"
    BY DEF Lock, Collect, CollectEnds, StoreBatch, StoreFails, ReplayDone, ReplayFails, RemoveFile,
         AddTuicTrafficBatch, Pc
  <2> QED BY <2>1 DEF Quiet, Idle
<1>2. UNCHANGED <<up, run, stray, srv, conn>>
  BY DEF Lock, Collect, CollectEnds, StoreBatch, StoreFails, ReplayDone, ReplayFails, AfterReplay,
       RemoveFile, AddTuicTrafficBatch, Go, server, history
<1>3. CASE stray
  BY <1>1, <1>2, <1>3 DEF Quiet
<1>4. CASE ~stray
  <2>1. /\ srv = None /\ bytes = [u \in Users |-> 0]
        /\ stop.pc \in Taken => pending = 0
    BY <1>1, <1>4 DEF Quiet
  <2>2. bytes' = [u \in Users |-> 0]
    <3>1. CASE Collect("stop")
      BY <2>1, <3>1 DEF Collect, Swap
    <3>2. CASE CollectEnds("stop")
      BY <2>1, <3>2 DEF CollectEnds, Prune
    <3> QED BY <2>1, <3>1, <3>2 DEF Lock, StoreBatch, StoreFails, ReplayDone, ReplayFails, RemoveFile,
              AddTuicTrafficBatch, server
  <2>3. stop'.pc \in Taken => pending' = 0
    <3>1. CASE Collect("stop")
      BY <3>1 DEF Collect, Swap
    <3>2. CASE Lock("stop") \/ StoreFails
      BY <3>2 DEF Lock, StoreFails, Go, Taken
    <3>3. CASE CollectEnds("stop") \/ StoreBatch \/ ReplayDone("stop") \/ ReplayFails("stop")
               \/ RemoveFile("stop") \/ \E id \in DOMAIN journal : AddTuicTrafficBatch("stop", id)
      <4>1. pending' = pending
        BY <3>3 DEF CollectEnds, StoreBatch, ReplayDone, ReplayFails, RemoveFile, AddTuicTrafficBatch
      <4>2. stop.pc \in Taken
        BY <3>3 DEF CollectEnds, StoreBatch, ReplayDone, ReplayFails, RemoveFile, AddTuicTrafficBatch,
             Pc, Taken
      <4> QED BY <2>1, <4>1, <4>2
    <3> QED BY <3>1, <3>2, <3>3
  <2> QED BY <1>1, <1>2, <1>4, <2>2, <2>3 DEF Quiet
<1> QED BY <1>3, <1>4

\* Quiet is inductive: no run, edit or session undoes what StopAll left.
THEOREM QuietInvariant == Spec => []Quiet
<1>1. Init => Quiet
  BY DEF Init, Quiet
<1>2. Quiet /\ [Next]_vars => Quiet'
  <2> SUFFICES ASSUME Quiet, [Next]_vars PROVE Quiet'
    OBVIOUS
  <2>1. CASE UNCHANGED vars
    BY <2>1, SameQuiet DEF vars, server, procs, history
  <2>2. CASE AcceptFails
    BY <2>2 DEF AcceptFails, Quiet, procs, history
  <2>3. CASE CloseUserConns
    BY <2>3 DEF CloseUserConns, Quiet, procs, history
  <2>4. ASSUME NEW r \in Rows, Edit(r) \/ Apply(r) PROVE Quiet'
    <3>1. CASE Edit(r)
      BY <3>1, SameQuiet DEF Edit, server, history
    <3>2. CASE Apply(r)
      BY <3>2, EnsureQuiet DEF Apply
    <3> QED BY <2>4, <3>1, <3>2
  <2>5. CASE CronRun \/ Boot
    <3>1. stop = Idle /\ stop' = Idle /\ up'
      BY <2>5 DEF CronRun, Boot, Go, Quiet
    <3>2. run' = [r \in Runs |-> run'[r]]
      BY <2>5 DEF CronRun, Boot, Go, Quiet
    <3> QED BY <3>1, <3>2 DEF Quiet
  <2>6. CASE StopAll
    <3>1. /\ up /\ up' = up /\ run["cron"] = Idle /\ stray' = (run["boot"] # Idle)
          /\ srv' = None /\ conn' = [c \in Conns |-> None] /\ bytes' = [u \in Users |-> 0]
          /\ stop' = [pc |-> "lock", held |-> 0] /\ run' = run
      BY <2>6 DEF StopAll, StopAndDrain, Go
    <3>2. ~stray' => run = [r \in Runs |-> Idle]
      BY <3>1 DEF Runs, Quiet
    <3>3. stop'.pc \notin Taken
      BY <3>1 DEF Taken
    <3> QED BY <3>1, <3>2, <3>3 DEF Quiet
  <2>7. CASE Exit \/ Crash
    <3>1. stop' = Idle /\ run' = [r \in Runs |-> Idle]
      BY <2>7 DEF Exit, Crash, End
    <3> QED BY <3>1 DEF Quiet
  <2>8. CASE StopStep
    BY <2>7, <2>8, StopQuiet DEF StopStep
  <2> QED BY <2>1, <2>2, <2>3, <2>4, <2>5, <2>6, <2>7, <2>8, ConnQuiet, JobQuiet DEF Next
<1> QED BY <1>1, <1>2, PTL DEF Spec

\* Accounts is inductive: each step moves bytes from one place to another.
THEOREM AccountsInvariant == Spec => []Accounts
<1>1. Init => Accounts
  <2> SUFFICES ASSUME Init PROVE Accounts
    OBVIOUS
  <2>0. /\ counted = 0 /\ pending = 0 /\ carried = 0 /\ again = 0 /\ lost = 0 /\ slipped = 0 /\ stops = 0
        /\ bytes = [u \in Users |-> 0] /\ journal = <<>> /\ receipts = {} /\ stop = Idle
        /\ run = [r \in Runs |-> IF r = "boot" /\ ~workload.serving
                                    THEN [pc |-> "lock", held |-> 0] ELSE Idle]
    BY DEF Init
  <2>1. Amounts
    BY <2>0 DEF Amounts
  <2>2. DOMAIN journal = {} /\ journal = [i \in DOMAIN journal |-> journal[i]]
    BY <2>0
  <2>3. Files
    BY <2>0, <2>2, FS_EmptySet DEF Files, Idle, Early
  <2>4. \A p \in Procs : Pc(p) \in {"idle", "lock"}
    <3>1. ASSUME NEW p \in Procs PROVE Pc(p) \in {"idle", "lock"}
      <4>1. p = "stop" \/ (p # "stop" /\ p \in Runs)
        BY DEF Procs, Runs
      <4> QED BY <2>0, <4>1 DEF Pc, Idle
    <3> QED BY <3>1
  <2>5. Hands
    BY <2>0, <2>4 DEF Hands, Loaded
  <2>6. InHands = 0
    <3>1. InHand("boot") = 0 /\ InHand("cron") = 0 /\ InHand("stop") = 0
      BY <2>4 DEF InHand, Loaded, Procs
    <3> QED BY <3>1 DEF InHands
  <2>7. InCounters = 0
    <3>1. DOMAIN bytes = Users /\ IsFiniteSet(Users) /\ \A u \in Users : bytes[u] = 0
      BY <2>0, TuicAssumption
    <3> QED BY <3>1, SumZero DEF InCounters, SumFunction
  <2>8. InJournal = 0
    <3>1. DOMAIN journal \ receipts = {}
      BY <2>2
    <3> QED BY <3>1, SumEmpty DEF InJournal
  <2>9. Typed
    BY <2>1, <2>3, <2>5 DEF Typed
  <2>10. Conserved <=> Owed = counted + 0 + pending + 0 + 0 + lost + slipped
    BY <2>6, <2>7, <2>8, <2>9, Balance DEF Balanced
  <2> QED BY <2>0, <2>9, <2>10 DEF Accounts, Owed
<1>2. Accounts /\ SessionInv /\ Quiet /\ [Next]_vars => Accounts'
  <2> SUFFICES ASSUME Accounts, SessionInv, Quiet, [Next]_vars PROVE Accounts'
    OBVIOUS
  <2>1. CASE UNCHANGED vars
    BY <2>1, SameAccounts DEF vars, disk, server, procs, bounds, history
  <2>2. ASSUME NEW c \in Conns, Relay(c) \/ EndConn(c) \/ \E u \in Users : Authenticate(c, u)
        PROVE  Accounts'
    <3>1. CASE EndConn(c) \/ \E u \in Users : Authenticate(c, u)
      BY <3>1, SameAccounts DEF EndConn, Authenticate, disk, procs, bounds, history
    <3> QED BY <2>2, <3>1, RelayAccounts
  <2>3. CASE AcceptFails \/ CloseUserConns
    BY <2>3, SameAccounts DEF AcceptFails, CloseUserConns, Fault, disk, procs, bounds, history
  <2>4. ASSUME NEW r \in Rows, Edit(r) \/ Apply(r) PROVE Accounts'
    <3>1. CASE Edit(r)
      BY <3>1, SameAccounts DEF Edit, server, history
    <3> QED BY <2>4, <3>1, ApplyAccounts
  <2>5. CASE CronRun \/ Boot
    <3>1. UNCHANGED <<counted, receipts, journal, bytes, pending, stops, carried, again, lost, slipped>>
      BY <2>5 DEF CronRun, Boot, disk, server, bounds, history
    <3>2. CASE CronRun
      BY <3>1, <3>2, NothingMoves DEF CronRun, Procs, Loaded, Pc, Idle
    <3>3. CASE Boot
      <4>1. Pc("boot") \notin Loaded
        BY <3>3 DEF Boot, Quiet, Pc, Runs, Idle, Loaded
      <4> QED BY <3>1, <3>3, <4>1, NothingMoves DEF Boot, Procs, Loaded
    <3> QED BY <2>5, <3>2, <3>3
  <2>6. ASSUME NEW r \in Runs, JobStep(r) PROVE Accounts'
    <3>0. r \in Procs
      BY DEF Runs, Procs
    <3>1. CASE ReadDesired(r)
      <4>1. UNCHANGED <<counted, receipts, journal, bytes, pending, stops, carried, again, lost, slipped>>
        BY <3>1 DEF ReadDesired, Fault, disk, server, bounds, history
      <4>2. PICK pc, held : pc \in {"reconcile", "reconcile2", "idle"} /\ Go(r, pc, held)
        BY <3>1 DEF ReadDesired
      <4>3. Pc(r) \in {"desired", "again"} /\ r # "stop"
        BY <3>1 DEF ReadDesired, Pc, Runs
      <4> QED BY <3>0, <4>1, <4>2, <4>3, NothingMoves DEF Loaded
    <3> QED BY <2>6, <3>0, <3>1, StopOrJob, ReconcileAccounts, AddTrafficAccounts DEF JobStep
  <2>7. CASE StopStep
    <3>0. "stop" \in Procs
      BY DEF Procs
    <3> QED BY <2>7, <3>0, StopOrJob, StoreBatchAccounts, StoreFailsAccounts, EndAccounts DEF StopStep
  <2>8. CASE StopAll
    BY <2>8, StopAllAccounts
  <2>9. CASE Crash
    BY <2>9, EndAccounts
  <2> QED BY <2>1, <2>2, <2>3, <2>4, <2>5, <2>6, <2>7, <2>8, <2>9 DEF Next
<1> QED BY <1>1, <1>2, SessionInvariant, QuietInvariant, PTL DEF Spec

\* Every byte a session carried is in exactly one place, however the relays, the
\* swaps of the counters, failed writes, the journal, its replays and the ends of
\* the panel interleave; but for the bytes that AddTraffic committed before it
\* reported an error, which the job gives back.
THEOREM BytesConserved == Spec => []Conserved
<1>1. Accounts => Conserved
  BY DEF Accounts
<1> QED BY <1>1, AccountsInvariant, PTL

\* A stop that stored what it collected, with the manager to itself, loses
\* nothing.
THEOREM StopLosesNothing == Spec => OrderlyStop
<1>1. Accounts /\ Quiet /\ [Next]_vars
      => [stop.pc = "exit" /\ ~up' /\ stops' = stops /\ ~stray => lost' = lost]_vars
  <2> SUFFICES ASSUME Accounts, Quiet, [Next]_vars, stop.pc = "exit", stops' = stops, ~stray
               PROVE  lost' = lost
    OBVIOUS
  <2>1. CASE Exit
    <3>1. /\ bytes = [u \in Users |-> 0] /\ run = [r \in Runs |-> Idle] /\ pending = 0
      BY DEF Quiet, Idle, Taken
    <3>2. InCounters = 0
      <4>1. DOMAIN bytes = Users /\ IsFiniteSet(Users) /\ \A u \in Users : bytes[u] = 0
        BY <3>1, TuicAssumption
      <4> QED BY <4>1, SumZero DEF InCounters, SumFunction
    <3>3. InHands = 0
      <4>1. InHand("boot") = 0 /\ InHand("cron") = 0 /\ InHand("stop") = 0
        BY <3>1 DEF InHand, Pc, Loaded, Runs, Idle
      <4> QED BY <4>1 DEF InHands
    <3>4. PICK j \in Nat : InJournal = j
      BY Numbers
    <3>5. InMemory = 0 + pending + 0
      BY <3>2, <3>3, <3>4, Balance DEF Accounts, Balanced
    <3>6. lost' = lost + InMemory
      BY <2>1 DEF Exit, End
    <3> QED BY <3>1, <3>5, <3>6, Numbers
  <2>2. CASE Crash
    BY <2>2, Numbers DEF Crash
  <2>3. CASE UNCHANGED vars
    BY <2>3 DEF vars, history
  <2>4. ASSUME NEW c \in Conns, Relay(c) \/ EndConn(c) \/ \E u \in Users : Authenticate(c, u)
        PROVE  lost' = lost
    BY <2>4 DEF Relay, EndConn, Authenticate, history
  <2>5. CASE AcceptFails \/ CloseUserConns \/ CronRun \/ Boot \/ StopAll
    BY <2>5 DEF AcceptFails, CloseUserConns, CronRun, Boot, StopAll, history
  <2>6. ASSUME NEW r \in Rows, Edit(r) \/ Apply(r) PROVE lost' = lost
    BY <2>6 DEF Edit, Apply, history
  <2>7. ASSUME NEW p, \/ Lock(p) \/ ReplayDone(p) \/ ReplayFails(p) \/ RemoveFile(p)
                      \/ (\E id \in DOMAIN journal : AddTuicTrafficBatch(p, id))
                      \/ ReadDesired(p) \/ Reconcile(p) \/ Collect(p) \/ CollectEnds(p)
                      \/ AddTraffic(p) \/ AddTrafficFails(p) \/ StoreBatch \/ StoreFails
        PROVE  lost' = lost
    BY <2>7 DEF Lock, ReplayDone, ReplayFails, RemoveFile, AddTuicTrafficBatch, ReadDesired, Reconcile,
         Collect, CollectEnds, AddTraffic, AddTrafficFails, StoreBatch, StoreFails, history
  <2> QED BY <2>1, <2>2, <2>3, <2>4, <2>5, <2>6, <2>7 DEF Next, JobStep, StopStep
<1> QED BY <1>1, AccountsInvariant, QuietInvariant, PTL DEF Spec, OrderlyStop
=============================================================================
