---------------------------- MODULE TuicTraffic ----------------------------
(***************************************************************************)
(* A TUIC inbound served inside the panel: its listener and users, the     *)
(* bytes its sessions carry and their way to client_traffics.              *)
(*                                                                         *)
(* The bytes of a client sit in the counters of a user object, in the      *)
(* manager's pendingTraffic, in the hands of a run of the job, or in a     *)
(* batch of the journal that the panel writes when it stops and replays    *)
(* when it starts.  The manager's mutex makes its calls one step each,     *)
(* except that sessions go on while users are replaced or collected.       *)
(*                                                                         *)
(* One inbound with one client; up and down are one counter.  A crash      *)
(* takes the memory of the panel; files and database stay.                 *)
(***************************************************************************)
EXTENDS Naturals, FiniteSets, Functions

CONSTANTS
    Conns,      \* QUIC connections
    Users,      \* user objects of the registry
    Creds,      \* passwords of the client
    Ports,      \* what the structural fingerprint covers
    None,
    Workloads   \* how much happens: see the assumption

\* Bounds on the bytes carried, the edits, the failing calls and the ends of the
\* panel, and whether the behaviour begins with the panel's start or later.
ASSUME TuicAssumption ==
    /\ IsFiniteSet(Users) /\ Users # {}
    /\ \A w \in Workloads :
         /\ w.bytes \in Nat /\ w.edits \in Nat /\ w.faults \in Nat /\ w.stops \in Nat
         /\ w.serving \in BOOLEAN

\* The job's runs: the one started with the panel and the ones of the scheduler.
Runs == {"boot", "cron"}

VARIABLES
    want,      \* the inbound in the database
    counted,   \* client_traffics
    receipts,  \* tuic_traffic_receipts
    journal,   \* files of the journal: batch id -> bytes
    up,        \* the panel process is there
    srv,       \* the manager's server
    user,      \* state of each user object
    bytes,     \* its counter
    conn,      \* connection -> its user, and whether it was closed by the server
    pending,   \* manager.pendingTraffic
    cutting,   \* the manager's mutex: UpdateUsers between SetUsers and the closing
    run,       \* runs of the job
    stop,      \* the shutdown
    writer,    \* holder of tuicJournalMu
    calls,     \* edits on their way to the manager
    edits, faults, stops,
    carried,   \* bytes carried (history)
    again,     \* bytes given back although they were counted (history)
    lost,      \* bytes in memory when the process ended (history)
    slipped,   \* bytes of a dropped user object (history)
    stray,     \* StopAll did not have the manager to itself (history)
    workload   \* what happens in this behaviour

disk == <<want, counted, receipts, journal>>
server == <<srv, user, bytes, conn, cutting>>
procs == <<run, stop, writer, calls>>
bounds == <<edits, faults, stops, workload>>
history == <<carried, again, lost, slipped, stray>>
vars == <<disk, up, server, pending, procs, bounds, history>>

AnyCred == CHOOSE k \in Creds : TRUE
AnyPort == CHOOSE k \in Ports : TRUE
AnyUser == CHOOSE u \in Users : TRUE

Off == [on |-> FALSE, cred |-> AnyCred, port |-> AnyPort]
Rows == [on : {TRUE}, cred : Creds, port : Ports] \cup {Off}
Idle == [pc |-> "idle", held |-> 0]

Down ==
    /\ srv' = None
    /\ user' = [u \in Users |-> "free"]
    /\ bytes' = [u \in Users |-> 0]
    /\ conn' = [c \in Conns |-> None]
    /\ cutting' = FALSE

Serving(r) == [cred |-> r.cred, port |-> r.port, running |-> TRUE]

Init ==
    /\ workload \in Workloads
    /\ want = [on |-> TRUE, cred |-> AnyCred, port |-> AnyPort]
    /\ counted = 0
    /\ receipts = {}
    /\ journal = <<>>
    /\ up = TRUE
    /\ srv = IF workload.serving THEN Serving(want) ELSE None
    /\ user = [u \in Users |-> IF workload.serving /\ u = AnyUser THEN "current" ELSE "free"]
    /\ bytes = [u \in Users |-> 0]
    /\ conn = [c \in Conns |-> None]
    /\ cutting = FALSE
    /\ pending = 0
    /\ run = [r \in Runs |-> IF r = "boot" /\ ~workload.serving
                               THEN [pc |-> "lock", held |-> 0] ELSE Idle]
    /\ stop = Idle
    /\ writer = None
    /\ calls = {}
    /\ edits = 0 /\ faults = 0 /\ stops = 0
    /\ carried = 0 /\ again = 0 /\ lost = 0 /\ slipped = 0 /\ stray = FALSE

\* A call that fails.
Fault ==
    /\ faults < workload.faults
    /\ faults' = faults + 1
    /\ UNCHANGED <<edits, stops, workload>>

----------------------------------------------------------------------------
(***************************************************************************)
(* Sessions.                                                               *)
(***************************************************************************)

Current == {u \in Users : user[u] = "current"}
Retired == {u \in Users : user[u] = "retired"}
Sessions(u) == {c \in Conns : conn[c] # None /\ conn[c].user = u}

\* The registry's lock, which CollectTrafficDeltas holds.
Collecting ==
    \/ \E r \in Runs : run[r].pc = "prune"
    \/ stop.pc = "prune"

\* AuthenticateAndRegister: under the registry's lock, so that a user cannot be
\* revoked between the check and the registration.
Authenticate(c, u) ==
    /\ srv # None
    /\ ~Collecting
    /\ conn[c] = None
    /\ u \in Current
    /\ conn' = [conn EXCEPT ![c] = [user |-> u, open |-> TRUE]]
    /\ UNCHANGED <<disk, up, srv, user, bytes, cutting, pending, procs, bounds, history>>

\* A relay counts what it reads, until the connection's relays have ended.
Relay(c) ==
    /\ conn[c] # None
    /\ carried < workload.bytes
    /\ carried' = carried + 1
    /\ bytes' = [bytes EXCEPT ![conn[c].user] = @ + 1]
    /\ UNCHANGED <<disk, up, srv, user, conn, cutting, pending, procs, bounds,
                   again, lost, slipped, stray>>

\* cleanup of handleConn, once the relays are done.
EndConn(c) ==
    /\ conn[c] # None
    /\ conn' = [conn EXCEPT ![c] = None]
    /\ UNCHANGED <<disk, up, srv, user, bytes, cutting, pending, procs, bounds, history>>

\* The listener breaks: the sessions go on, no new one is accepted.
AcceptFails ==
    /\ srv # None /\ srv.running
    /\ Fault
    /\ srv' = [srv EXCEPT !.running = FALSE]
    /\ UNCHANGED <<disk, up, user, bytes, conn, cutting, pending, procs, history>>

----------------------------------------------------------------------------
(***************************************************************************)
(* The manager.                                                            *)
(***************************************************************************)

Free == ~cutting /\ ~Collecting

InCounters == SumFunction(bytes)

\* stopAndDrainLocked: Close ends every session, then the counters are drained.
StopAndDrain ==
    /\ pending' = pending + InCounters
    /\ conn' = [c \in Conns |-> None]
    /\ bytes' = [u \in Users |-> 0]

\* removeLocked.
Remove ==
    /\ StopAndDrain
    /\ srv' = None
    /\ user' = [u \in Users |-> "free"]
    /\ UNCHANGED <<cutting, stray, faults>>

\* User objects are alike: one that is free.
FreeUser == CHOOSE u \in Users : user[u] = "free"

\* startLocked with a fresh registry, or the port is taken.
Restart(inst) ==
    /\ StopAndDrain
    /\ \/ /\ srv' = Serving(inst)
          /\ user' = [w \in Users |-> IF w = AnyUser THEN "current" ELSE "free"]
          /\ stray' = (stray \/ stop # Idle)
          /\ UNCHANGED faults
       \/ /\ faults < workload.faults
          /\ faults' = faults + 1
          /\ srv' = None
          /\ user' = [w \in Users |-> "free"]
          /\ UNCHANGED stray
    /\ UNCHANGED cutting

\* Mutant: the replaced user is not reported as revoked.
SetUsersUnreported(inst) ==
    /\ \E u \in Users : user[u] = "free"
    /\ user' = [w \in Users |-> IF w = FreeUser THEN "current"
                                ELSE IF w \in Current THEN "retired" ELSE user[w]]
    /\ srv' = [srv EXCEPT !.cred = inst.cred]
    /\ UNCHANGED <<cutting, conn, bytes, pending, stray, faults>>

\* SetUsers of UpdateUsers: the old object is kept until its sessions have
\* ended; its connections are closed by the next step.
SetUsers(inst) ==
    /\ \E u \in Users : user[u] = "free"
    /\ user' = [w \in Users |-> IF w = FreeUser THEN "current"
                                ELSE IF w \in Current THEN "retired" ELSE user[w]]
    /\ srv' = [srv EXCEPT !.cred = inst.cred]
    /\ cutting' = TRUE
    /\ UNCHANGED <<conn, bytes, pending, stray, faults>>

\* Mutant: a server whose listener broke is kept.
EnsureKeepsDead(inst) ==
    /\ Free
    /\ \/ ~inst.on /\ Remove
       \/ inst.on /\ srv # None /\ srv.port = inst.port
          /\ \/ srv.cred = inst.cred /\ UNCHANGED <<server, pending, stray, faults>>
             \/ srv.cred # inst.cred /\ SetUsers(inst)
       \/ inst.on /\ ~(srv # None /\ srv.port = inst.port) /\ Restart(inst)

\* ensureLocked, or removeLocked for an inbound that is off: what Ensure, Remove
\* and Reconcile come to for one inbound.
Ensure(inst) ==
    /\ Free
    /\ \/ ~inst.on /\ Remove
       \/ inst.on /\ srv # None /\ srv.running /\ srv.port = inst.port
          /\ \/ srv.cred = inst.cred /\ UNCHANGED <<server, pending, stray, faults>>
             \/ srv.cred # inst.cred /\ SetUsers(inst)
       \/ inst.on /\ ~(srv # None /\ srv.running /\ srv.port = inst.port) /\ Restart(inst)

\* closeUserConns for the revoked users; UpdateUsers returns.
CloseUserConns ==
    /\ cutting
    /\ cutting' = FALSE
    /\ conn' = [c \in Conns |-> IF conn[c] # None /\ conn[c].user \in Retired
                                  THEN [conn[c] EXCEPT !.open = FALSE] ELSE conn[c]]
    /\ UNCHANGED <<disk, up, srv, user, bytes, pending, procs, bounds, history>>

\* CollectAllTraffic takes the pending bytes and swaps the counters of a running
\* server; h is what it returns.
Swap(h) ==
    /\ Free
    /\ pending' = 0
    /\ IF srv # None /\ srv.running
         THEN h = pending + InCounters /\ bytes' = [u \in Users |-> 0]
         ELSE h = pending /\ UNCHANGED bytes

\* ... and forgets the retired users without a session.
Prune ==
    LET gone == {u \in Retired : srv # None /\ srv.running /\ Sessions(u) = {}}
    IN  /\ user' = [u \in Users |-> IF u \in gone THEN "free" ELSE user[u]]
        /\ slipped' = slipped + SumFunctionOnSet(bytes, gone)
        /\ bytes' = [u \in Users |-> IF u \in gone THEN 0 ELSE bytes[u]]

----------------------------------------------------------------------------
(***************************************************************************)
(* Edits: the row is committed, then applied from what the edit read.      *)
(***************************************************************************)

Edit(r) ==
    /\ up /\ edits < workload.edits
    /\ r # want
    /\ want' = r
    /\ calls' = calls \cup {r}
    /\ edits' = edits + 1
    /\ UNCHANGED <<counted, receipts, journal, up, server, pending, run, stop, writer,
                   faults, stops, workload, history>>

Apply(r) ==
    /\ r \in calls
    /\ calls' = calls \ {r}
    /\ Ensure(r)
    /\ UNCHANGED <<disk, up, run, stop, writer, edits, stops, workload,
                   carried, again, lost, slipped>>

----------------------------------------------------------------------------
(***************************************************************************)
(* The journal.  A process p is a run of the job or the shutdown.          *)
(***************************************************************************)

Pc(p) == IF p = "stop" THEN stop.pc ELSE run[p].pc
Held(p) == IF p = "stop" THEN stop.held ELSE run[p].held

Go(p, pc, held) ==
    IF p = "stop" THEN stop' = [pc |-> pc, held |-> held] /\ UNCHANGED run
    ELSE run' = [run EXCEPT ![p] = [pc |-> pc, held |-> held]] /\ UNCHANGED stop

\* tuicJournalMu.
Lock(p) ==
    /\ Pc(p) = "lock"
    /\ writer = None
    /\ writer' = p
    /\ Go(p, IF p = "stop" THEN "collect" ELSE "replay", 0)
    /\ UNCHANGED <<disk, up, server, pending, calls, bounds, history>>

\* The replay ended: with the journal empty, or at an error.  A run goes on; the
\* shutdown tries again, at most three times, and then leaves the files.
AfterReplay(p) ==
    /\ writer' = None
    /\ Go(p, IF p = "stop" THEN "exit" ELSE "desired", 0)

ReplayDone(p) ==
    /\ Pc(p) = "replay"
    /\ DOMAIN journal = {}
    /\ AfterReplay(p)
    /\ UNCHANGED <<disk, up, server, pending, calls, bounds, history>>

ReplayFails(p) ==
    /\ Pc(p) \in {"replay", "remove"}
    /\ Fault
    /\ \/ AfterReplay(p)
       \/ p = "stop" /\ Go(p, "replay", 0) /\ UNCHANGED writer
    /\ UNCHANGED <<disk, up, server, pending, calls, history>>

\* Mutant: the receipt is not consulted.
AddBatchAgain(p, id) ==
    /\ Pc(p) = "replay"
    /\ id \in DOMAIN journal
    /\ counted' = counted + journal[id]
    /\ receipts' = receipts \cup {id}
    /\ Go(p, "remove", id)
    /\ UNCHANGED <<want, journal, up, server, pending, writer, calls, bounds, history>>

\* AddTuicTrafficBatch: the receipt and the bytes in one transaction; a batch
\* with a receipt adds nothing.
AddTuicTrafficBatch(p, id) ==
    /\ Pc(p) = "replay"
    /\ id \in DOMAIN journal
    /\ counted' = IF id \in receipts THEN counted ELSE counted + journal[id]
    /\ receipts' = receipts \cup {id}
    /\ Go(p, "remove", id)
    /\ UNCHANGED <<want, journal, up, server, pending, writer, calls, bounds, history>>

RemoveFile(p) ==
    /\ Pc(p) = "remove"
    /\ journal' = Restrict(journal, DOMAIN journal \ {Held(p)})
    /\ Go(p, "replay", 0)
    /\ UNCHANGED <<want, counted, receipts, up, server, pending, writer, calls, bounds, history>>

----------------------------------------------------------------------------
(***************************************************************************)
(* A run of the job.                                                       *)
(***************************************************************************)

\* The scheduler starts none while one is running, nor once it is stopped.
CronRun ==
    /\ up /\ stop = Idle
    /\ run["cron"] = Idle
    /\ Go("cron", "lock", 0)
    /\ UNCHANGED <<disk, up, server, pending, writer, calls, bounds, history>>

\* DesiredTuicInstances, or the query fails and the run ends.
ReadDesired(r) ==
    /\ run[r].pc \in {"desired", "again"}
    /\ \/ /\ Go(r, IF run[r].pc = "desired" THEN "reconcile" ELSE "reconcile2", want)
          /\ UNCHANGED bounds
       \/ Fault /\ Go(r, "idle", 0)
    /\ UNCHANGED <<disk, up, server, pending, writer, calls, history>>

Reconcile(r) ==
    /\ run[r].pc \in {"reconcile", "reconcile2"}
    /\ Ensure(run[r].held)
    /\ Go(r, IF run[r].pc = "reconcile" THEN "collect" ELSE "idle", 0)
    /\ UNCHANGED <<disk, up, writer, calls, edits, stops, workload,
                   carried, again, lost, slipped>>

Collect(p) ==
    /\ Pc(p) = "collect"
    /\ \E h \in 0 .. carried + again : Swap(h) /\ Go(p, "prune", h)
    /\ UNCHANGED <<disk, up, srv, user, conn, cutting, writer, calls, bounds, history>>

CollectEnds(p) ==
    /\ Pc(p) = "prune"
    /\ Prune
    /\ \/ p = "stop" /\ Go(p, IF Held(p) = 0 THEN "replay" ELSE "store", Held(p))
       \/ p # "stop" /\ Go(p, "add", Held(p))
       \/ p # "stop" /\ Held(p) = 0 /\ Go(p, "idle", 0)
    /\ UNCHANGED <<disk, up, srv, conn, cutting, pending, writer, calls, bounds,
                   carried, again, lost, stray>>

\* AddTraffic commits; a client it disabled makes the run reconcile again.
AddTraffic(r) ==
    /\ run[r].pc = "add"
    /\ counted' = counted + run[r].held
    /\ \/ Go(r, "idle", 0)
       \/ Go(r, "again", 0)
    /\ UNCHANGED <<want, receipts, journal, up, server, pending, writer, calls, bounds, history>>

\* It fails: RequeueClientTraffic.  AddTraffic keeps no receipt, and its first
\* transaction may have committed: the answer was lost, or the maintenance after
\* it panicked (safeApply).
AddTrafficFails(r) ==
    /\ run[r].pc = "add"
    /\ Free
    /\ Fault
    /\ pending' = pending + run[r].held
    /\ \/ UNCHANGED <<counted, again>>
       \/ counted' = counted + run[r].held /\ again' = again + run[r].held
    /\ Go(r, "idle", 0)
    /\ UNCHANGED <<want, receipts, journal, up, server, writer, calls, carried, lost, slipped, stray>>

----------------------------------------------------------------------------
(***************************************************************************)
(* The shutdown and its end; a crash; the next start.                      *)
(***************************************************************************)

\* Mutant: the scheduler's runs are not waited for.
StopAllAtOnce ==
    /\ up /\ stop = Idle
    /\ stops < workload.stops
    /\ stops' = stops + 1
    /\ Free
    /\ StopAndDrain
    /\ srv' = None
    /\ user' = [u \in Users |-> "free"]
    /\ stray' = (run["boot"] # Idle)
    /\ Go("stop", "lock", 0)
    /\ UNCHANGED <<disk, up, cutting, writer, calls, edits, faults, workload,
                   carried, again, lost, slipped>>

\* The scheduler's runs are waited for, the first run is not.  StopAll.
StopAll ==
    /\ up /\ stop = Idle
    /\ stops < workload.stops
    /\ stops' = stops + 1
    /\ run["cron"] = Idle
    /\ Free
    /\ StopAndDrain
    /\ srv' = None
    /\ user' = [u \in Users |-> "free"]
    /\ stray' = (run["boot"] # Idle)
    /\ Go("stop", "lock", 0)
    /\ UNCHANGED <<disk, up, cutting, writer, calls, edits, faults, workload,
                   carried, again, lost, slipped>>

\* storeTuicBatch under a new id; the sync of the directory may still fail, and
\* then the file is there and the call is over.
StoreBatch ==
    /\ stop.pc = "store"
    /\ journal' = [i \in DOMAIN journal \cup {stops} |->
                     IF i = stops THEN stop.held ELSE journal[i]]
    /\ \/ Go("stop", "replay", 0) /\ UNCHANGED <<bounds, writer>>
       \/ Fault /\ Go("stop", "exit", 0) /\ writer' = None
    /\ UNCHANGED <<want, counted, receipts, up, server, pending, calls, history>>

\* Nothing was stored: the bytes go back to the manager.
StoreFails ==
    /\ stop.pc = "store"
    /\ Free
    /\ Fault
    /\ pending' = pending + stop.held
    /\ writer' = None
    /\ Go("stop", "failed", 0)
    /\ UNCHANGED <<disk, up, server, calls, history>>

\* What only the memory holds.
InMemory ==
    LET held == [p \in Runs \cup {"stop"} |->
                   IF Pc(p) \in {"prune", "add", "store"} THEN Held(p) ELSE 0]
    IN  InCounters + pending + SumFunction(held)

\* The process ends.
End ==
    /\ up' = FALSE
    /\ lost' = lost + InMemory
    /\ Down
    /\ pending' = 0
    /\ run' = [r \in Runs |-> Idle]
    /\ stop' = Idle
    /\ writer' = None
    /\ calls' = {}
    /\ stray' = FALSE
    /\ UNCHANGED <<disk, edits, faults, workload,
                   carried, again, slipped>>

Exit ==
    /\ stop.pc \in {"exit", "failed"}
    /\ End
    /\ UNCHANGED stops

Crash ==
    /\ up /\ stops < workload.stops
    /\ stops' = stops + 1
    /\ End

Boot ==
    /\ ~up
    /\ up' = TRUE
    /\ Go("boot", "lock", 0)
    /\ UNCHANGED <<disk, server, pending, writer, calls, bounds, history>>

----------------------------------------------------------------------------
JobStep(r) ==
    \/ Lock(r) \/ ReplayDone(r) \/ ReplayFails(r) \/ RemoveFile(r)
    \/ \E id \in DOMAIN journal : AddTuicTrafficBatch(r, id)
    \/ ReadDesired(r) \/ Reconcile(r) \/ Collect(r) \/ CollectEnds(r)
    \/ AddTraffic(r) \/ AddTrafficFails(r)

StopStep ==
    \/ Lock("stop") \/ Collect("stop") \/ CollectEnds("stop") \/ StoreBatch \/ StoreFails
    \/ ReplayDone("stop") \/ ReplayFails("stop") \/ RemoveFile("stop")
    \/ \E id \in DOMAIN journal : AddTuicTrafficBatch("stop", id)
    \/ Exit

Next ==
    \/ \E c \in Conns : Relay(c) \/ EndConn(c) \/ \E u \in Users : Authenticate(c, u)
    \/ AcceptFails \/ CloseUserConns
    \/ \E r \in Rows : Edit(r) \/ Apply(r)
    \/ CronRun
    \/ \E r \in Runs : JobStep(r)
    \/ StopAll \/ StopStep \/ Crash \/ Boot

Spec == Init /\ [][Next]_vars

\* Every call returns; a connection the server closed ends; the scheduler runs.
Fairness ==
    /\ WF_vars(CloseUserConns) /\ WF_vars(CronRun) /\ WF_vars(StopStep)
    /\ \A r \in Runs : WF_vars(JobStep(r))
    /\ \A c \in Conns : WF_vars(EndConn(c) /\ ~conn[c].open)
    /\ \A r \in Rows : WF_vars(Apply(r))

FairSpec == Spec /\ Fairness

----------------------------------------------------------------------------
(***************************************************************************)
(* Properties.                                                             *)
(***************************************************************************)

\* Bytes in files that no transaction counted yet.
InJournal == SumFunctionOnSet(journal, DOMAIN journal \ receipts)

\* Every byte a session carried is in exactly one place: counted, in memory, or
\* in a batch that no receipt covers.  The only ones missing were in memory when
\* the process ended, or slipped into a revoked user's counter between the swap
\* and the last session's end.  A batch of the journal is counted once, although
\* it is replayed after "an ambiguous commit result" (tuic_traffic_receipt.go:15)
\* and a stored batch must not go back; a failed write goes back to the manager.
\* The only bytes counted twice are the ones a run gave back after AddTraffic had
\* committed them and reported an error (again).
Conserved ==
    carried + again = counted + InMemory + InJournal + lost + slipped

\* When UpdateUsers has returned, no open connection belongs to a user that was
\* revoked or replaced: AuthenticateAndRegister is "atomic with user
\* revocation" (auth.go:161).
RevokedIsCut ==
    ~cutting => \A c \in Conns :
                  conn[c] # None /\ conn[c].open => user[conn[c].user] = "current"

\* A stop that stored what it collected, or had nothing to store, leaves nothing
\* in memory: "persists counters drained when the TUIC manager stops its
\* listeners" (tuic_job.go:71).  Not so when the first run was still under way
\* or an edit started the listener again (stray).
OrderlyStop ==
    [][stop.pc = "exit" /\ ~up' /\ stops' = stops /\ ~stray => lost' = lost]_vars

Served == srv # None /\ srv = Serving(want)

\* Once edits and failures end, a running panel serves the inbound as the
\* database has it and its journal is empty, whatever order the applied edits
\* and the reconciles from older reads came in.
Settles ==
    <>[](up => /\ journal = <<>>
               /\ IF want.on THEN Served ELSE srv = None)
=============================================================================
