---------------------------- MODULE WebSocketHub ----------------------------
(***************************************************************************)
(* The WebSocket hub and the two pumps of each connection.  One goroutine  *)
(* owns the registry: it takes register and unregister operations from an  *)
(* ordered, bounded channel and fans broadcasts out to the send buffers.   *)
(* A panic in its loop is recovered and the loop restarted, a few times.   *)
(* Messages carry no content here: a buffer is the number of them.         *)
(***************************************************************************)
EXTENDS Integers, Sequences

CONSTANTS
  Clients,     \* connections, each made once
  OpsQueue,    \* hubOpsQueue
  Backlog,     \* hubBroadcastQueue
  SendQueue,   \* clientSendQueue
  Attempts,    \* hubRestartAttempts
  MaxPanics    \* bound: panics in the hub's loop

ASSUME HubConstants ==
  /\ OpsQueue \in Nat \ {0} /\ Backlog \in Nat \ {0} /\ SendQueue \in Nat \ {0}
  /\ Attempts \in Nat \ {0} /\ MaxPanics \in Nat

VARIABLES
  clients,       \* h.clients
  ops,           \* h.ops, of [kind, c]
  broadcast,     \* number of messages in h.broadcast
  hubCancelled,  \* h.ctx is cancelled
  run,           \* Run: "loop", "backoff", "down" (attempts exhausted) or "returned"
  attempt,       \* its attempt, from 0
  panics,        \* panics so far
  buffer,        \* messages in each client's Send channel
  closed,        \* clients whose Send channel is closed
  handler,       \* HandleConnection: "none", "registering" or "returned"
  reader,        \* readPump: "none", "reading", "unregistering" or "done"
  writePump,     \* writePump: "none", "writing" or "done"
  conn,          \* the connection: "none", "open", "broken" (peer gone) or "closed"
  unreg          \* what became of Unregister: "no", "queued" or "dropped"

hub == <<run, attempt, panics>>
pumps == <<handler, reader, writePump, conn, unreg>>
hubVars == <<clients, ops, broadcast, hubCancelled, hub, buffer, closed, pumps>>

Register(c) == [kind |-> "register", c |-> c]
Unregister(c) == [kind |-> "unregister", c |-> c]
InOps(op) == \E i \in 1..Len(ops) : ops[i] = op

NewHub ==
  /\ clients = {} /\ ops = <<>> /\ broadcast = 0 /\ hubCancelled = FALSE
  /\ run = "loop" /\ attempt = 0 /\ panics = 0
  /\ buffer = [c \in Clients |-> 0] /\ closed = {}
  /\ handler = [c \in Clients |-> "none"] /\ reader = [c \in Clients |-> "none"]
  /\ writePump = [c \in Clients |-> "none"] /\ conn = [c \in Clients |-> "none"]
  /\ unreg = [c \in Clients |-> "no"]

-----------------------------------------------------------------------------
(* The hub's goroutine. *)

\* Mutation: removeClient closes the channel and leaves the client in the map.
HandleOpCloses ==
  /\ run = "loop" /\ ops # <<>>
  /\ LET op == Head(ops) IN
       /\ clients' = IF op.kind = "register" THEN clients \cup {op.c} ELSE clients
       /\ closed' = IF op.kind = "unregister" THEN closed \cup (clients \cap {op.c}) ELSE closed
  /\ ops' = Tail(ops)
  /\ UNCHANGED <<broadcast, hubCancelled, hub, buffer, pumps>>

\* removeClient closes the channel of a client that is in the map, once.
HandleOp ==
  /\ run = "loop" /\ ops # <<>>
  /\ LET op == Head(ops) IN
       /\ clients' = IF op.kind = "register" THEN clients \cup {op.c} ELSE clients \ {op.c}
       /\ closed' = IF op.kind = "unregister" THEN closed \cup (clients \cap {op.c}) ELSE closed
  /\ ops' = Tail(ops)
  /\ UNCHANGED <<broadcast, hubCancelled, hub, buffer, pumps>>

\* Mutation: a full buffer only loses the message.
FanoutDropsMessage ==
  /\ run = "loop" /\ broadcast > 0
  /\ broadcast' = broadcast - 1
  /\ buffer' = [c \in Clients |->
       IF c \in clients /\ buffer[c] < SendQueue THEN buffer[c] + 1 ELSE buffer[c]]
  /\ UNCHANGED <<clients, ops, hubCancelled, hub, closed, pumps>>

\* Every client gets the message or, with a full buffer, is evicted.
Fanout ==
  /\ run = "loop" /\ broadcast > 0
  /\ broadcast' = broadcast - 1
  /\ LET dead == {c \in clients : buffer[c] = SendQueue} IN
       /\ buffer' = [c \in Clients |->
            IF c \in clients \ dead THEN buffer[c] + 1 ELSE buffer[c]]
       /\ clients' = clients \ dead
       /\ closed' = closed \cup dead
  /\ UNCHANGED <<ops, hubCancelled, hub, pumps>>

\* Mutation: the channels are not closed.
ShutdownLeavesOpen ==
  /\ run = "loop" /\ hubCancelled
  /\ clients' = {}
  /\ run' = "returned"
  /\ UNCHANGED <<ops, broadcast, hubCancelled, attempt, panics, buffer, closed, pumps>>

Shutdown ==
  /\ run = "loop" /\ hubCancelled
  /\ closed' = closed \cup clients /\ clients' = {}
  /\ run' = "returned"
  /\ UNCHANGED <<ops, broadcast, hubCancelled, attempt, panics, buffer, pumps>>

\* What the loop had taken from a channel is lost with the panic.
Panic ==
  /\ run = "loop" /\ panics < MaxPanics
  /\ \/ ops # <<>> /\ ops' = Tail(ops) /\ UNCHANGED broadcast
     \/ broadcast > 0 /\ broadcast' = broadcast - 1 /\ UNCHANGED ops
  /\ panics' = panics + 1
  /\ run' = IF attempt < Attempts - 1 THEN "backoff" ELSE "down"
  /\ UNCHANGED <<clients, hubCancelled, attempt, buffer, closed, pumps>>

\* The wait ends, or is cut short by the cancellation: then Run returns without
\* calling shutdown.
Restart ==
  /\ run = "backoff"
  /\ \/ run' = "loop" /\ attempt' = attempt + 1
     \/ hubCancelled /\ run' = "returned" /\ UNCHANGED attempt
  /\ UNCHANGED <<clients, ops, broadcast, hubCancelled, panics, buffer, closed, pumps>>

Stop ==
  /\ ~hubCancelled /\ hubCancelled' = TRUE
  /\ UNCHANGED <<clients, ops, broadcast, hub, buffer, closed, pumps>>

\* Broadcast is skipped without clients; the message is throttled, queued, or
\* dropped when the channel stays full: only the queued one changes anything.
Broadcast ==
  /\ clients # {} /\ broadcast < Backlog
  /\ broadcast' = broadcast + 1
  /\ UNCHANGED <<clients, ops, hubCancelled, hub, buffer, closed, pumps>>

-----------------------------------------------------------------------------
(* A connection. *)

Connect(c) ==
  /\ handler[c] = "none"
  /\ handler' = [handler EXCEPT ![c] = "registering"]
  /\ conn' = [conn EXCEPT ![c] = "open"]
  /\ UNCHANGED <<clients, ops, broadcast, hubCancelled, hub, buffer, closed, reader, writePump, unreg>>

\* Register waits for room in ops or for the cancellation; then the pumps start.
RegisterClient(c) ==
  /\ handler[c] = "registering"
  /\ \/ Len(ops) < OpsQueue /\ ops' = Append(ops, Register(c))
     \/ hubCancelled /\ UNCHANGED ops
  /\ handler' = [handler EXCEPT ![c] = "returned"]
  /\ reader' = [reader EXCEPT ![c] = "reading"]
  /\ writePump' = [writePump EXCEPT ![c] = "writing"]
  /\ UNCHANGED <<clients, broadcast, hubCancelled, hub, buffer, closed, conn, unreg>>

\* The browser goes away.
PeerGone(c) ==
  /\ conn[c] = "open"
  /\ conn' = [conn EXCEPT ![c] = "broken"]
  /\ UNCHANGED <<clients, ops, broadcast, hubCancelled, hub, buffer, closed, handler, reader, writePump, unreg>>

\* ReadMessage fails once the connection does, at the latest at the deadline.
ReadFails(c) ==
  /\ reader[c] = "reading" /\ conn[c] # "open"
  /\ reader' = [reader EXCEPT ![c] = "unregistering"]
  /\ UNCHANGED <<clients, ops, broadcast, hubCancelled, hub, buffer, closed, handler, writePump, conn, unreg>>

\* Mutation: an unregister that finds the channel full goes past it.
UnregisterDirectly(c) ==
  /\ reader[c] = "unregistering"
  /\ \/ Len(ops) < OpsQueue /\ ops' = Append(ops, Unregister(c)) /\ UNCHANGED <<clients, closed>>
     \/ /\ Len(ops) = OpsQueue /\ UNCHANGED ops
        /\ clients' = clients \ {c} /\ closed' = closed \cup (clients \cap {c})
  /\ unreg' = [unreg EXCEPT ![c] = "queued"]
  /\ reader' = [reader EXCEPT ![c] = "done"]
  /\ conn' = [conn EXCEPT ![c] = "closed"]
  /\ UNCHANGED <<broadcast, hubCancelled, hub, buffer, handler, writePump>>

\* Unregister is queued, dropped when the channel stays full, or skipped after
\* the cancellation; then readPump closes the connection.
UnregisterClient(c) ==
  /\ reader[c] = "unregistering"
  /\ \/ /\ Len(ops) < OpsQueue /\ ops' = Append(ops, Unregister(c))
        /\ unreg' = [unreg EXCEPT ![c] = "queued"]
     \/ /\ Len(ops) = OpsQueue \/ hubCancelled
        /\ unreg' = [unreg EXCEPT ![c] = "dropped"] /\ UNCHANGED ops
  /\ reader' = [reader EXCEPT ![c] = "done"]
  /\ conn' = [conn EXCEPT ![c] = "closed"]
  /\ UNCHANGED <<clients, broadcast, hubCancelled, hub, buffer, closed, handler, writePump>>

\* writePump: a message is written, or the write fails and the pump ends.
WriteMessage(c) ==
  /\ writePump[c] = "writing" /\ buffer[c] > 0
  /\ buffer' = [buffer EXCEPT ![c] = @ - 1]
  /\ IF conn[c] = "open"
     THEN UNCHANGED <<writePump, conn>>
     ELSE /\ writePump' = [writePump EXCEPT ![c] = "done"]
          /\ conn' = [conn EXCEPT ![c] = "closed"]
  /\ UNCHANGED <<clients, ops, broadcast, hubCancelled, hub, closed, handler, reader, unreg>>

\* The closed channel is drained, or a ping fails: the pump closes and ends.
WriterEnds(c) ==
  /\ writePump[c] = "writing"
  /\ (buffer[c] = 0 /\ c \in closed) \/ conn[c] # "open"
  /\ writePump' = [writePump EXCEPT ![c] = "done"]
  /\ conn' = [conn EXCEPT ![c] = "closed"]
  /\ UNCHANGED <<clients, ops, broadcast, hubCancelled, hub, buffer, closed, handler, reader, unreg>>

HubNext ==
  \/ HandleOp
  \/ Fanout
  \/ Shutdown
  \/ Panic
  \/ Restart
  \/ Stop
  \/ Broadcast
  \/ \E c \in Clients :
       \/ Connect(c)
       \/ RegisterClient(c)
       \/ PeerGone(c)
       \/ ReadFails(c)
       \/ UnregisterClient(c)
       \/ WriteMessage(c)
       \/ WriterEnds(c)

\* Goroutines run; select serves each of its channels in the end.  The jobs keep
\* broadcasting while the panel runs (every few seconds, to whoever is there).
HubFairness ==
  /\ WF_hubVars(HandleOp) /\ WF_hubVars(Fanout) /\ WF_hubVars(Shutdown) /\ WF_hubVars(Restart)
  /\ WF_hubVars(Broadcast)
  /\ \A c \in Clients : /\ SF_hubVars(RegisterClient(c)) /\ WF_hubVars(ReadFails(c))
                        /\ WF_hubVars(UnregisterClient(c))
                        /\ WF_hubVars(WriteMessage(c)) /\ WF_hubVars(WriterEnds(c))

HubSpec == NewHub /\ [][HubNext]_hubVars
FairHubSpec == HubSpec /\ HubFairness

-----------------------------------------------------------------------------

\* A client in the registry has an open send channel: the fan-out never sends
\* on a closed one, so trySend's recover is never needed.
RegisteredIsOpen == clients \cap closed = {}

\* An unregister that was accepted and handled leaves its client out of the
\* registry for good, whatever the order of the two goroutines: no register is
\* behind it.  (A panic may lose the unregister itself.)
UnregisterIsLast ==
  panics = 0 =>
    \A c \in Clients :
      unreg[c] = "queued" /\ ~InOps(Unregister(c)) => c \notin clients /\ ~InOps(Register(c))

\* "Stragglers get evicted by fanout when their Send buffer fills": a client
\* whose connection ended leaves the registry, its unregister dropped or not,
\* and a panic of the hub in between or not.
StragglersEvicted ==
  \A c \in Clients : (reader[c] = "done") ~> (c \notin clients \/ hubCancelled)

\* A stopped hub closes every registered client, unless its loop panics: Run
\* returns from a cancelled backoff without shutdown.
StopClosesRegistered ==
  \A c \in Clients : (hubCancelled /\ c \in clients) ~> (c \in closed \/ panics > 0)
=============================================================================
