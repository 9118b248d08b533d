------------------------------ MODULE EventBus ------------------------------
(***************************************************************************)
(* The in-process event bus.  Publishers put events on one bounded channel *)
(* and never wait; the dispatch loop copies each event to the queue of     *)
(* every subscriber and never waits either; each subscriber has a worker   *)
(* that calls its handler, one event at a time.  A subscriber is an object *)
(* of its own: subscribing again under an id makes a new one.              *)
(***************************************************************************)
EXTENDS Integers, Sequences

CONSTANTS
  Ids,           \* subscriber ids
  BufSize,       \* the channel's size
  SubQueueSize,  \* subscriberQueueSize
  MaxSubs,       \* bound: subscriber objects made
  MaxEvents      \* bound: events published

ASSUME BusConstants ==
  /\ BufSize \in Nat \ {0} /\ SubQueueSize \in Nat \ {0}
  /\ MaxSubs \in Nat /\ MaxEvents \in Nat
  /\ "none" \notin Ids

Subs == 1..MaxSubs

VARIABLES
  ch,         \* the bus channel: events, numbered in the order of Publish
  published,  \* events given to Publish so far, dropped ones included
  subs,       \* b.subs: the subscriber objects that are registered
  made,       \* subscriber objects made so far
  id,         \* the id of each object
  subQueue,   \* its queue
  quit,       \* objects whose quit channel is closed
  subPc,      \* its worker: "unborn", "select", "handling" or "exited"
  event,      \* the event its handler runs with, or the last one it ran with
  dpc,        \* the dispatch loop: "select" or "exited"
  stop        \* Stop: "no", "marked" (stopped is set), "closed", "returned"

registry == <<subs, made, id, quit>>
worker == <<subPc, event>>
busVars == <<ch, published, registry, subQueue, worker, dpc, stop>>

New ==
  /\ ch = <<>> /\ published = 0
  /\ subs = {} /\ made = 0 /\ quit = {}
  /\ id = [s \in Subs |-> "none"]
  /\ subQueue = [s \in Subs |-> <<>>]
  /\ subPc = [s \in Subs |-> "unborn"] /\ event = [s \in Subs |-> 0]
  /\ dpc = "select" /\ stop = "no"

Done == stop \in {"closed", "returned"}

-----------------------------------------------------------------------------
\* Whoever holds an id gives it up: its quit channel is closed, nobody waits.
Holders(i) == {s \in subs : id[s] = i}

\* Mutation: Subscribe does not look at b.stopped.
SubscribeStopped(i) ==
  /\ made < MaxSubs
  /\ made' = made + 1 /\ id' = [id EXCEPT ![made + 1] = i]
  /\ quit' = quit \cup Holders(i)
  /\ subs' = (subs \ Holders(i)) \cup {made + 1}
  /\ subPc' = [subPc EXCEPT ![made + 1] = "select"]
  /\ UNCHANGED <<ch, published, subQueue, event, dpc, stop>>

Subscribe(i) ==
  /\ stop = "no"
  /\ made < MaxSubs
  /\ made' = made + 1 /\ id' = [id EXCEPT ![made + 1] = i]
  /\ quit' = quit \cup Holders(i)
  /\ subs' = (subs \ Holders(i)) \cup {made + 1}
  /\ subPc' = [subPc EXCEPT ![made + 1] = "select"]
  /\ UNCHANGED <<ch, published, subQueue, event, dpc, stop>>

Unsubscribe(i) ==
  /\ Holders(i) # {}
  /\ quit' = quit \cup Holders(i)
  /\ subs' = subs \ Holders(i)
  /\ UNCHANGED <<ch, published, made, id, subQueue, worker, dpc, stop>>

\* A full channel drops the event.
Publish ==
  /\ published < MaxEvents
  /\ published' = published + 1
  /\ ch' = IF Len(ch) < BufSize THEN Append(ch, published + 1) ELSE ch
  /\ UNCHANGED <<registry, subQueue, worker, dpc, stop>>

-----------------------------------------------------------------------------
\* Mutation: a blocking send: the loop waits for room in every queue.
BlockingDispatch ==
  /\ dpc = "select" /\ ch # <<>>
  /\ \A s \in subs : Len(subQueue[s]) < SubQueueSize
  /\ ch' = Tail(ch)
  /\ subQueue' = [s \in Subs |->
       IF s \in subs THEN Append(subQueue[s], Head(ch)) ELSE subQueue[s]]
  /\ UNCHANGED <<published, registry, worker, dpc, stop>>

\* Mutation: an event that finds a queue full goes to the end of the channel.
RequeueingDispatch ==
  /\ dpc = "select" /\ ch # <<>>
  /\ ch' = IF \E s \in subs : Len(subQueue[s]) = SubQueueSize
           THEN Append(Tail(ch), Head(ch)) ELSE Tail(ch)
  /\ subQueue' = [s \in Subs |->
       IF s \in subs /\ Len(subQueue[s]) < SubQueueSize
       THEN Append(subQueue[s], Head(ch)) ELSE subQueue[s]]
  /\ UNCHANGED <<published, registry, worker, dpc, stop>>

\* Under the read lock: one event to every registered object with room.
Dispatch ==
  /\ dpc = "select" /\ ch # <<>>
  /\ ch' = Tail(ch)
  /\ subQueue' = [s \in Subs |->
       IF s \in subs /\ Len(subQueue[s]) < SubQueueSize
       THEN Append(subQueue[s], Head(ch)) ELSE subQueue[s]]
  /\ UNCHANGED <<published, registry, worker, dpc, stop>>

DispatchExit ==
  /\ dpc = "select" /\ Done
  /\ dpc' = "exited"
  /\ UNCHANGED <<ch, published, registry, subQueue, worker, stop>>

\* select picks any ready case: the queue is also read when quit or done are
\* closed already.
TakeEvent(s) ==
  /\ subPc[s] = "select" /\ subQueue[s] # <<>>
  /\ subPc' = [subPc EXCEPT ![s] = "handling"]
  /\ event' = [event EXCEPT ![s] = Head(subQueue[s])]
  /\ subQueue' = [subQueue EXCEPT ![s] = Tail(@)]
  /\ UNCHANGED <<ch, published, registry, dpc, stop>>

\* The handler returns, or panics and is recovered.
SafeCall(s) ==
  /\ subPc[s] = "handling"
  /\ subPc' = [subPc EXCEPT ![s] = "select"]
  /\ UNCHANGED <<ch, published, registry, subQueue, event, dpc, stop>>

\* Mutation: a worker only looks at its own quit channel.
ExitOnQuitOnly(s) ==
  /\ subPc[s] = "select" /\ s \in quit
  /\ subPc' = [subPc EXCEPT ![s] = "exited"]
  /\ UNCHANGED <<ch, published, registry, subQueue, event, dpc, stop>>

WorkerExit(s) ==
  /\ subPc[s] = "select" /\ (s \in quit \/ Done)
  /\ subPc' = [subPc EXCEPT ![s] = "exited"]
  /\ UNCHANGED <<ch, published, registry, subQueue, event, dpc, stop>>

-----------------------------------------------------------------------------
StopMark ==
  /\ stop = "no" /\ stop' = "marked"
  /\ UNCHANGED <<ch, published, registry, subQueue, worker, dpc>>

StopClose ==
  /\ stop = "marked" /\ stop' = "closed"
  /\ UNCHANGED <<ch, published, registry, subQueue, worker, dpc>>

\* wg counts the dispatch loop and the workers.
Gone(s) == subPc[s] \in {"unborn", "exited"}
Wait ==
  /\ stop = "closed" /\ dpc = "exited" /\ \A s \in Subs : Gone(s)
  /\ stop' = "returned"
  /\ UNCHANGED <<ch, published, registry, subQueue, worker, dpc>>

BusNext ==
  \/ \E i \in Ids : Subscribe(i) \/ Unsubscribe(i)
  \/ Publish
  \/ Dispatch
  \/ DispatchExit
  \/ \E s \in Subs : TakeEvent(s) \/ SafeCall(s) \/ WorkerExit(s)
  \/ StopMark
  \/ StopClose
  \/ Wait

\* The goroutines of the bus run; that a handler returns is assumed apart.
\* Choosing among ready cases at random, select ends a worker's loop in the end.
BusFairness ==
  /\ WF_busVars(Dispatch) /\ SF_busVars(DispatchExit) /\ WF_busVars(Wait) /\ WF_busVars(StopClose)
  /\ \A s \in Subs : WF_busVars(TakeEvent(s)) /\ SF_busVars(WorkerExit(s))
HandlersReturn == \A s \in Subs : WF_busVars(SafeCall(s))

BusSpec == New /\ [][BusNext]_busVars
FairBusSpec == BusSpec /\ BusFairness

-----------------------------------------------------------------------------
\* The channel and every queue stay within their sizes, whatever is published
\* and however slow a subscriber is; every variable keeps its type.
TypeOK ==
  /\ ch \in Seq(1..MaxEvents) /\ Len(ch) <= BufSize /\ published \in 0..MaxEvents
  /\ subs \subseteq 1..made /\ made \in 0..MaxSubs /\ quit \subseteq 1..made
  /\ id \in [Subs -> Ids \cup {"none"}]
  /\ subQueue \in [Subs -> Seq(1..MaxEvents)] /\ \A s \in Subs : Len(subQueue[s]) <= SubQueueSize
  /\ subPc \in [Subs -> {"unborn", "select", "handling", "exited"}]
  /\ event \in [Subs -> 0..MaxEvents]
  /\ dpc \in {"select", "exited"}
  /\ stop \in {"no", "marked", "closed", "returned"}

Ascending(q) == \A a, b \in 1..Len(q) : a < b => q[a] < q[b]

\* Every event a subscriber still has to see comes after the one its handler
\* has now, and they come in the order of Publish, whatever was dropped between.
InPublicationOrder ==
  \A s \in Subs :
    /\ Ascending(subQueue[s])
    /\ \A a \in 1..Len(subQueue[s]) : event[s] < subQueue[s][a]

\* When Stop has returned no handler runs, and none will: Subscribe's worker
\* can not slip in behind Stop's wait.
StoppedIsQuiet ==
  stop = "returned" => dpc = "exited" /\ \A s \in Subs : Gone(s)

\* A handler that never returns does not stall the dispatch loop: what was
\* published leaves the channel, without assuming that handlers return.
NeverStalls == \A e \in 1..MaxEvents :
  (\E a \in 1..Len(ch) : ch[a] = e) ~> (Done \/ \A a \in 1..Len(ch) : ch[a] # e)

\* With handlers that return, Stop returns.
BusStopReturns == HandlersReturn => (stop = "closed" ~> stop = "returned")
=============================================================================
