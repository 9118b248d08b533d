--------------------------- MODULE TrafficWriter ---------------------------
(***************************************************************************)
(* The serial traffic writer: callers hand closures over a bounded channel *)
(* to one goroutine, which applies them in turn.  Starting it makes fresh  *)
(* channels (a generation); stopping it cancels its context, waits until   *)
(* it has drained its channel, and clears the package state, after which   *)
(* callers apply their own writes inline.                                  *)
(***************************************************************************)
EXTENDS Integers, Sequences

CONSTANTS
  Submitters,  \* goroutines that call submitTrafficWrite, one write at a time
  QueueSize,   \* trafficWriterQueueSize
  MaxGens,     \* bound: how often the writer is started
  MaxWrites    \* bound: writes per submitter

ASSUME WriterConstants ==
  /\ QueueSize \in Nat \ {0} /\ MaxGens \in Nat \ {0} /\ MaxWrites \in Nat
  /\ "none" \notin Submitters

Gens == 1..MaxGens

VARIABLES
  twMu,       \* who holds the mutex beyond one step: a blocked sender, or "none"
  tw,         \* the generation twQueue, twCtx and twDone belong to; 0: nil
  gens,       \* generations made so far
  cancelled,  \* generations whose context is cancelled
  queue,      \* their channels
  wpc, wreq,  \* their goroutines, and the request each is applying
  pc, mine,   \* each submitter, and the generation it took under the mutex
  answered,   \* submitters whose req.done holds a result
  stopping,   \* the generation StopTrafficWriter waits for; 0: it is not running
  written, runs, outcome  \* history: writes begun, runs of the last one, its result

writer == <<wpc, wreq, queue>>
caller == <<pc, mine, written, outcome>>
vars == <<twMu, tw, gens, cancelled, writer, caller, answered, stopping, runs>>

Init ==
  /\ twMu = "none" /\ tw = 0 /\ gens = 0 /\ cancelled = {}
  /\ queue = [g \in Gens |-> <<>>]
  /\ wpc = [g \in Gens |-> "unborn"] /\ wreq = [g \in Gens |-> "none"]
  /\ pc = [s \in Submitters |-> "idle"] /\ mine = [s \in Submitters |-> 0]
  /\ answered = {} /\ stopping = 0
  /\ written = [s \in Submitters |-> 0] /\ runs = [s \in Submitters |-> 0]
  /\ outcome = [s \in Submitters |-> "none"]

\* close(done), deferred by the goroutine.
Closed(g) == wpc[g] = "exited"

-----------------------------------------------------------------------------
(***************************************************************************)
(* StartTrafficWriter and StopTrafficWriter.  One Stop runs at a time; a   *)
(* Start may come while it waits.                                          *)
(***************************************************************************)
\* A running writer is kept (then nothing changes); a finished one is replaced.
StartTrafficWriter ==
  /\ twMu = "none" /\ gens < MaxGens
  /\ tw # 0 => Closed(tw)
  /\ gens' = gens + 1 /\ tw' = gens + 1
  /\ wpc' = [wpc EXCEPT ![gens + 1] = "select"]
  /\ UNCHANGED <<twMu, cancelled, wreq, queue, caller, answered, stopping, runs>>

StopTrafficWriter ==
  /\ twMu = "none" /\ stopping = 0 /\ tw # 0
  /\ cancelled' = cancelled \cup {tw} /\ stopping' = tw
  /\ UNCHANGED <<twMu, tw, gens, writer, caller, answered, runs>>

\* Mutation: Stop does not wait for the drain.
StopUnwaited ==
  /\ stopping # 0 /\ twMu = "none"
  /\ tw' = IF tw = stopping THEN 0 ELSE tw
  /\ stopping' = 0
  /\ UNCHANGED <<twMu, gens, cancelled, writer, caller, answered, runs>>

\* <-done, then the state is cleared unless a new writer took its place.
StopFinish ==
  /\ stopping # 0 /\ Closed(stopping) /\ twMu = "none"
  /\ tw' = IF tw = stopping THEN 0 ELSE tw
  /\ stopping' = 0
  /\ UNCHANGED <<twMu, gens, cancelled, writer, caller, answered, runs>>

-----------------------------------------------------------------------------
(***************************************************************************)
(* runTrafficWriter.  With a request and the cancellation both ready, its  *)
(* select takes either.                                                    *)
(***************************************************************************)
Take(g) ==
  /\ wpc[g] \in {"select", "drain"} /\ queue[g] # <<>>
  /\ wreq' = [wreq EXCEPT ![g] = Head(queue[g])]
  /\ queue' = [queue EXCEPT ![g] = Tail(queue[g])]
  /\ wpc' = [wpc EXCEPT ![g] = IF wpc[g] = "select" THEN "applying" ELSE "draining"]
  /\ UNCHANGED <<twMu, tw, gens, cancelled, caller, answered, stopping, runs>>

\* safeApply returns, with an error even when the closure panics, and the answer
\* goes to the request's buffered channel.
Answer(g) ==
  /\ wpc[g] \in {"applying", "draining"}
  /\ runs' = [runs EXCEPT ![wreq[g]] = @ + 1]
  /\ answered' = answered \cup {wreq[g]}
  /\ wreq' = [wreq EXCEPT ![g] = "none"]
  /\ wpc' = [wpc EXCEPT ![g] = IF wpc[g] = "applying" THEN "select" ELSE "drain"]
  /\ UNCHANGED <<twMu, tw, gens, cancelled, queue, caller, stopping>>

SeeCancelled(g) ==
  /\ wpc[g] = "select" /\ g \in cancelled
  /\ wpc' = [wpc EXCEPT ![g] = "drain"]
  /\ UNCHANGED <<twMu, tw, gens, cancelled, wreq, queue, caller, answered, stopping, runs>>

\* Mutation: the drain waits for one more request instead of leaving.
DrainBlocks(g) == wpc[g] = "drain" /\ queue[g] # <<>> /\ UNCHANGED vars

\* The drain ends at the first moment the channel is empty.
Exit(g) ==
  /\ wpc[g] = "drain" /\ queue[g] = <<>>
  /\ wpc' = [wpc EXCEPT ![g] = "exited"]
  /\ UNCHANGED <<twMu, tw, gens, cancelled, wreq, queue, caller, answered, stopping, runs>>

RunTrafficWriter(g) == Take(g) \/ Answer(g) \/ SeeCancelled(g) \/ Exit(g)

-----------------------------------------------------------------------------
(***************************************************************************)
(* submitTrafficWrite.                                                     *)
(***************************************************************************)
Room(g) == Len(queue[g]) < QueueSize
Send(s, g) == queue' = [queue EXCEPT ![g] = Append(@, s)]

\* The call returns r to its caller.
Report(s, r) ==
  /\ pc' = [pc EXCEPT ![s] = "idle"] /\ mine' = [mine EXCEPT ![s] = 0]
  /\ outcome' = [outcome EXCEPT ![s] = r] /\ UNCHANGED written

\* Under the mutex: without a live writer the write is applied inline; otherwise
\* the request is sent, the mutex held for as long as the channel is full.
SubmitTrafficWrite(s) ==
  /\ twMu = "none" /\ pc[s] = "idle" /\ written[s] < MaxWrites
  /\ written' = [written EXCEPT ![s] = @ + 1]
  /\ runs' = [runs EXCEPT ![s] = 0] /\ outcome' = [outcome EXCEPT ![s] = "none"]
  /\ answered' = answered \ {s}
  /\ mine' = [mine EXCEPT ![s] = tw]
  /\ \/ /\ tw \in cancelled \cup {0}
        /\ pc' = [pc EXCEPT ![s] = "inline"] /\ UNCHANGED <<twMu, queue>>
     \/ /\ tw \notin cancelled \cup {0} /\ Room(tw)
        /\ Send(s, tw) /\ pc' = [pc EXCEPT ![s] = "await"] /\ UNCHANGED twMu
     \/ /\ tw \notin cancelled \cup {0} /\ ~Room(tw)
        /\ twMu' = s /\ pc' = [pc EXCEPT ![s] = "sending"] /\ UNCHANGED queue
  /\ UNCHANGED <<tw, gens, cancelled, wpc, wreq, stopping>>

\* A blocked sender finds room.
SendBlocked(s) ==
  /\ pc[s] = "sending" /\ Room(mine[s])
  /\ Send(s, mine[s]) /\ twMu' = "none" /\ pc' = [pc EXCEPT ![s] = "await"]
  /\ UNCHANGED <<tw, gens, cancelled, wpc, wreq, mine, written, outcome, answered,
                 stopping, runs>>

\* Mutation: the timer is looked at after the send, and the sent write is refused.
TimeoutAfterSend(s) ==
  /\ pc[s] = "sending" /\ Room(mine[s]) /\ Send(s, mine[s])
  /\ twMu' = "none" /\ Report(s, "full")
  /\ UNCHANGED <<tw, gens, cancelled, wpc, wreq, answered, stopping, runs>>

\* The timer fired: "traffic writer queue full".
SubmitTimeout(s) ==
  /\ pc[s] = "sending" /\ twMu' = "none" /\ Report(s, "full")
  /\ UNCHANGED <<tw, gens, cancelled, writer, answered, stopping, runs>>

\* The answer, or a closed done channel, which is checked for an answer once more.
Await(s) ==
  /\ pc[s] = "await"
  /\ \/ s \in answered /\ Report(s, "done")
     \/ s \notin answered /\ Closed(mine[s]) /\ Report(s, "stopped")
  /\ UNCHANGED <<twMu, tw, gens, cancelled, writer, answered, stopping, runs>>

\* safeApply on the caller's goroutine: it begins, and returns.
BeginInline(s) ==
  /\ pc[s] = "inline" /\ pc' = [pc EXCEPT ![s] = "applying"]
  /\ UNCHANGED <<twMu, tw, gens, cancelled, writer, mine, written, outcome, answered,
                 stopping, runs>>

EndInline(s) ==
  /\ pc[s] = "applying"
  /\ runs' = [runs EXCEPT ![s] = @ + 1] /\ pc' = [pc EXCEPT ![s] = "applied"]
  /\ UNCHANGED <<twMu, tw, gens, cancelled, writer, mine, written, outcome, answered,
                 stopping>>

ReportInline(s) ==
  /\ pc[s] = "applied" /\ Report(s, "done")
  /\ UNCHANGED <<twMu, tw, gens, cancelled, writer, answered, stopping, runs>>

Call(s) ==
  SendBlocked(s) \/ SubmitTimeout(s) \/ Await(s)
  \/ BeginInline(s) \/ EndInline(s) \/ ReportInline(s)

Next ==
  \/ StartTrafficWriter \/ StopTrafficWriter \/ StopFinish
  \/ \E g \in Gens : RunTrafficWriter(g)
  \/ \E s \in Submitters : SubmitTrafficWrite(s) \/ Call(s)

\* The goroutines run; the timer of a blocked sender fires; Stop gets the mutex.
Fairness ==
  /\ \A g \in Gens : WF_vars(RunTrafficWriter(g))
  /\ \A s \in Submitters : WF_vars(Call(s))
  /\ SF_vars(StopFinish)

Spec == Init /\ [][Next]_vars /\ Fairness

-----------------------------------------------------------------------------
(***************************************************************************)
(* Properties                                                              *)
(***************************************************************************)

\* Where the write of s is, seen from its caller.
Place(s) ==
  IF pc[s] = "idle" THEN "idle" ELSE IF runs[s] = 0 THEN "pending" ELSE "applied"

Promise == INSTANCE TrafficWrites
             WITH st <- [s \in Submitters |-> Place(s)], count <- runs, outcome <- outcome

\* Whatever starts, stops and times out: a write is applied exactly once before
\* its call reports a result and not again after it, a refused one never, not
\* even later, no call reports "traffic writer stopped before write completed",
\* and every call returns.
KeepsPromise == Promise!Spec

\* A write that was accepted is answered: a submitter blocked on the full channel,
\* or that passed the context check just before Stop cancelled it, never ends with
\* "traffic writer stopped before write completed".
AcceptedIsAnswered == \A s \in Submitters : outcome[s] # "stopped"

\* StopTrafficWriter returns: nobody it waits for waits for it.
StopReturns == stopping # 0 ~> stopping = 0

\* When StopTrafficWriter has returned, every accepted write has been applied and
\* its goroutine is gone.
StoppedIsDrained ==
  \A g \in Gens : g \in cancelled /\ stopping # g => Closed(g) /\ queue[g] = <<>>
=============================================================================
