-------------------------- MODULE BackgroundProofs --------------------------
(***************************************************************************)
(* Proofs about the panel's background goroutines: the traffic writer, the *)
(* event bus, the WebSocket hub and the tunnel monitor.  They share no     *)
(* state: each has its own variables, specification and invariant.         *)
(***************************************************************************)
EXTENDS TrafficWriter, EventBus, WebSocketHub, TunnelMonitor, TLAPS

-----------------------------------------------------------------------------
(***************************************************************************)
(* The traffic writer: every accepted write is answered, Stop drains, and  *)
(* the writer implements TrafficWrites, for every set of submitters, every *)
(* capacity of the channel and any number of starts and stops.             *)
(***************************************************************************)

Queued(s, g) == \E i \in 1..Len(queue[g]) : queue[g][i] = s

\* The channels and their goroutines: one that left its select was cancelled, and
\* one that exited left nothing behind.
Goroutines ==
  /\ gens \in 0..MaxGens /\ tw \in 0..gens /\ stopping \in 0..gens
  /\ cancelled \subseteq 1..gens
  /\ queue \in [Gens -> Seq(Submitters)]
  /\ wpc \in [Gens -> {"unborn", "select", "applying", "drain", "draining", "exited"}]
  /\ wreq \in [Gens -> Submitters \cup {"none"}]
  /\ \A g \in Gens : g > gens => wpc[g] = "unborn" /\ queue[g] = <<>>
  /\ \A g \in Gens : wpc[g] \in {"drain", "draining", "exited"} => g \in cancelled
  /\ \A g \in Gens : wpc[g] = "exited" => queue[g] = <<>>

\* Who waits for whom: a stopped generation is the one Stop waits for or has
\* exited, and a blocked sender holds the mutex, so its channel is not cancelled.
Waiting ==
  /\ stopping # 0 => stopping \in cancelled
  /\ \A g \in cancelled : stopping # g => wpc[g] = "exited"
  /\ \A s \in Submitters : pc[s] = "sending" =>
       twMu = s /\ mine[s] = tw /\ tw # 0 /\ tw \notin cancelled

\* An accepted write has its answer, or is in the channel or in the hands of the
\* goroutine that will give it.
Accepted ==
  /\ pc \in [Submitters -> {"idle", "sending", "await", "inline", "applying", "applied"}]
  /\ mine \in [Submitters -> 0..MaxGens] /\ twMu \in Submitters \cup {"none"}
  /\ answered \subseteq Submitters
  /\ \A g \in Gens : wpc[g] \in {"applying", "draining"} <=> wreq[g] # "none"
  /\ \A s \in Submitters : pc[s] = "await" /\ s \notin answered =>
       /\ mine[s] \in Gens
       /\ Queued(s, mine[s]) \/ wreq[mine[s]] = s

\* What callers are told.
Told ==
  /\ outcome \in [Submitters -> {"none", "done", "full", "stopped"}]
  /\ \A s \in Submitters : outcome[s] # "stopped"

WriterInv == Goroutines /\ Waiting /\ Accepted /\ Told

\* A channel is first in, first out: what is sent is in it, with what was there;
\* what is received was its head, and the rest stays.
LEMMA ChannelFacts ==
  ASSUME NEW q \in Seq(Submitters)
  PROVE  /\ \A s \in Submitters :
              /\ Append(q, s) \in Seq(Submitters) /\ Append(q, s) # <<>>
              /\ \E i \in 1..Len(Append(q, s)) : Append(q, s)[i] = s
              /\ \A i \in 1..Len(q) : i \in 1..Len(Append(q, s)) /\ Append(q, s)[i] = q[i]
         /\ q # <<>> =>
              /\ Head(q) \in Submitters /\ Tail(q) \in Seq(Submitters)
              /\ \A i \in 1..Len(q) :
                   q[i] = Head(q) \/ (i - 1 \in 1..Len(Tail(q)) /\ Tail(q)[i - 1] = q[i])
<1>1. ASSUME NEW s \in Submitters
      PROVE  /\ Append(q, s) \in Seq(Submitters) /\ Append(q, s) # <<>>
             /\ \E i \in 1..Len(Append(q, s)) : Append(q, s)[i] = s
             /\ \A i \in 1..Len(q) : i \in 1..Len(Append(q, s)) /\ Append(q, s)[i] = q[i]
  <2>1. Append(q, s) \in Seq(Submitters) /\ Len(Append(q, s)) = Len(q) + 1 /\ Len(q) \in Nat
    OBVIOUS
  <2>2. Append(q, s)[Len(q) + 1] = s
    OBVIOUS
  <2>3. \A i \in 1..Len(q) : Append(q, s)[i] = q[i]
    OBVIOUS
  <2>4. Append(q, s) # <<>>
    BY <2>1
  <2>5. QED
    BY <2>1, <2>2, <2>3, <2>4
<1>2. ASSUME q # <<>>
      PROVE  /\ Head(q) \in Submitters /\ Tail(q) \in Seq(Submitters)
             /\ \A i \in 1..Len(q) :
                  q[i] = Head(q) \/ (i - 1 \in 1..Len(Tail(q)) /\ Tail(q)[i - 1] = q[i])
  BY <1>2
<1>3. QED
  BY <1>1, <1>2

\* The writer goroutine's steps.
LEMMA WriterStep ==
  ASSUME WriterInv, NEW g \in Gens, RunTrafficWriter(g)
  PROVE  WriterInv'
<1>0. queue[g] \in Seq(Submitters) /\ "none" \notin Submitters
  BY WriterConstants DEF WriterInv, Goroutines
<1>1. CASE Take(g)
  <2>1. /\ wpc[g] \in {"select", "drain"} /\ queue[g] # <<>> /\ wreq[g] = "none"
        /\ wreq' = [wreq EXCEPT ![g] = Head(queue[g])]
        /\ queue' = [queue EXCEPT ![g] = Tail(queue[g])]
        /\ wpc' = [wpc EXCEPT ![g] = IF wpc[g] = "select" THEN "applying" ELSE "draining"]
        /\ UNCHANGED <<twMu, tw, gens, cancelled, pc, mine, outcome, answered, stopping>>
    BY <1>1 DEF Take, caller, WriterInv, Accepted, Goroutines
  <2>2. Goroutines'
    BY <1>0, <2>1, ChannelFacts DEF WriterInv, Goroutines, Gens
  <2>3. Waiting'
    BY <2>1 DEF WriterInv, Goroutines, Waiting, Gens
  <2>4. ASSUME NEW s \in Submitters, pc[s] = "await", s \notin answered
        PROVE  (Queued(s, mine[s]) \/ wreq[mine[s]] = s)'
    <3>1. mine[s] \in Gens /\ (Queued(s, mine[s]) \/ wreq[mine[s]] = s)
      BY <2>4 DEF WriterInv, Accepted
    <3>2. CASE mine[s] # g
      BY <2>1, <3>1, <3>2 DEF Queued, WriterInv, Goroutines
    <3>3. CASE mine[s] = g
      <4>1. PICK i \in 1..Len(queue[g]) : queue[g][i] = s
        BY <1>0, <2>1, <3>1, <3>3 DEF Queued
      <4>2. queue'[g] = Tail(queue[g]) /\ wreq'[g] = Head(queue[g])
        BY <2>1 DEF WriterInv, Goroutines
      <4>3. s = Head(queue[g]) \/ (i - 1 \in 1..Len(Tail(queue[g])) /\ Tail(queue[g])[i - 1] = s)
        BY <1>0, <2>1, <4>1, ChannelFacts
      <4>4. QED
        BY <2>1, <3>3, <4>2, <4>3 DEF Queued
    <3>4. QED
      BY <3>2, <3>3
  <2>5. Accepted'
    BY <1>0, <2>1, <2>4, ChannelFacts DEF WriterInv, Goroutines, Accepted
  <2>6. QED
    BY <2>1, <2>2, <2>3, <2>5 DEF WriterInv, Told
<1>2. CASE Answer(g)
  <2>1. /\ wpc[g] \in {"applying", "draining"} /\ wreq[g] \in Submitters
        /\ answered' = answered \cup {wreq[g]}
        /\ wreq' = [wreq EXCEPT ![g] = "none"]
        /\ wpc' = [wpc EXCEPT ![g] = IF wpc[g] = "applying" THEN "select" ELSE "drain"]
        /\ UNCHANGED <<twMu, tw, gens, cancelled, queue, pc, mine, outcome, stopping>>
    BY <1>2 DEF Answer, caller, WriterInv, Accepted, Goroutines
  <2>2. Goroutines'
    BY <2>1 DEF WriterInv, Goroutines, Gens
  <2>3. Waiting'
    BY <2>1 DEF WriterInv, Goroutines, Waiting, Gens
  <2>4. Accepted'
    BY <1>0, <2>1 DEF WriterInv, Goroutines, Accepted, Queued
  <2>5. QED
    BY <2>1, <2>2, <2>3, <2>4 DEF WriterInv, Told
<1>3. CASE SeeCancelled(g) \/ Exit(g)
  <2>1. /\ \/ wpc[g] = "select" /\ g \in cancelled /\ wpc' = [wpc EXCEPT ![g] = "drain"]
           \/ wpc[g] = "drain" /\ queue[g] = <<>> /\ wpc' = [wpc EXCEPT ![g] = "exited"]
        /\ UNCHANGED <<twMu, tw, gens, cancelled, queue, wreq, answered, pc, mine, outcome, stopping>>
    BY <1>3 DEF SeeCancelled, Exit, caller
  <2>2. Goroutines'
    BY <2>1 DEF WriterInv, Goroutines, Gens
  <2>a. /\ cancelled \subseteq Gens /\ wpc[g] \in {"select", "drain"} /\ wpc'[g] \in {"drain", "exited"}
        /\ \A h \in Gens : h # g => wpc'[h] = wpc[h]
    BY <2>1, WriterConstants DEF WriterInv, Goroutines, Gens
  <2>3. Waiting'
    BY <2>1, <2>a DEF WriterInv, Waiting
  <2>4. Accepted'
    BY <2>1, <2>a DEF WriterInv, Accepted, Queued
  <2>5. QED
    BY <2>1, <2>2, <2>3, <2>4 DEF WriterInv, Told
<1>4. QED
  BY <1>1, <1>2, <1>3 DEF RunTrafficWriter

\* Starting and stopping.
LEMMA LifecycleStep ==
  ASSUME WriterInv, StartTrafficWriter \/ StopTrafficWriter \/ StopFinish
  PROVE  WriterInv'
<1>0. "none" \notin Submitters /\ MaxGens \in Nat
  BY WriterConstants
<1>1. CASE StartTrafficWriter
  <2>1. /\ twMu = "none" /\ gens < MaxGens /\ gens' = gens + 1 /\ tw' = gens + 1
        /\ wpc' = [wpc EXCEPT ![gens + 1] = "select"] /\ gens + 1 \in Gens
        /\ UNCHANGED <<twMu, cancelled, wreq, queue, pc, mine, outcome, answered, stopping>>
    BY <1>0, <1>1 DEF StartTrafficWriter, caller, WriterInv, Goroutines, Gens
  <2>2. wpc[gens + 1] = "unborn" /\ gens + 1 \notin cancelled
    BY <1>0, <2>1 DEF WriterInv, Goroutines, Gens
  <2>a. /\ cancelled \subseteq Gens /\ wpc'[gens + 1] = "select"
        /\ \A h \in Gens : h # gens + 1 => wpc'[h] = wpc[h]
    BY <1>0, <2>1 DEF WriterInv, Goroutines, Gens
  <2>b. /\ gens' \in 0..MaxGens /\ tw' \in 0..gens' /\ stopping' \in 0..gens'
        /\ cancelled' \subseteq 1..gens'
        /\ \A h \in Gens : h > gens' => h > gens /\ h # gens + 1
    <3>1. gens \in Nat /\ gens' = gens + 1 /\ gens + 1 \in 0..MaxGens
      BY <1>0, <2>1 DEF WriterInv, Goroutines, Gens
    <3>2. stopping \in 0..(gens + 1) /\ gens + 1 \in 0..(gens + 1)
      BY <3>1 DEF WriterInv, Goroutines
    <3>3. cancelled \subseteq 1..(gens + 1)
      BY <3>1 DEF WriterInv, Goroutines
    <3>4. \A h \in Gens : h > gens + 1 => h > gens /\ h # gens + 1
      BY <3>1 DEF Gens
    <3>5. QED
      BY <2>1, <3>1, <3>2, <3>3, <3>4
  <2>c. wpc' \in [Gens -> {"unborn", "select", "applying", "drain", "draining", "exited"}]
    BY <2>1 DEF WriterInv, Goroutines
  <2>3. Goroutines'
    BY <2>1, <2>2, <2>a, <2>b, <2>c DEF WriterInv, Goroutines
  <2>4. Waiting'
    BY <1>0, <2>1, <2>2, <2>a DEF WriterInv, Waiting
  <2>5. Accepted'
    BY <2>1, <2>2 DEF WriterInv, Goroutines, Accepted, Queued
  <2>6. QED
    BY <2>1, <2>3, <2>4, <2>5 DEF WriterInv, Told
<1>2. CASE StopTrafficWriter
  <2>1. /\ twMu = "none" /\ stopping = 0 /\ tw # 0
        /\ cancelled' = cancelled \cup {tw} /\ stopping' = tw
        /\ UNCHANGED <<twMu, tw, gens, wpc, wreq, queue, pc, mine, outcome, answered>>
    BY <1>2 DEF StopTrafficWriter, caller, writer
  <2>2. Goroutines'
    BY <1>0, <2>1 DEF WriterInv, Goroutines, Gens
  <2>3. Waiting'
    BY <1>0, <2>1 DEF WriterInv, Goroutines, Waiting, Gens
  <2>4. Accepted' /\ Told'
    BY <2>1 DEF WriterInv, Accepted, Queued, Told
  <2>5. QED
    BY <2>2, <2>3, <2>4 DEF WriterInv
<1>3. CASE StopFinish
  <2>1. /\ twMu = "none" /\ stopping # 0 /\ wpc[stopping] = "exited"
        /\ tw' \in {tw, 0} /\ stopping' = 0
        /\ UNCHANGED <<twMu, gens, cancelled, wpc, wreq, queue, pc, mine, outcome, answered>>
    BY <1>3 DEF StopFinish, Closed, caller, writer
  <2>2. Goroutines'
    BY <1>0, <2>1 DEF WriterInv, Goroutines, Gens
  <2>3. Waiting'
    BY <1>0, <2>1 DEF WriterInv, Goroutines, Waiting, Gens
  <2>4. Accepted' /\ Told'
    BY <2>1 DEF WriterInv, Accepted, Queued, Told
  <2>5. QED
    BY <2>2, <2>3, <2>4 DEF WriterInv
<1>4. QED
  BY <1>1, <1>2, <1>3

\* Sending to a channel that was not cancelled.
LEMMA SendStep ==
  ASSUME WriterInv, NEW s \in Submitters, tw # 0, tw \notin cancelled,
         Send(s, tw), pc' = [pc EXCEPT ![s] = "await"], mine' = [mine EXCEPT ![s] = tw],
         UNCHANGED <<tw, gens, cancelled, wpc, wreq, stopping>>,
         answered' \in {answered, answered \ {s}},
         twMu' = "none", twMu \in {"none", s},
         outcome' \in {outcome, [outcome EXCEPT ![s] = "none"]}
  PROVE  WriterInv'
<1>0. tw \in Gens /\ queue[tw] \in Seq(Submitters) /\ queue'[tw] = Append(queue[tw], s)
      /\ queue' = [queue EXCEPT ![tw] = Append(queue[tw], s)]
  BY WriterConstants DEF WriterInv, Goroutines, Gens, Send
<1>1. Goroutines'
  BY <1>0, ChannelFacts DEF WriterInv, Goroutines, Gens
<1>2. Waiting'
  BY <1>0, WriterConstants DEF WriterInv, Accepted, Waiting
<1>3. ASSUME NEW t \in Submitters, pc'[t] = "await", t \notin answered'
      PROVE  mine'[t] \in Gens /\ (Queued(t, mine[t]) \/ wreq[mine[t]] = t)'
  <2>1. CASE t = s
    <3>1. mine'[t] = tw
      BY <2>1 DEF WriterInv, Accepted
    <3>2. QED
      BY <1>0, <2>1, <3>1, ChannelFacts DEF Queued
  <2>2. CASE t # s
    <3>1. pc[t] = "await" /\ t \notin answered /\ mine'[t] = mine[t]
      BY <1>3, <2>2 DEF WriterInv, Accepted
    <3>2. mine[t] \in Gens /\ (Queued(t, mine[t]) \/ wreq[mine[t]] = t)
      BY <3>1 DEF WriterInv, Accepted
    <3>3. CASE mine[t] = tw
      BY <1>0, <3>1, <3>2, <3>3, ChannelFacts DEF Queued
    <3>4. CASE mine[t] # tw
      <4>1. queue'[mine[t]] = queue[mine[t]]
        BY <1>0, <3>2, <3>4 DEF WriterInv, Goroutines
      <4>2. QED
        BY <3>1, <3>2, <4>1 DEF Queued
    <3>5. QED
      BY <3>3, <3>4
  <2>3. QED
    BY <2>1, <2>2
<1>4. Accepted'
  BY <1>0, <1>3 DEF WriterInv, Accepted, Gens
<1>5. Told'
  BY DEF WriterInv, Told
<1>6. QED
  BY <1>1, <1>2, <1>4, <1>5 DEF WriterInv

\* The submitters' other steps do not touch the channels.
LEMMA CallerStep ==
  ASSUME WriterInv, NEW s \in Submitters, SubmitTrafficWrite(s) \/ Call(s)
  PROVE  WriterInv'
<1>0. "none" \notin Submitters /\ tw \in 0..MaxGens /\ mine[s] \in 0..MaxGens
      /\ mine \in [Submitters -> 0..MaxGens]
      /\ (pc[s] = "sending" => twMu = s /\ mine[s] = tw /\ tw # 0 /\ tw \notin cancelled)
  BY WriterConstants DEF WriterInv, Goroutines, Waiting, Accepted
<1>1. CASE SubmitTrafficWrite(s)
  <2>1. /\ twMu = "none" /\ pc[s] = "idle" /\ answered' = answered \ {s}
        /\ mine' = [mine EXCEPT ![s] = tw] /\ outcome' = [outcome EXCEPT ![s] = "none"]
        /\ UNCHANGED <<tw, gens, cancelled, wpc, wreq, stopping>>
    BY <1>1 DEF SubmitTrafficWrite
  <2>2. CASE tw \notin cancelled \cup {0} /\ Room(tw)
    BY <1>1, <2>1, <2>2, SendStep DEF SubmitTrafficWrite
  <2>3. CASE tw \in cancelled \cup {0} \/ ~Room(tw)
    <3>1. /\ queue' = queue
          /\ \/ pc' = [pc EXCEPT ![s] = "inline"] /\ twMu' = twMu
             \/ /\ pc' = [pc EXCEPT ![s] = "sending"] /\ twMu' = s
                /\ tw # 0 /\ tw \notin cancelled
      BY <1>1, <2>3 DEF SubmitTrafficWrite
    <3>2. Goroutines' /\ Told'
      BY <2>1, <3>1 DEF WriterInv, Goroutines, Told
    <3>3. Waiting'
      BY <1>0, <2>1, <3>1 DEF WriterInv, Waiting, Accepted
    <3>4. Accepted'
      BY <1>0, <2>1, <3>1 DEF WriterInv, Accepted, Queued
    <3>5. QED
      BY <3>2, <3>3, <3>4 DEF WriterInv
  <2>4. QED
    BY <2>2, <2>3
<1>2. CASE SendBlocked(s)
  <2>1. mine' = [mine EXCEPT ![s] = tw] /\ tw # 0 /\ tw \notin cancelled /\ twMu = s
        /\ Send(s, tw)
    BY <1>0, <1>2 DEF SendBlocked
  <2>2. QED
    BY <1>2, <2>1, SendStep DEF SendBlocked
<1>3. CASE SubmitTimeout(s) \/ Await(s) \/ BeginInline(s) \/ EndInline(s) \/ ReportInline(s)
  <2>1. /\ UNCHANGED <<tw, gens, cancelled, wpc, wreq, queue, answered, stopping>>
        /\ twMu' = twMu \/ (pc[s] = "sending" /\ twMu' = "none")
        /\ pc[s] = "sending" => twMu' = "none"
        /\ \/ pc' = [pc EXCEPT ![s] = "idle"] /\ mine' = [mine EXCEPT ![s] = 0]
           \/ pc' = [pc EXCEPT ![s] = "applying"] /\ mine' = mine
           \/ pc' = [pc EXCEPT ![s] = "applied"] /\ mine' = mine
    BY <1>3 DEF SubmitTimeout, Await, BeginInline, EndInline, ReportInline, Report, writer
  <2>2. \E r \in {"done", "full"} : outcome' \in {outcome, [outcome EXCEPT ![s] = r]}
    <3>1. CASE Await(s)
      <4>1. ~(s \notin answered /\ Closed(mine[s]) /\ pc[s] = "await")
        <5>1. ASSUME s \notin answered, pc[s] = "await", Closed(mine[s]) PROVE FALSE
          <6>1. mine[s] \in Gens /\ (Queued(s, mine[s]) \/ wreq[mine[s]] = s)
            BY <5>1 DEF WriterInv, Accepted
          <6>2. queue[mine[s]] = <<>> /\ wreq[mine[s]] = "none"
            BY <5>1, <6>1 DEF WriterInv, Goroutines, Accepted, Closed
          <6>3. QED
            BY <1>0, <6>1, <6>2 DEF Queued
        <5>2. QED
          BY <5>1
      <4>2. QED
        BY <3>1, <4>1 DEF Await, Report
    <3>2. QED
      BY <1>3, <3>1 DEF SubmitTimeout, BeginInline, EndInline, ReportInline, Report
  <2>3. Goroutines'
    BY <2>1 DEF WriterInv, Goroutines
  <2>4. Waiting'
    BY <1>0, <2>1 DEF WriterInv, Waiting, Accepted
  <2>5. Accepted'
    <3>1. /\ pc' \in [Submitters -> {"idle", "sending", "await", "inline", "applying", "applied"}]
          /\ mine' \in [Submitters -> 0..MaxGens] /\ twMu' \in Submitters \cup {"none"}
      BY <1>0, <2>1, WriterConstants DEF WriterInv, Accepted
    <3>2. pc'[s] # "await" /\ \A t \in Submitters : t # s => pc'[t] = pc[t] /\ mine'[t] = mine[t]
      BY <1>0, <2>1 DEF WriterInv, Accepted
    <3>3. ASSUME NEW t \in Submitters, pc'[t] = "await", t \notin answered'
          PROVE  mine'[t] \in Gens /\ (Queued(t, mine[t]) \/ wreq[mine[t]] = t)'
      <4>1. t # s /\ pc[t] = "await" /\ t \notin answered /\ mine'[t] = mine[t]
        BY <2>1, <3>2, <3>3
      <4>2. QED
        BY <2>1, <4>1 DEF WriterInv, Accepted, Queued
    <3>4. QED
      BY <2>1, <3>1, <3>3 DEF WriterInv, Accepted
  <2>6. Told'
    BY <2>2 DEF WriterInv, Told
  <2>7. QED
    BY <2>3, <2>4, <2>5, <2>6 DEF WriterInv
<1>4. QED
  BY <1>1, <1>2, <1>3 DEF Call

\* The inductive invariant of the writer.
THEOREM WriterInvariant == Spec => []WriterInv
<1>1. Init => WriterInv
  BY WriterConstants DEF Init, WriterInv, Goroutines, Waiting, Accepted, Told, Gens
<1>2. WriterInv /\ [Next]_vars => WriterInv'
  <2>1. ASSUME WriterInv, Next PROVE WriterInv'
    BY <2>1, WriterStep, LifecycleStep, CallerStep DEF Next
  <2>2. ASSUME WriterInv, UNCHANGED vars PROVE WriterInv'
    BY <2>2 DEF vars, writer, caller, WriterInv, Goroutines, Waiting, Accepted, Told, Queued
  <2>3. QED
    BY <2>1, <2>2
<1>3. QED
  BY <1>1, <1>2, PTL DEF Spec

\* submitTrafficWrite never reports "traffic writer stopped before write completed",
\* for every number of submitters, capacity and number of restarts.
THEOREM AcceptedWritesAnswered == Spec => []AcceptedIsAnswered
<1>1. WriterInv => AcceptedIsAnswered
  BY DEF WriterInv, Told, AcceptedIsAnswered
<1>2. QED
  BY <1>1, WriterInvariant, PTL

\* StopTrafficWriter returns only after its goroutine drained its channel.
THEOREM StopDrains == Spec => []StoppedIsDrained
<1>1. WriterInv => StoppedIsDrained
  BY DEF WriterInv, Goroutines, Waiting, StoppedIsDrained, Closed
<1>2. QED
  BY <1>1, WriterInvariant, PTL

----------------------------------------------------------------------------
(***************************************************************************)
(* Refinement: every step of the traffic writer is a step of TrafficWrites *)
(* or none: whatever starts, stops and times out, a write is applied       *)
(* exactly once before its call reports a result, and a refused one never. *)
(***************************************************************************)

Held(s, g) == Queued(s, g) \/ wreq[g] = s

\* A write is in one place: in no channel and no goroutine's hands unless its
\* caller waits for the answer, in one of them once until it is answered, and
\* applied exactly when it is.
Once ==
  /\ runs \in [Submitters -> Nat]
  /\ \A s \in Submitters :
       /\ pc[s] # "idle" => outcome[s] = "none"
       /\ pc[s] \in {"sending", "inline", "applying"} => runs[s] = 0 /\ s \notin answered
       /\ pc[s] = "applied" => runs[s] = 1
       /\ pc[s] = "await" => runs[s] = IF s \in answered THEN 1 ELSE 0
       /\ \A g \in Gens : Held(s, g) => pc[s] = "await" /\ s \notin answered /\ mine[s] = g
  /\ \A g \in Gens :
       /\ \A i, j \in 1..Len(queue[g]) : queue[g][i] = queue[g][j] => i = j
       /\ \A i \in 1..Len(queue[g]) : queue[g][i] # wreq[g]

\* What of the specification concerns safety.
PromiseKept == Promise!Init /\ [][Promise!Next]_(Promise!vars)

LEMMA NoRepeats ==
  ASSUME NEW q \in Seq(Submitters), \A i, j \in 1..Len(q) : q[i] = q[j] => i = j
  PROVE  /\ q # <<>> =>
              /\ \A i, j \in 1..Len(Tail(q)) : Tail(q)[i] = Tail(q)[j] => i = j
              /\ \A i \in 1..Len(Tail(q)) : Tail(q)[i] # Head(q)
              /\ \A i \in 1..Len(Tail(q)) : i + 1 \in 1..Len(q) /\ Tail(q)[i] = q[i + 1]
              /\ 1 \in 1..Len(q) /\ Head(q) = q[1]
         /\ \A s \in Submitters : (\A i \in 1..Len(q) : q[i] # s) =>
              \A i, j \in 1..Len(Append(q, s)) : Append(q, s)[i] = Append(q, s)[j] => i = j
         /\ \A s \in Submitters : \A i \in 1..Len(Append(q, s)) :
              Append(q, s)[i] = s \/ (i \in 1..Len(q) /\ Append(q, s)[i] = q[i])
<1>1. ASSUME q # <<>>
      PROVE  /\ \A i, j \in 1..Len(Tail(q)) : Tail(q)[i] = Tail(q)[j] => i = j
             /\ \A i \in 1..Len(Tail(q)) : Tail(q)[i] # Head(q)
             /\ \A i \in 1..Len(Tail(q)) : i + 1 \in 1..Len(q) /\ Tail(q)[i] = q[i + 1]
             /\ 1 \in 1..Len(q) /\ Head(q) = q[1]
  <2>1. /\ Len(q) \in Nat /\ Len(Tail(q)) = Len(q) - 1 /\ 1 \in 1..Len(q) /\ Head(q) = q[1]
        /\ \A i \in 1..Len(Tail(q)) : i + 1 \in 1..Len(q) /\ i + 1 # 1 /\ Tail(q)[i] = q[i + 1]
    BY <1>1
  <2>2. ASSUME NEW i \in 1..Len(Tail(q)), NEW j \in 1..Len(Tail(q)), Tail(q)[i] = Tail(q)[j]
        PROVE  i = j
    <3>1. i + 1 = j + 1
      BY <2>1, <2>2
    <3> QED BY <2>1, <3>1
  <2>3. ASSUME NEW i \in 1..Len(Tail(q)) PROVE Tail(q)[i] # Head(q)
    BY <2>1
  <2> QED BY <2>1, <2>2, <2>3
<1>2. ASSUME NEW s \in Submitters
      PROVE  /\ Len(q) \in Nat /\ Len(Append(q, s)) = Len(q) + 1
             /\ Append(q, s)[Len(q) + 1] = s
             /\ \A i \in 1..Len(q) : Append(q, s)[i] = q[i]
             /\ \A i \in 1..Len(Append(q, s)) : i \in 1..Len(q) \/ i = Len(q) + 1
  <2>1. /\ Len(q) \in Nat /\ Len(Append(q, s)) = Len(q) + 1
        /\ Append(q, s)[Len(q) + 1] = s
        /\ \A i \in 1..Len(q) : Append(q, s)[i] = q[i]
    OBVIOUS
  <2>2. \A i \in 1..Len(Append(q, s)) : i \in 1..Len(q) \/ i = Len(q) + 1
    BY <2>1
  <2> QED BY <2>1, <2>2
<1>3. ASSUME NEW s \in Submitters, \A i \in 1..Len(q) : q[i] # s,
             NEW i \in 1..Len(Append(q, s)), NEW j \in 1..Len(Append(q, s)),
             Append(q, s)[i] = Append(q, s)[j]
      PROVE  i = j
  BY <1>2, <1>3
<1> QED BY <1>1, <1>2, <1>3

\* The goroutine receives: the write moves from the channel to its hands.
LEMMA TakeOnce ==
  ASSUME WriterInv, Once, NEW g \in Gens, Take(g)
  PROVE  Once'
<1>1. /\ queue[g] \in Seq(Submitters) /\ queue[g] # <<>> /\ wreq[g] = "none"
      /\ queue' = [queue EXCEPT ![g] = Tail(queue[g])]
      /\ wreq' = [wreq EXCEPT ![g] = Head(queue[g])]
      /\ queue \in [Gens -> Seq(Submitters)]
      /\ wreq \in [Gens -> Submitters \cup {"none"}]
      /\ UNCHANGED <<pc, mine, outcome, answered, runs>>
  BY DEF Take, caller, WriterInv, Goroutines, Accepted
<1>2. \A i, j \in 1..Len(queue[g]) : queue[g][i] = queue[g][j] => i = j
  BY DEF Once
<1>3. /\ \A i, j \in 1..Len(queue'[g]) : queue'[g][i] = queue'[g][j] => i = j
      /\ \A i \in 1..Len(queue'[g]) : queue'[g][i] # wreq'[g]
  <2>1. queue'[g] = Tail(queue[g]) /\ wreq'[g] = Head(queue[g])
    BY <1>1
  <2> DEFINE q == queue[g]
  <2>2. q \in Seq(Submitters) /\ q # <<>> /\ (\A i, j \in 1..Len(q) : q[i] = q[j] => i = j)
    BY <1>1, <1>2
  <2> HIDE DEF q
  <2>3. /\ \A i, j \in 1..Len(Tail(q)) : Tail(q)[i] = Tail(q)[j] => i = j
        /\ \A i \in 1..Len(Tail(q)) : Tail(q)[i] # Head(q)
    BY <2>2, NoRepeats, Zenon
  <2> QED BY <2>1, <2>3, Zenon DEF q
<1>4. ASSUME NEW s \in Submitters, NEW h \in Gens, Held(s, h)' PROVE Held(s, h)
  <2>1. CASE h = g
    <3>1. s = Head(queue[g]) \/ \E i \in 1..Len(Tail(queue[g])) : Tail(queue[g])[i] = s
      BY <1>1, <1>4, <2>1 DEF Held, Queued
    <3> QED BY <1>1, <1>2, <2>1, <3>1, NoRepeats DEF Held, Queued
  <2>2. CASE h # g
    BY <1>1, <1>4, <2>2 DEF Held, Queued
  <2> QED BY <2>1, <2>2
<1>5. ASSUME NEW h \in Gens, h # g PROVE queue'[h] = queue[h] /\ wreq'[h] = wreq[h]
  BY <1>1, <1>5
<1> QED BY <1>1, <1>3, <1>4, <1>5 DEF Once

\* The goroutine answers: the write leaves its hands, applied once.
LEMMA AnswerOnce ==
  ASSUME WriterInv, Once, NEW g \in Gens, Answer(g)
  PROVE  Once'
<1> DEFINE s == wreq[g]
<1>1. /\ s \in Submitters /\ s # "none" /\ Held(s, g)
      /\ wreq' = [wreq EXCEPT ![g] = "none"] /\ wreq \in [Gens -> Submitters \cup {"none"}]
      /\ runs' = [runs EXCEPT ![s] = @ + 1] /\ answered' = answered \cup {s}
      /\ queue \in [Gens -> Seq(Submitters)]
      /\ UNCHANGED <<queue, pc, mine, outcome>>
  BY DEF Answer, caller, WriterInv, Goroutines, Accepted, Held
<1>2. /\ pc[s] = "await" /\ s \notin answered /\ mine[s] = g /\ runs[s] = 0
      /\ runs \in [Submitters -> Nat]
      /\ \A i \in 1..Len(queue[g]) : queue[g][i] # s
  BY <1>1 DEF Once
<1>3. ASSUME NEW t \in Submitters, NEW h \in Gens, Held(t, h)' PROVE Held(t, h) /\ t # s
  <2>1. Held(t, h) /\ (h = g => Queued(t, g))
    BY <1>1, <1>3, WriterConstants DEF Held, Queued
  <2>2. mine[t] = h
    BY <2>1 DEF Once
  <2> QED BY <1>2, <2>1, <2>2 DEF Queued
<1>4. \A h \in Gens : \A i \in 1..Len(queue[h]) : queue[h][i] # wreq'[h]
  <2> SUFFICES ASSUME NEW h \in Gens, NEW i \in 1..Len(queue[h]) PROVE queue[h][i] # wreq'[h]
    OBVIOUS
  <2>1. queue[h][i] \in Submitters /\ queue[h][i] # wreq[h]
    BY <1>1 DEF Once
  <2> QED BY <1>1, <2>1, WriterConstants
<1>5. ASSUME NEW t \in Submitters
      PROVE  /\ (pc[t] # "idle" => outcome[t] = "none")'
             /\ (pc[t] \in {"sending", "inline", "applying"} => runs[t] = 0 /\ t \notin answered)'
             /\ (pc[t] = "applied" => runs[t] = 1)'
             /\ (pc[t] = "await" => runs[t] = IF t \in answered THEN 1 ELSE 0)'
  <2>1. CASE t = s
    BY <1>1, <1>2, <2>1 DEF Once
  <2>2. CASE t # s
    BY <1>1, <1>2, <2>2 DEF Once
  <2> QED BY <2>1, <2>2
<1>6. \A t \in Submitters : \A h \in Gens : Held(t, h)' =>
        pc'[t] = "await" /\ t \notin answered' /\ mine'[t] = h
  BY <1>1, <1>3 DEF Once
<1>7. runs' \in [Submitters -> Nat]
  BY <1>1, <1>2
<1> QED BY <1>1, <1>4, <1>5, <1>6, <1>7 DEF Once

\* A caller sends: its write is nowhere yet, and then last in its channel.
LEMMA SendOnce ==
  ASSUME WriterInv, Once, NEW s \in Submitters, pc[s] \in {"idle", "sending"},
         tw \in Gens, Send(s, tw), pc' = [pc EXCEPT ![s] = "await"],
         mine' = [mine EXCEPT ![s] = tw], UNCHANGED wreq,
         answered' = answered \ {s}, runs' = [runs EXCEPT ![s] = 0],
         outcome' = [outcome EXCEPT ![s] = "none"]
  PROVE  Once'
<1>1. /\ queue \in [Gens -> Seq(Submitters)] /\ queue[tw] \in Seq(Submitters)
      /\ queue' = [queue EXCEPT ![tw] = Append(queue[tw], s)]
      /\ pc \in [Submitters -> {"idle", "sending", "await", "inline", "applying", "applied"}]
      /\ mine \in [Submitters -> 0..MaxGens] /\ runs \in [Submitters -> Nat]
      /\ outcome \in [Submitters -> {"none", "done", "full", "stopped"}]
  BY DEF Send, WriterInv, Goroutines, Accepted, Told, Once
<1>2. \A g \in Gens : ~Held(s, g)
  BY DEF Once
<1>3. /\ \A i, j \in 1..Len(queue[tw]) : queue[tw][i] = queue[tw][j] => i = j
      /\ \A i \in 1..Len(queue[tw]) : queue[tw][i] # s
      /\ wreq[tw] # s
  BY <1>2 DEF Once, Held, Queued
<1>4. /\ \A i, j \in 1..Len(queue'[tw]) : queue'[tw][i] = queue'[tw][j] => i = j
      /\ \A i \in 1..Len(queue'[tw]) :
           queue'[tw][i] = s \/ (i \in 1..Len(queue[tw]) /\ queue'[tw][i] = queue[tw][i])
  <2> DEFINE q == queue[tw]
  <2>1. /\ \A i, j \in 1..Len(Append(q, s)) : Append(q, s)[i] = Append(q, s)[j] => i = j
        /\ \A i \in 1..Len(Append(q, s)) :
             Append(q, s)[i] = s \/ (i \in 1..Len(q) /\ Append(q, s)[i] = q[i])
    <3> HIDE DEF q
    <3>1. q \in Seq(Submitters) /\ (\A i, j \in 1..Len(q) : q[i] = q[j] => i = j)
          /\ \A i \in 1..Len(q) : q[i] # s
      BY <1>1, <1>3 DEF q
    <3> QED BY <3>1, NoRepeats
  <2>2. queue'[tw] = Append(q, s)
    BY <1>1
  <2> QED BY <2>1, <2>2
<1>5. \A i \in 1..Len(queue'[tw]) : queue'[tw][i] # wreq'[tw]
  BY <1>3, <1>4 DEF Once
<1>6. \A g \in Gens : g # tw => queue'[g] = queue[g]
  BY <1>1
<1>7. ASSUME NEW t \in Submitters, NEW g \in Gens, Held(t, g)', t # s PROVE Held(t, g)
  BY <1>4, <1>6, <1>7 DEF Held, Queued
<1>8. ASSUME NEW g \in Gens, Held(s, g)' PROVE g = tw
  BY <1>2, <1>6, <1>8 DEF Held, Queued
<1>9. ASSUME NEW t \in Submitters, t # s
      PROVE  pc'[t] = pc[t] /\ mine'[t] = mine[t] /\ runs'[t] = runs[t] /\ outcome'[t] = outcome[t]
             /\ (t \in answered' <=> t \in answered)
  BY <1>1, <1>9
<1>10. /\ pc'[s] = "await" /\ mine'[s] = tw /\ runs'[s] = 0 /\ outcome'[s] = "none" /\ s \notin answered'
       /\ runs' \in [Submitters -> Nat]
  BY <1>1
<1>11. ASSUME NEW t \in Submitters
       PROVE  /\ (pc[t] # "idle" => outcome[t] = "none")'
              /\ (pc[t] \in {"sending", "inline", "applying"} => runs[t] = 0 /\ t \notin answered)'
              /\ (pc[t] = "applied" => runs[t] = 1)'
              /\ (pc[t] = "await" => runs[t] = IF t \in answered THEN 1 ELSE 0)'
              /\ \A g \in Gens : Held(t, g)' => pc'[t] = "await" /\ t \notin answered' /\ mine'[t] = g
  <2>1. CASE t = s
    BY <1>8, <1>10, <2>1
  <2>2. CASE t # s
    BY <1>7, <1>9, <2>2 DEF Once
  <2> QED BY <2>1, <2>2
<1>12. \A g \in Gens :
         /\ \A i, j \in 1..Len(queue'[g]) : queue'[g][i] = queue'[g][j] => i = j
         /\ \A i \in 1..Len(queue'[g]) : queue'[g][i] # wreq'[g]
  BY <1>4, <1>5, <1>6 DEF Once
<1> QED BY <1>10, <1>11, <1>12 DEF Once

\* Steps of a caller that leave the channels alone.
LEMMA QuietOnce ==
  ASSUME WriterInv, Once, NEW s \in Submitters, UNCHANGED <<queue, wreq>>,
         \A g \in Gens : ~Held(s, g),
         \A t \in Submitters \ {s} :
           /\ pc'[t] = pc[t] /\ mine'[t] = mine[t] /\ runs'[t] = runs[t]
           /\ outcome'[t] = outcome[t] /\ (t \in answered' <=> t \in answered),
         runs' \in [Submitters -> Nat],
         pc'[s] # "await",
         pc'[s] # "idle" => outcome'[s] = "none",
         pc'[s] \in {"sending", "inline", "applying"} => runs'[s] = 0 /\ s \notin answered',
         pc'[s] = "applied" => runs'[s] = 1
  PROVE  Once'
<1>1. \A t \in Submitters, g \in Gens : Held(t, g)' <=> Held(t, g)
  BY DEF Held, Queued
<1>2. ASSUME NEW t \in Submitters
      PROVE  /\ (pc[t] # "idle" => outcome[t] = "none")'
             /\ (pc[t] \in {"sending", "inline", "applying"} => runs[t] = 0 /\ t \notin answered)'
             /\ (pc[t] = "applied" => runs[t] = 1)'
             /\ (pc[t] = "await" => runs[t] = IF t \in answered THEN 1 ELSE 0)'
             /\ \A g \in Gens : Held(t, g)' => pc'[t] = "await" /\ t \notin answered' /\ mine'[t] = g
  <2>1. CASE t = s
    BY <1>1, <2>1
  <2>2. CASE t # s
    BY <1>1, <2>2 DEF Once
  <2> QED BY <2>1, <2>2
<1> QED BY <1>2 DEF Once

\* Every step keeps each write in its one place.
LEMMA OnceStep ==
  ASSUME WriterInv, Once, [Next]_vars, WriterInv'
  PROVE  Once'
<1>0. /\ pc \in [Submitters -> {"idle", "sending", "await", "inline", "applying", "applied"}]
      /\ mine \in [Submitters -> 0..MaxGens] /\ runs \in [Submitters -> Nat]
      /\ outcome \in [Submitters -> {"none", "done", "full", "stopped"}]
      /\ answered \subseteq Submitters /\ tw \in 0..MaxGens
  BY WriterConstants DEF WriterInv, Goroutines, Accepted, Told, Once
<1>1. ASSUME UNCHANGED <<queue, wreq, pc, mine, outcome, answered, runs>> PROVE Once'
  BY <1>1 DEF Once, Held, Queued
<1>2. CASE StartTrafficWriter \/ StopTrafficWriter \/ StopFinish \/ UNCHANGED vars
  BY <1>1, <1>2 DEF StartTrafficWriter, StopTrafficWriter, StopFinish, vars, writer, caller
<1>3. ASSUME NEW g \in Gens, RunTrafficWriter(g) PROVE Once'
  <2>1. CASE SeeCancelled(g) \/ Exit(g)
    BY <1>1, <2>1 DEF SeeCancelled, Exit, caller
  <2> QED BY <1>3, <2>1, TakeOnce, AnswerOnce DEF RunTrafficWriter
<1>4. ASSUME NEW s \in Submitters, SubmitTrafficWrite(s) PROVE Once'
  <2>1. /\ pc[s] = "idle" /\ answered' = answered \ {s}
        /\ mine' = [mine EXCEPT ![s] = tw] /\ outcome' = [outcome EXCEPT ![s] = "none"]
        /\ runs' = [runs EXCEPT ![s] = 0] /\ wreq' = wreq
    BY <1>4 DEF SubmitTrafficWrite
  <2>2. CASE pc' = [pc EXCEPT ![s] = "await"]
    <3>1. tw \in Gens /\ Send(s, tw)
      BY <1>0, <1>4, <2>1, <2>2 DEF SubmitTrafficWrite, Gens
    <3> QED BY <2>1, <2>2, <3>1, SendOnce
  <2>3. CASE pc' # [pc EXCEPT ![s] = "await"]
    <3>1. /\ queue' = queue
          /\ pc' = [pc EXCEPT ![s] = "inline"] \/ pc' = [pc EXCEPT ![s] = "sending"]
      BY <1>4, <2>3 DEF SubmitTrafficWrite
    <3>2. \A g \in Gens : ~Held(s, g)
      BY <2>1 DEF Once
    <3>3. /\ runs' \in [Submitters -> Nat] /\ runs'[s] = 0 /\ outcome'[s] = "none"
          /\ pc'[s] \in {"inline", "sending"} /\ s \notin answered'
          /\ \A t \in Submitters \ {s} :
               /\ pc'[t] = pc[t] /\ mine'[t] = mine[t] /\ runs'[t] = runs[t]
               /\ outcome'[t] = outcome[t] /\ (t \in answered' <=> t \in answered)
      BY <1>0, <2>1, <3>1
    <3> QED BY <2>1, <3>1, <3>2, <3>3, QuietOnce
  <2> QED BY <2>2, <2>3
<1>5. ASSUME NEW s \in Submitters, SendBlocked(s) PROVE Once'
  <2>1. /\ pc[s] = "sending" /\ mine[s] = tw /\ tw # 0 /\ s \notin answered
        /\ runs[s] = 0 /\ outcome[s] = "none"
    BY <1>5 DEF SendBlocked, WriterInv, Waiting, Once
  <2>2. tw \in Gens /\ Send(s, tw) /\ pc' = [pc EXCEPT ![s] = "await"] /\ wreq' = wreq
    BY <1>0, <1>5, <2>1, WriterConstants DEF SendBlocked, Gens
  <2>3. /\ mine' = [mine EXCEPT ![s] = tw] /\ answered' = answered \ {s}
        /\ runs' = [runs EXCEPT ![s] = 0] /\ outcome' = [outcome EXCEPT ![s] = "none"]
    BY <1>0, <1>5, <2>1 DEF SendBlocked
  <2> QED BY <2>1, <2>2, <2>3, SendOnce
<1>6. ASSUME NEW s \in Submitters, SubmitTimeout(s) \/ Await(s) \/ ReportInline(s) PROVE Once'
  <2>1. /\ UNCHANGED <<queue, wreq, answered, runs>>
        /\ \E r : pc' = [pc EXCEPT ![s] = "idle"] /\ mine' = [mine EXCEPT ![s] = 0]
                  /\ outcome' = [outcome EXCEPT ![s] = r]
    BY <1>6 DEF SubmitTimeout, Await, ReportInline, Report, writer
  <2>2. \A g \in Gens : ~Held(s, g)
    <3>1. CASE Await(s)
      <4>1. outcome'[s] # "stopped"
        BY DEF WriterInv, Told
      <4>2. s \in answered
        BY <1>0, <3>1, <4>1 DEF Await, Report
      <4> QED BY <4>2 DEF Once
    <3> QED BY <1>6, <3>1 DEF SubmitTimeout, ReportInline, Once
  <2>3. /\ pc'[s] = "idle"
        /\ \A t \in Submitters \ {s} :
             /\ pc'[t] = pc[t] /\ mine'[t] = mine[t] /\ runs'[t] = runs[t]
             /\ outcome'[t] = outcome[t] /\ (t \in answered' <=> t \in answered)
    BY <1>0, <2>1
  <2> QED BY <1>0, <2>1, <2>2, <2>3, QuietOnce
<1>7. ASSUME NEW s \in Submitters, BeginInline(s) \/ EndInline(s) PROVE Once'
  <2>1. /\ UNCHANGED <<queue, wreq, answered, mine, outcome>> /\ pc[s] \in {"inline", "applying"}
        /\ runs[s] = 0 /\ s \notin answered
        /\ \/ pc' = [pc EXCEPT ![s] = "applying"] /\ runs' = runs
           \/ pc' = [pc EXCEPT ![s] = "applied"] /\ runs' = [runs EXCEPT ![s] = @ + 1]
    BY <1>7 DEF BeginInline, EndInline, writer, Once
  <2>2. \A g \in Gens : ~Held(s, g)
    BY <2>1 DEF Once
  <2>3. outcome[s] = "none"
    BY <2>1 DEF Once
  <2>4. /\ runs' \in [Submitters -> Nat]
        /\ \/ pc'[s] = "applying" /\ runs'[s] = 0
           \/ pc'[s] = "applied" /\ runs'[s] = 1
        /\ \A t \in Submitters \ {s} :
             /\ pc'[t] = pc[t] /\ mine'[t] = mine[t] /\ runs'[t] = runs[t]
             /\ outcome'[t] = outcome[t] /\ (t \in answered' <=> t \in answered)
    BY <1>0, <2>1
  <2> QED BY <2>1, <2>2, <2>3, <2>4, QuietOnce
<1> QED BY <1>2, <1>3, <1>4, <1>5, <1>6, <1>7 DEF Next, Call

\* The write of s moves on in TrafficWrites when its place does here.
LEMMA MoveStep ==
  ASSUME NEW s \in Submitters, NEW from, NEW to, NEW n, NEW out, Place(s) = from, Place(s)' = to,
         \A t \in Submitters \ {s} : Place(t)' = Place(t),
         runs' = [runs EXCEPT ![s] = n], outcome' = [outcome EXCEPT ![s] = out]
  PROVE  Promise!Move(s, from, to, n, out)
<1> DEFINE st == [t \in Submitters |-> Place(t)]
<1>1. st[s] = from
  OBVIOUS
<1>2. st' = [st EXCEPT ![s] = to]
  OBVIOUS
<1> QED BY <1>1, <1>2 DEF Promise!Move

\* The step simulation.
LEMMA Simulates ==
  ASSUME WriterInv, Once, [Next]_vars, WriterInv'
  PROVE  [Promise!Next]_(Promise!vars)
<1>0. /\ pc \in [Submitters -> {"idle", "sending", "await", "inline", "applying", "applied"}]
      /\ runs \in [Submitters -> Nat]
      /\ outcome \in [Submitters -> {"none", "done", "full", "stopped"}]
      /\ \A s \in Submitters : outcome'[s] # "stopped"
  BY DEF WriterInv, Accepted, Told, Once
<1>1. ASSUME UNCHANGED <<pc, runs, outcome>> PROVE UNCHANGED Promise!vars
  BY <1>1 DEF Promise!vars, Place
<1>2. ASSUME NEW s \in Submitters, UNCHANGED <<runs, outcome>>, pc[s] # "idle",
             \E to \in {"await", "applying"} : pc' = [pc EXCEPT ![s] = to]
      PROVE  UNCHANGED Promise!vars
  <2>1. \A t \in Submitters : Place(t)' = Place(t)
    BY <1>0, <1>2 DEF Place
  <2> QED BY <1>2, <2>1 DEF Promise!vars
<1>3. CASE StartTrafficWriter \/ StopTrafficWriter \/ StopFinish \/ UNCHANGED vars
  BY <1>1, <1>3 DEF StartTrafficWriter, StopTrafficWriter, StopFinish, vars, caller
<1>4. ASSUME NEW g \in Gens, RunTrafficWriter(g) PROVE [Promise!Next]_(Promise!vars)
  <2>1. CASE Take(g) \/ SeeCancelled(g) \/ Exit(g)
    BY <1>1, <2>1 DEF Take, SeeCancelled, Exit, caller
  <2>2. CASE Answer(g)
    <3>0. PICK s \in Submitters : s = wreq[g]
      BY <2>2 DEF Answer, WriterInv, Goroutines, Accepted
    <3>1. /\ pc[s] = "await" /\ runs[s] = 0 /\ outcome[s] = "none"
          /\ runs' = [runs EXCEPT ![s] = @ + 1] /\ UNCHANGED <<pc, outcome>>
      BY <2>2, <3>0 DEF Answer, caller, Once, Held
    <3>2. /\ Place(s) = "pending" /\ Place(s)' = "applied"
          /\ \A t \in Submitters \ {s} : Place(t)' = Place(t)
      BY <1>0, <3>1 DEF Place
    <3>3. runs' = [runs EXCEPT ![s] = 1] /\ outcome' = [outcome EXCEPT ![s] = "none"]
      BY <1>0, <3>1
    <3>4. Promise!Apply(s)
      BY <3>1, <3>2, <3>3, MoveStep DEF Promise!Apply
    <3> QED BY <3>1, <3>4 DEF Promise!Next
  <2> QED BY <1>4, <2>1, <2>2 DEF RunTrafficWriter
<1>5. ASSUME NEW s \in Submitters, SubmitTrafficWrite(s) PROVE Promise!Submit(s)
  <2>1. /\ pc[s] = "idle" /\ outcome' = [outcome EXCEPT ![s] = "none"]
        /\ runs' = [runs EXCEPT ![s] = 0]
        /\ \E to \in {"inline", "await", "sending"} : pc' = [pc EXCEPT ![s] = to]
    BY <1>5 DEF SubmitTrafficWrite
  <2>2. /\ Place(s) = "idle" /\ Place(s)' = "pending"
        /\ \A t \in Submitters \ {s} : Place(t)' = Place(t)
    BY <1>0, <2>1 DEF Place
  <2> QED BY <2>1, <2>2, MoveStep DEF Promise!Submit
<1>6. ASSUME NEW s \in Submitters, SendBlocked(s) \/ BeginInline(s) PROVE UNCHANGED Promise!vars
  BY <1>2, <1>6 DEF SendBlocked, BeginInline
<1>7. ASSUME NEW s \in Submitters, EndInline(s) PROVE Promise!Apply(s)
  <2>1. /\ pc[s] = "applying" /\ pc' = [pc EXCEPT ![s] = "applied"] /\ outcome' = outcome
        /\ runs' = [runs EXCEPT ![s] = @ + 1] /\ runs[s] = 0 /\ outcome[s] = "none"
    BY <1>7 DEF EndInline, Once
  <2>2. /\ Place(s) = "pending" /\ Place(s)' = "applied"
        /\ \A t \in Submitters \ {s} : Place(t)' = Place(t)
    BY <1>0, <2>1 DEF Place
  <2>3. runs' = [runs EXCEPT ![s] = 1] /\ outcome' = [outcome EXCEPT ![s] = "none"]
    BY <1>0, <2>1
  <2> QED BY <2>2, <2>3, MoveStep DEF Promise!Apply
<1>8. ASSUME NEW s \in Submitters, SubmitTimeout(s) PROVE Promise!Refuse(s)
  <2>1. /\ pc[s] = "sending" /\ pc' = [pc EXCEPT ![s] = "idle"] /\ runs' = runs /\ runs[s] = 0
        /\ outcome' = [outcome EXCEPT ![s] = "full"]
    BY <1>8 DEF SubmitTimeout, Report, Once
  <2>2. /\ Place(s) = "pending" /\ Place(s)' = "idle"
        /\ \A t \in Submitters \ {s} : Place(t)' = Place(t)
    BY <1>0, <2>1 DEF Place
  <2>3. runs' = [runs EXCEPT ![s] = 0]
    BY <1>0, <2>1
  <2> QED BY <2>1, <2>2, <2>3, MoveStep DEF Promise!Refuse
<1>9. ASSUME NEW s \in Submitters, Await(s) \/ ReportInline(s) PROVE Promise!Done(s)
  <2>1. /\ pc' = [pc EXCEPT ![s] = "idle"] /\ runs' = runs
        /\ outcome' = [outcome EXCEPT ![s] = "done"]
        /\ pc[s] = "applied" \/ (pc[s] = "await" /\ s \in answered)
    BY <1>0, <1>9 DEF Await, ReportInline, Report
  <2>2. runs[s] = 1
    BY <2>1 DEF Once
  <2>3. /\ Place(s) = "applied" /\ Place(s)' = "idle"
        /\ \A t \in Submitters \ {s} : Place(t)' = Place(t)
    BY <1>0, <2>1, <2>2 DEF Place
  <2>4. runs' = [runs EXCEPT ![s] = 1]
    BY <1>0, <2>1, <2>2
  <2> QED BY <2>1, <2>3, <2>4, MoveStep DEF Promise!Done
<1> QED BY <1>3, <1>4, <1>5, <1>6, <1>7, <1>8, <1>9 DEF Next, Call, Promise!Next

\* The traffic writer implements TrafficWrites, fairness aside, for every number
\* of submitters, capacity and number of starts and stops: a write handed to
\* submitTrafficWrite is applied exactly once before the call returns and not again
\* after it, or never, not even later, when the call reports the queue full.
THEOREM WriterImplementsPromise == Spec => PromiseKept
<1>1. Init => Once
  BY WriterConstants DEF Init, Once, Held, Queued
<1>2. Init => Promise!Init
  BY DEF Init, Promise!Init, Place
<1>3. WriterInv /\ WriterInv' /\ Once /\ [Next]_vars => Once'
  BY OnceStep
<1>4. WriterInv /\ WriterInv' /\ Once /\ [Next]_vars => [Promise!Next]_(Promise!vars)
  BY Simulates
<1> QED BY <1>1, <1>2, <1>3, <1>4, WriterInvariant, PTL DEF Spec, PromiseKept

-----------------------------------------------------------------------------
(***************************************************************************)
(* The event bus: the bounds of its queues, the order in which a           *)
(* subscriber sees events, and the silence after Stop, for any number of   *)
(* ids, subscribers and events.                                            *)
(***************************************************************************)

\* Everything on the way to subscriber s in the order in which it will get it:
\* the event it has, its queue, then the channel, all of it published.  This is
\* what makes InPublicationOrder inductive: a dispatched event goes behind the
\* queue because it comes from behind the queue.
Above(q, e) == \A a \in 1..Len(q) : e < q[a]
UpTo(q, e) == \A a \in 1..Len(q) : q[a] <= e
Before(q, r) == \A a \in 1..Len(q), b \in 1..Len(r) : q[a] < r[b]
Behind(s) ==
  /\ Ascending(ch) /\ Ascending(subQueue[s])
  /\ Above(subQueue[s], event[s]) /\ Above(ch, event[s]) /\ Before(subQueue[s], ch)
  /\ UpTo(subQueue[s], published) /\ UpTo(ch, published) /\ event[s] <= published

OrderInv == \A s \in Subs : Behind(s)

\* A worker exists exactly for the objects handed out, so no worker is born
\* once Stop marked the bus; closing comes after marking, waiting after closing.
QuietInv == \A s \in Subs : s > made => subPc[s] = "unborn"

LEMMA TailFacts ==
  ASSUME NEW S, NEW q \in Seq(S), q # <<>>
  PROVE  /\ Head(q) \in S /\ Tail(q) \in Seq(S) /\ Len(q) \in Nat /\ Len(q) >= 1
         /\ Len(Tail(q)) = Len(q) - 1 /\ Head(q) = q[1]
         /\ \A a \in 1..Len(Tail(q)) : Tail(q)[a] = q[a + 1]
  OBVIOUS

LEMMA LastFacts ==
  ASSUME NEW S, NEW q \in Seq(S), NEW e \in S
  PROVE  /\ Append(q, e) \in Seq(S) /\ Len(q) \in Nat
         /\ Len(Append(q, e)) = Len(q) + 1
         /\ \A a \in 1..Len(q) : Append(q, e)[a] = q[a]
         /\ Append(q, e)[Len(q) + 1] = e
  OBVIOUS

\* What is up to one event is below the next one.
LEMMA UpToNext ==
  ASSUME NEW q \in Seq(Nat), NEW e \in Nat, UpTo(q, e)
  PROVE  UpTo(q, e + 1) /\ \A a \in 1..Len(q) : q[a] < e + 1
<1>1. \A a \in 1..Len(q) : q[a] \in Nat /\ q[a] <= e
  BY DEF UpTo
<1> QED BY <1>1 DEF UpTo

\* Taking the head of an ordered queue leaves one that is ordered and above it.
LEMMA TailOrder ==
  ASSUME NEW q \in Seq(Nat), q # <<>>, Ascending(q)
  PROVE  /\ Head(q) \in Nat /\ Ascending(Tail(q)) /\ Above(Tail(q), Head(q))
         /\ \A e \in Nat : Above(q, e) => e < Head(q) /\ Above(Tail(q), e)
         /\ \A e \in Nat : UpTo(q, e) => Head(q) <= e /\ UpTo(Tail(q), e)
<1>1. /\ Head(q) = q[1] /\ Head(q) \in Nat /\ Len(q) \in Nat /\ Len(q) >= 1
      /\ Len(Tail(q)) = Len(q) - 1
      /\ \A a \in 1..Len(Tail(q)) : Tail(q)[a] = q[a + 1] /\ a + 1 \in 1..Len(q)
      /\ \A a \in 1..Len(q) : q[a] \in Nat
  BY TailFacts
<1>2. 1 \in 1..Len(q)
  BY <1>1
<1>3. Ascending(Tail(q))
  <2> SUFFICES ASSUME NEW a \in 1..Len(Tail(q)), NEW b \in 1..Len(Tail(q)), a < b
               PROVE  Tail(q)[a] < Tail(q)[b]
    BY DEF Ascending
  <2>1. a + 1 \in 1..Len(q) /\ b + 1 \in 1..Len(q) /\ a + 1 < b + 1
    BY <1>1
  <2>2. q[a + 1] < q[b + 1]
    BY <2>1 DEF Ascending
  <2> QED BY <1>1, <2>2
<1>4. Above(Tail(q), Head(q))
  <2> SUFFICES ASSUME NEW a \in 1..Len(Tail(q)) PROVE Head(q) < Tail(q)[a]
    BY DEF Above
  <2>1. a + 1 \in 1..Len(q) /\ 1 < a + 1
    BY <1>1
  <2>2. q[1] < q[a + 1]
    BY <1>2, <2>1 DEF Ascending
  <2> QED BY <1>1, <2>2
<1>5. ASSUME NEW e \in Nat PROVE Above(q, e) => e < Head(q) /\ Above(Tail(q), e)
  BY <1>1, <1>2 DEF Above
<1>6. ASSUME NEW e \in Nat PROVE UpTo(q, e) => Head(q) <= e /\ UpTo(Tail(q), e)
  BY <1>1, <1>2 DEF UpTo
<1> QED BY <1>1, <1>3, <1>4, <1>5, <1>6

\* Appending something greater keeps the order.
LEMMA AppendOrder ==
  ASSUME NEW q \in Seq(Nat), NEW e \in Nat, Ascending(q), \A a \in 1..Len(q) : q[a] < e
  PROVE  /\ Ascending(Append(q, e))
         /\ \A f \in Nat : Above(q, f) /\ f < e => Above(Append(q, e), f)
         /\ \A f \in Nat : UpTo(q, f) /\ e <= f => UpTo(Append(q, e), f)
<1>1. /\ Len(q) \in Nat /\ Len(Append(q, e)) = Len(q) + 1
      /\ \A a \in 1..Len(q) : Append(q, e)[a] = q[a] /\ q[a] \in Nat
      /\ Append(q, e)[Len(q) + 1] = e
  BY LastFacts
<1>2. Ascending(Append(q, e))
  <2> SUFFICES ASSUME NEW a \in 1..(Len(q) + 1), NEW b \in 1..(Len(q) + 1), a < b
               PROVE  Append(q, e)[a] < Append(q, e)[b]
    BY <1>1 DEF Ascending
  <2>1. a \in 1..Len(q)
    BY <1>1
  <2>2. CASE b = Len(q) + 1
    BY <1>1, <2>1, <2>2
  <2>3. CASE b # Len(q) + 1
    <3>1. b \in 1..Len(q)
      BY <1>1, <2>3
    <3>2. q[a] < q[b]
      BY <2>1, <3>1 DEF Ascending
    <3> QED BY <1>1, <2>1, <3>1, <3>2
  <2> QED BY <2>2, <2>3
<1>3. ASSUME NEW f \in Nat PROVE Above(q, f) /\ f < e => Above(Append(q, e), f)
  BY <1>1 DEF Above
<1>4. ASSUME NEW f \in Nat PROVE UpTo(q, f) /\ e <= f => UpTo(Append(q, e), f)
  BY <1>1 DEF UpTo
<1> QED BY <1>2, <1>3, <1>4

-----------------------------------------------------------------------------
\* Type correctness, with the bounds of the channel and of every queue.
THEOREM BusTypeCorrect == BusSpec => []TypeOK
<1>1. New => TypeOK
  BY BusConstants DEF New, TypeOK, Subs
<1>2. TypeOK /\ [BusNext]_busVars => TypeOK'
  <2> SUFFICES ASSUME TypeOK, [BusNext]_busVars PROVE TypeOK'
    OBVIOUS
  <2> USE BusConstants
  <2>1. ASSUME NEW i \in Ids, Subscribe(i) PROVE TypeOK'
    <3>1. made + 1 \in Subs /\ made' = made + 1 /\ made' \in 0..MaxSubs
      BY <2>1 DEF Subscribe, TypeOK, Subs
    <3>2. Holders(i) \subseteq 1..made
      BY DEF Holders, TypeOK
    <3>3. subs' \subseteq 1..made' /\ quit' \subseteq 1..made'
      <4>1. \A x \in 1..made : x \in 1..made'
        BY <3>1 DEF TypeOK
      <4>2. made + 1 \in 1..made'
        BY <3>1 DEF TypeOK
      <4> QED BY <2>1, <3>2, <4>1, <4>2 DEF Subscribe, TypeOK
    <3>4. id' \in [Subs -> Ids \cup {"none"}]
      BY <2>1 DEF Subscribe, TypeOK
    <3>5. subPc' \in [Subs -> {"unborn", "select", "handling", "exited"}]
      BY <2>1 DEF Subscribe, TypeOK
    <3> QED BY <2>1, <3>1, <3>3, <3>4, <3>5 DEF Subscribe, TypeOK
  <2>2. ASSUME NEW i \in Ids, Unsubscribe(i) PROVE TypeOK'
    BY <2>2 DEF Unsubscribe, TypeOK, Subs, Holders, worker
  <2>3. CASE Publish
    <3>1. published + 1 \in 1..MaxEvents
      BY <2>3 DEF Publish, TypeOK
    <3>2. ch' \in Seq(1..MaxEvents) /\ Len(ch') <= BufSize
      <4>1. ch \in Seq(1..MaxEvents) /\ Len(ch) <= BufSize
        BY DEF TypeOK
      <4>2. /\ Append(ch, published + 1) \in Seq(1..MaxEvents)
            /\ Len(ch) \in Nat /\ Len(Append(ch, published + 1)) = Len(ch) + 1
        BY <3>1, <4>1, LastFacts
      <4>3. CASE Len(ch) < BufSize
        BY <2>3, <4>2, <4>3 DEF Publish
      <4>4. CASE ~(Len(ch) < BufSize)
        BY <2>3, <4>1, <4>4 DEF Publish
      <4> QED BY <4>3, <4>4
    <3> QED BY <2>3, <3>1, <3>2 DEF Publish, TypeOK, registry, worker
  <2>4. CASE Dispatch
    <3>1. /\ ch' \in Seq(1..MaxEvents) /\ Len(ch') <= BufSize /\ Head(ch) \in 1..MaxEvents
      BY <2>4, TailFacts DEF Dispatch, TypeOK
    <3>2. ASSUME NEW s \in Subs
          PROVE  subQueue'[s] \in Seq(1..MaxEvents) /\ Len(subQueue'[s]) <= SubQueueSize
      <4>1. CASE s \in subs /\ Len(subQueue[s]) < SubQueueSize
        <5>1. subQueue'[s] = Append(subQueue[s], Head(ch))
          BY <2>4, <4>1 DEF Dispatch
        <5>2. subQueue[s] \in Seq(1..MaxEvents)
          BY DEF TypeOK
        <5> QED BY <3>1, <4>1, <5>1, <5>2, LastFacts
      <4>2. CASE ~(s \in subs /\ Len(subQueue[s]) < SubQueueSize)
        BY <2>4, <4>2 DEF Dispatch, TypeOK
      <4> QED BY <4>1, <4>2
    <3>3. subQueue' \in [Subs -> Seq(1..MaxEvents)]
      BY <2>4, <3>2 DEF Dispatch
    <3> QED BY <2>4, <3>1, <3>2, <3>3 DEF Dispatch, TypeOK, registry, worker
  <2>5. CASE DispatchExit
    BY <2>5 DEF DispatchExit, TypeOK, registry, worker
  <2>6. ASSUME NEW s \in Subs, TakeEvent(s) PROVE TypeOK'
    <3>1. subQueue[s] \in Seq(1..MaxEvents) /\ subQueue[s] # <<>>
      BY <2>6 DEF TakeEvent, TypeOK
    <3>2. /\ Tail(subQueue[s]) \in Seq(1..MaxEvents) /\ Len(Tail(subQueue[s])) <= SubQueueSize
          /\ Head(subQueue[s]) \in 0..MaxEvents
      BY <3>1, TailFacts DEF TypeOK
    <3>3. event' \in [Subs -> 0..MaxEvents]
      BY <2>6, <3>2 DEF TakeEvent, TypeOK
    <3>4. subQueue' \in [Subs -> Seq(1..MaxEvents)] /\ \A t \in Subs : Len(subQueue'[t]) <= SubQueueSize
      BY <2>6, <3>2 DEF TakeEvent, TypeOK
    <3>5. subPc' \in [Subs -> {"unborn", "select", "handling", "exited"}]
      BY <2>6 DEF TakeEvent, TypeOK
    <3> QED BY <2>6, <3>3, <3>4, <3>5 DEF TakeEvent, TypeOK, registry
  <2>7. ASSUME NEW s \in Subs, SafeCall(s) PROVE TypeOK'
    BY <2>7 DEF SafeCall, TypeOK, registry
  <2>8. ASSUME NEW s \in Subs, WorkerExit(s) PROVE TypeOK'
    BY <2>8 DEF WorkerExit, TypeOK, registry
  <2>9. CASE StopMark \/ StopClose \/ Wait
    BY <2>9 DEF StopMark, StopClose, Wait, TypeOK, registry, worker
  <2>10. CASE UNCHANGED busVars
    BY <2>10 DEF TypeOK, busVars, registry, worker
  <2> QED BY <2>1, <2>2, <2>3, <2>4, <2>5, <2>6, <2>7, <2>8, <2>9, <2>10 DEF BusNext
<1> QED BY <1>1, <1>2, PTL DEF BusSpec

-----------------------------------------------------------------------------
\* Subscribers see events in publication order.
THEOREM PublicationOrder == BusSpec => []InPublicationOrder
<1>1. New => OrderInv
  BY BusConstants DEF New, OrderInv, Behind, Above, UpTo, Before, Ascending, Subs
<1>2. TypeOK /\ OrderInv /\ [BusNext]_busVars => OrderInv'
  <2> SUFFICES ASSUME TypeOK, OrderInv, [BusNext]_busVars, NEW s \in Subs PROVE Behind(s)'
    BY DEF OrderInv, Subs
  <2>0. /\ Behind(s) /\ ch \in Seq(Nat) /\ subQueue[s] \in Seq(Nat)
        /\ event[s] \in Nat /\ published \in Nat
    BY BusConstants DEF OrderInv, TypeOK
  <2>00. /\ Len(ch) \in Nat /\ Len(subQueue[s]) \in Nat
         /\ \A a \in 1..Len(ch) : ch[a] \in Nat
         /\ \A a \in 1..Len(subQueue[s]) : subQueue[s][a] \in Nat
    <3>1. \A q \in Seq(Nat) : Len(q) \in Nat /\ \A a \in 1..Len(q) : q[a] \in Nat
      OBVIOUS
    <3> QED BY <2>0, <3>1
  <2>1. CASE Publish
    <3>1. /\ published' = published + 1 /\ subQueue'[s] = subQueue[s] /\ event'[s] = event[s]
      BY <2>1 DEF Publish, worker
    <3>2. UpTo(subQueue[s], published + 1) /\ UpTo(ch, published + 1) /\ event[s] <= published + 1
      <4>1. UpTo(subQueue[s], published) /\ UpTo(ch, published) /\ event[s] <= published
        BY <2>0 DEF Behind
      <4> QED BY BusConstants, <2>0, <4>1, UpToNext
    <3>3. CASE Len(ch) < BufSize
      <4>1. ch' = Append(ch, published + 1)
        BY <2>1, <3>3 DEF Publish
      <4>2. \A a \in 1..Len(ch) : ch[a] < published + 1
        <5>1. UpTo(ch, published)
          BY <2>0 DEF Behind
        <5>2. \A a \in 1..Len(ch) : ch[a] \in Nat /\ ch[a] <= published
          BY <2>00, <5>1 DEF UpTo
        <5>3. \A k \in Nat : k <= published => k < published + 1
          BY <2>0
        <5> QED BY <5>2, <5>3
      <4>3. Ascending(ch') /\ Above(ch', event[s]) /\ UpTo(ch', published + 1)
        <5>1. event[s] < published + 1 /\ published + 1 \in Nat /\ Ascending(ch) /\ Above(ch, event[s])
          BY <2>0 DEF Behind
        <5>2. /\ Ascending(Append(ch, published + 1))
              /\ \A f \in Nat : Above(ch, f) /\ f < published + 1 => Above(Append(ch, published + 1), f)
              /\ \A f \in Nat : UpTo(ch, f) /\ published + 1 <= f => UpTo(Append(ch, published + 1), f)
          BY <2>0, <4>2, <5>1, AppendOrder
        <5> QED BY <2>0, <3>2, <4>1, <5>1, <5>2
      <4>4. Before(subQueue[s], ch')
        <5>1. /\ Len(ch') = Len(ch) + 1 /\ \A b \in 1..Len(ch) : ch'[b] = ch[b]
              /\ ch'[Len(ch) + 1] = published + 1
          BY <2>0, <4>1, LastFacts
        <5>2. \A a \in 1..Len(subQueue[s]) : subQueue[s][a] < published + 1
          BY <2>0, UpToNext DEF Behind
        <5>3. SUFFICES ASSUME NEW a \in 1..Len(subQueue[s]), NEW b \in 1..(Len(ch) + 1)
                       PROVE  subQueue[s][a] < ch'[b]
          BY <5>1 DEF Before
        <5>4. CASE b \in 1..Len(ch)
          BY <2>0, <5>1, <5>4 DEF Behind, Before
        <5>5. CASE b = Len(ch) + 1
          BY <5>1, <5>2, <5>5
        <5> QED BY <2>00, <5>4, <5>5
      <4> QED BY <2>0, <3>1, <3>2, <4>3, <4>4 DEF Behind
    <3>4. CASE ~(Len(ch) < BufSize)
      <4>1. ch' = ch
        BY <2>1, <3>4 DEF Publish
      <4> QED BY <2>0, <3>1, <3>2, <4>1 DEF Behind
    <3> QED BY <3>3, <3>4
  <2>2. CASE Dispatch
    <3>1. /\ ch # <<>> /\ ch' = Tail(ch) /\ event'[s] = event[s] /\ published' = published
      BY <2>2 DEF Dispatch, worker
    <3>2. /\ Head(ch) \in Nat /\ Ascending(ch') /\ Above(ch', Head(ch))
          /\ Above(ch', event[s]) /\ event[s] < Head(ch)
          /\ UpTo(ch', published) /\ Head(ch) <= published
      <4>1. Ascending(ch) /\ Above(ch, event[s]) /\ UpTo(ch, published)
        BY <2>0 DEF Behind
      <4>2. /\ Head(ch) \in Nat /\ Ascending(Tail(ch)) /\ Above(Tail(ch), Head(ch))
            /\ \A e \in Nat : Above(ch, e) => e < Head(ch) /\ Above(Tail(ch), e)
            /\ \A e \in Nat : UpTo(ch, e) => Head(ch) <= e /\ UpTo(Tail(ch), e)
        BY <2>0, <3>1, <4>1, TailOrder
      <4> QED BY <2>0, <3>1, <4>1, <4>2
    <3>3. /\ Len(ch) >= 1 /\ Len(ch') = Len(ch) - 1 /\ Head(ch) = ch[1]
          /\ \A b \in 1..Len(ch') : ch'[b] = ch[b + 1] /\ b + 1 \in 1..Len(ch)
      BY <2>0, <2>00, <3>1, TailFacts
    <3>4. /\ \A a \in 1..Len(subQueue[s]) : subQueue[s][a] < Head(ch)
          /\ Before(subQueue[s], ch')
      <4>1. 1 \in 1..Len(ch)
        BY <2>00, <3>3
      <4> QED BY <2>0, <3>3, <4>1 DEF Behind, Before
    <3>5. CASE s \in subs /\ Len(subQueue[s]) < SubQueueSize
      <4>1. subQueue'[s] = Append(subQueue[s], Head(ch))
        BY <2>2, <3>5 DEF Dispatch
      <4>2. Ascending(subQueue'[s]) /\ Above(subQueue'[s], event[s]) /\ UpTo(subQueue'[s], published)
        <5>1. Ascending(subQueue[s]) /\ Above(subQueue[s], event[s]) /\ UpTo(subQueue[s], published)
          BY <2>0 DEF Behind
        <5>2. /\ Ascending(Append(subQueue[s], Head(ch)))
              /\ \A f \in Nat : Above(subQueue[s], f) /\ f < Head(ch) => Above(Append(subQueue[s], Head(ch)), f)
              /\ \A f \in Nat : UpTo(subQueue[s], f) /\ Head(ch) <= f => UpTo(Append(subQueue[s], Head(ch)), f)
          BY <2>0, <3>2, <3>4, <5>1, AppendOrder
        <5> QED BY <2>0, <3>2, <4>1, <5>1, <5>2
      <4>3. Before(subQueue'[s], ch')
        <5>1. /\ Len(subQueue'[s]) = Len(subQueue[s]) + 1
              /\ \A a \in 1..Len(subQueue[s]) : subQueue'[s][a] = subQueue[s][a]
              /\ subQueue'[s][Len(subQueue[s]) + 1] = Head(ch)
          BY <2>0, <3>2, <4>1, LastFacts
        <5>2. SUFFICES ASSUME NEW a \in 1..(Len(subQueue[s]) + 1), NEW b \in 1..Len(ch')
                       PROVE  subQueue'[s][a] < ch'[b]
          BY <5>1 DEF Before
        <5>3. CASE a \in 1..Len(subQueue[s])
          BY <3>4, <5>1, <5>3 DEF Before
        <5>4. CASE a = Len(subQueue[s]) + 1
          BY <3>2, <5>1, <5>4 DEF Above
        <5> QED BY BusConstants, <2>00, <5>3, <5>4
      <4> QED BY <2>0, <3>1, <3>2, <4>2, <4>3 DEF Behind
    <3>6. CASE ~(s \in subs /\ Len(subQueue[s]) < SubQueueSize)
      <4>1. subQueue'[s] = subQueue[s]
        BY <2>2, <3>6 DEF Dispatch
      <4> QED BY <2>0, <3>1, <3>2, <3>4, <4>1 DEF Behind
    <3> QED BY <3>5, <3>6
  <2>3. ASSUME NEW t \in Subs, TakeEvent(t) PROVE Behind(s)'
    <3>1. ch' = ch /\ published' = published
      BY <2>3 DEF TakeEvent
    <3>2. CASE t # s
      <4>1. subQueue'[s] = subQueue[s] /\ event'[s] = event[s]
        BY <2>3, <3>2 DEF TakeEvent, TypeOK
      <4> QED BY <2>0, <3>1, <4>1 DEF Behind
    <3>3. CASE t = s
      <4>1. /\ subQueue[s] # <<>> /\ subQueue'[s] = Tail(subQueue[s]) /\ event'[s] = Head(subQueue[s])
        BY <2>3, <3>3 DEF TakeEvent, TypeOK
      <4>2. /\ Ascending(subQueue'[s]) /\ Above(subQueue'[s], event'[s])
            /\ UpTo(subQueue'[s], published) /\ event'[s] <= published
        <5>1. Ascending(subQueue[s]) /\ UpTo(subQueue[s], published)
          BY <2>0 DEF Behind
        <5>2. /\ Ascending(Tail(subQueue[s])) /\ Above(Tail(subQueue[s]), Head(subQueue[s]))
              /\ \A e \in Nat : UpTo(subQueue[s], e) => Head(subQueue[s]) <= e /\ UpTo(Tail(subQueue[s]), e)
          BY <2>0, <4>1, <5>1, TailOrder
        <5> QED BY <2>0, <4>1, <5>1, <5>2
      <4>3. /\ Len(subQueue[s]) >= 1 /\ Len(subQueue'[s]) = Len(subQueue[s]) - 1
            /\ event'[s] = subQueue[s][1]
            /\ \A a \in 1..Len(subQueue'[s]) : subQueue'[s][a] = subQueue[s][a + 1] /\ a + 1 \in 1..Len(subQueue[s])
        BY <2>0, <2>00, <4>1, TailFacts
      <4>4. Above(ch, event'[s]) /\ Before(subQueue'[s], ch)
        <5>1. 1 \in 1..Len(subQueue[s])
          BY <2>00, <4>3
        <5> QED BY <2>0, <4>3, <5>1 DEF Behind, Before, Above
      <4> QED BY <2>0, <3>1, <4>2, <4>4 DEF Behind
    <3> QED BY <3>2, <3>3
  <2>4. CASE UNCHANGED <<ch, published, subQueue, event>>
    BY <2>0, <2>4 DEF Behind
  <2>5. CASE \E i \in Ids : Subscribe(i) \/ Unsubscribe(i)
    BY <2>4, <2>5 DEF Subscribe, Unsubscribe, worker
  <2>6. CASE DispatchExit \/ StopMark \/ StopClose \/ Wait
    BY <2>4, <2>6 DEF DispatchExit, StopMark, StopClose, Wait, worker
  <2>7. CASE \E t \in Subs : SafeCall(t) \/ WorkerExit(t)
    BY <2>4, <2>7 DEF SafeCall, WorkerExit
  <2>8. CASE UNCHANGED busVars
    BY <2>4, <2>8 DEF busVars, worker
  <2> QED BY <2>1, <2>2, <2>3, <2>5, <2>6, <2>7, <2>8 DEF BusNext
<1>3. OrderInv => InPublicationOrder
  BY DEF OrderInv, Behind, Above, InPublicationOrder
<1> QED BY <1>1, <1>2, <1>3, BusTypeCorrect, PTL DEF BusSpec

-----------------------------------------------------------------------------
\* After Stop has returned the bus is quiet for good.
THEOREM StopIsQuiet == BusSpec => []StoppedIsQuiet
<1> DEFINE Inv == QuietInv /\ StoppedIsQuiet
<1>1. New => Inv
  BY DEF New, QuietInv, StoppedIsQuiet
<1>2. TypeOK /\ Inv /\ [BusNext]_busVars => Inv'
  <2> SUFFICES ASSUME TypeOK, Inv, [BusNext]_busVars PROVE Inv'
    OBVIOUS
  <2> USE BusConstants DEF QuietInv, StoppedIsQuiet, Gone
  <2>1. ASSUME NEW i \in Ids, Subscribe(i) PROVE Inv'
    BY <2>1 DEF Subscribe, TypeOK, Subs
  <2>2. CASE Publish \/ Dispatch \/ DispatchExit \/ \E i \in Ids : Unsubscribe(i)
    BY <2>2 DEF Publish, Dispatch, DispatchExit, Unsubscribe, worker, registry
  <2>3. ASSUME NEW s \in Subs, TakeEvent(s) \/ SafeCall(s) \/ WorkerExit(s) PROVE Inv'
    BY <2>3 DEF TakeEvent, SafeCall, WorkerExit, TypeOK, Subs, registry
  <2>4. CASE StopMark \/ StopClose \/ Wait
    BY <2>4 DEF StopMark, StopClose, Wait, worker, registry
  <2>5. CASE UNCHANGED busVars
    BY <2>5 DEF busVars, worker, registry
  <2> QED BY <2>1, <2>2, <2>3, <2>4, <2>5 DEF BusNext
<1> QED BY <1>1, <1>2, BusTypeCorrect, PTL DEF BusSpec

-----------------------------------------------------------------------------
(***************************************************************************)
(* The WebSocket hub: no send on a closed channel and no register behind   *)
(* its unregister, for every number of connections, every capacity of the  *)
(* channels and any number of panics.                                      *)
(***************************************************************************)

Op == [kind : {"register", "unregister"}, c : Clients]

HubType ==
  /\ clients \subseteq Clients /\ closed \subseteq Clients
  /\ ops \in Seq(Op)
  /\ panics \in Nat
  /\ handler \in [Clients -> {"none", "registering", "returned"}]
  /\ reader \in [Clients -> {"none", "reading", "unregistering", "done"}]
  /\ unreg \in [Clients -> {"no", "queued", "dropped"}]

\* The life of a connection: it is registered at most once, before its pumps
\* start, and unregisters at most once, when its reader ends.
Life(c) ==
  /\ handler[c] # "returned" => c \notin clients \cup closed /\ ~InOps(Register(c))
  /\ handler[c] # "returned" => reader[c] = "none"
  /\ reader[c] # "done" => unreg[c] = "no"
  /\ unreg[c] # "queued" => ~InOps(Unregister(c))

\* A register in the channel is the only one of its client, finds it neither
\* registered nor closed, and is ahead of the unregister.
In(q, op) == \E i \in 1..Len(q) : q[i] = op
InOrder(q, c) ==
  /\ \A i, j \in 1..Len(q) : q[i] = Register(c) /\ q[j] = Register(c) => i = j
  /\ \A i, j \in 1..Len(q) : q[i] = Register(c) /\ q[j] = Unregister(c) => i < j
Pending(c) ==
  /\ InOrder(ops, c)
  /\ InOps(Register(c)) => c \notin clients \cup closed

\* What an unregister that was handled leaves behind.
Departed(c) ==
  panics = 0 /\ unreg[c] = "queued" /\ ~InOps(Unregister(c))
    => c \notin clients /\ ~InOps(Register(c))

HubInv ==
  /\ HubType
  /\ clients \cap closed = {}
  /\ \A c \in Clients : Life(c) /\ Pending(c) /\ Departed(c)

LEMMA OpFacts ==
  ASSUME NEW c \in Clients
  PROVE  /\ Register(c) \in Op /\ Unregister(c) \in Op /\ Register(c) # Unregister(c)
         /\ \A d \in Clients : Register(c) = Register(d) => c = d
         /\ \A d \in Clients : Unregister(c) = Unregister(d) => c = d
         /\ \A d \in Clients : Register(c) # Unregister(d)
  BY DEF Op, Register, Unregister

\* Taking the head of the channel: nothing new is in it, only the head is gone,
\* and behind a register there is no other, behind an unregister none at all.
LEMMA TakeFacts ==
  ASSUME NEW q \in Seq(Op), q # <<>>
  PROVE  /\ Head(q) \in Op /\ Tail(q) \in Seq(Op)
         /\ \A o \in Op : In(Tail(q), o) => In(q, o)
         /\ \A o \in Op : In(q, o) => In(Tail(q), o) \/ Head(q) = o
         /\ In(q, Head(q))
         /\ \A c \in Clients : InOrder(q, c) =>
              /\ InOrder(Tail(q), c)
              /\ Head(q) = Register(c) => ~In(Tail(q), Register(c))
              /\ Head(q) = Unregister(c) => ~In(Tail(q), Register(c))
<1>1. /\ Head(q) \in Op /\ Tail(q) \in Seq(Op) /\ Len(q) \in Nat /\ 1 \in 1..Len(q)
      /\ Len(Tail(q)) = Len(q) - 1 /\ Head(q) = q[1]
      /\ \A i \in 1..Len(Tail(q)) : i + 1 \in 1..Len(q) /\ Tail(q)[i] = q[i + 1]
      /\ \A i \in 1..Len(q) : i # 1 => i - 1 \in 1..Len(Tail(q)) /\ Tail(q)[i - 1] = q[i]
  OBVIOUS
<1>2. ASSUME NEW o \in Op
      PROVE  /\ In(Tail(q), o) => In(q, o)
             /\ In(q, o) => In(Tail(q), o) \/ Head(q) = o
  BY <1>1 DEF In
<1>3. In(q, Head(q))
  BY <1>1 DEF In
<1>4. ASSUME NEW c \in Clients, InOrder(q, c)
      PROVE  /\ InOrder(Tail(q), c)
             /\ Head(q) = Register(c) => ~In(Tail(q), Register(c))
             /\ Head(q) = Unregister(c) => ~In(Tail(q), Register(c))
  <2>1. ASSUME NEW i \in 1..Len(Tail(q)), NEW j \in 1..Len(Tail(q)), Tail(q)[i] = Register(c)
        PROVE  /\ Tail(q)[j] = Register(c) => i = j
               /\ Tail(q)[j] = Unregister(c) => i < j
    <3>1. i + 1 \in 1..Len(q) /\ j + 1 \in 1..Len(q) /\ q[i + 1] = Register(c)
          /\ Tail(q)[j] = q[j + 1] /\ i \in Nat /\ j \in Nat
      BY <1>1, <2>1
    <3>2. /\ q[j + 1] = Register(c) => i + 1 = j + 1
          /\ q[j + 1] = Unregister(c) => i + 1 < j + 1
      BY <1>4, <3>1 DEF InOrder
    <3> QED BY <3>1, <3>2
  <2>2. InOrder(Tail(q), c)
    BY <2>1 DEF InOrder
  <2>3. ASSUME In(Tail(q), Register(c)), Head(q) \in {Register(c), Unregister(c)} PROVE FALSE
    <3>1. PICK i \in 1..Len(Tail(q)) : Tail(q)[i] = Register(c)
      BY <2>3 DEF In
    <3>2. i \in Nat /\ i > 0 /\ i + 1 \in 1..Len(q) /\ q[i + 1] = Register(c)
          /\ q[1] \in {Register(c), Unregister(c)}
      BY <1>1, <2>3, <3>1
    <3>3. /\ q[1] = Register(c) => i + 1 = 1
          /\ q[1] = Unregister(c) => i + 1 < 1
      BY <1>1, <1>4, <3>2 DEF InOrder
    <3> QED BY <3>2, <3>3
  <2> QED BY <2>2, <2>3
<1> QED BY <1>1, <1>2, <1>3, <1>4

\* Sending to the channel: what is sent comes last.
LEMMA AppendFacts ==
  ASSUME NEW q \in Seq(Op), NEW o \in Op
  PROVE  /\ Append(q, o) \in Seq(Op)
         /\ \A p \in Op : In(Append(q, o), p) <=> In(q, p) \/ p = o
         /\ \A c \in Clients :
              InOrder(q, c) /\ (o = Register(c) => ~In(q, Register(c)) /\ ~In(q, Unregister(c)))
                => InOrder(Append(q, o), c)
<1>1. /\ Append(q, o) \in Seq(Op) /\ Len(q) \in Nat /\ Len(Append(q, o)) = Len(q) + 1
      /\ \A i \in 1..Len(q) : Append(q, o)[i] = q[i]
      /\ Append(q, o)[Len(q) + 1] = o
  OBVIOUS
<1>2. \A i \in 1..Len(Append(q, o)) : i \in 1..Len(q) \/ i = Len(q) + 1
  BY <1>1
<1>3. ASSUME NEW p \in Op PROVE In(Append(q, o), p) <=> In(q, p) \/ p = o
  <2>1. In(q, p) => In(Append(q, o), p)
    BY <1>1 DEF In
  <2>2. p = o => In(Append(q, o), p)
    <3>1. Len(q) + 1 \in 1..Len(Append(q, o))
      BY <1>1
    <3> QED BY <1>1, <3>1 DEF In
  <2>3. In(Append(q, o), p) => In(q, p) \/ p = o
    BY <1>1, <1>2 DEF In
  <2> QED BY <2>1, <2>2, <2>3
<1>4. ASSUME NEW c \in Clients, InOrder(q, c),
             o = Register(c) => ~In(q, Register(c)) /\ ~In(q, Unregister(c))
      PROVE  InOrder(Append(q, o), c)
  <2> DEFINE a == Append(q, o)
  <2>1. ASSUME NEW i \in 1..Len(a), NEW j \in 1..Len(a), a[i] = Register(c)
        PROVE  /\ a[j] = Register(c) => i = j
               /\ a[j] = Unregister(c) => i < j
    <3>1. CASE i \in 1..Len(q) /\ j \in 1..Len(q)
      BY <1>1, <1>4, <2>1, <3>1 DEF InOrder
    <3>2. CASE i \in 1..Len(q) /\ j = Len(q) + 1
      <4>1. a[j] = o /\ q[i] = Register(c) /\ i < j
        BY <1>1, <2>1, <3>2
      <4>2. o # Register(c)
        BY <1>4, <3>2, <4>1 DEF In
      <4> QED BY <4>1, <4>2
    <3>3. CASE i = Len(q) + 1 /\ j \in 1..Len(q)
      <4>1. a[j] = q[j] /\ o = Register(c)
        BY <1>1, <2>1, <3>3
      <4> QED BY <1>4, <3>3, <4>1 DEF In
    <3>4. CASE i = Len(q) + 1 /\ j = Len(q) + 1
      BY <1>1, <2>1, <3>4, OpFacts
    <3> QED BY <1>2, <3>1, <3>2, <3>3, <3>4
  <2> QED BY <2>1 DEF InOrder
<1> QED BY <1>1, <1>3, <1>4

-----------------------------------------------------------------------------

\* The loop takes an operation, or loses it to a panic.
LEMMA TakeStep ==
  ASSUME HubInv, ops # <<>>, ops' = Tail(ops), HandleOp \/ Panic
  PROVE  HubInv'
<1> DEFINE op == Head(ops)
<1>1. /\ ops \in Seq(Op) /\ Tail(ops) \in Seq(Op) /\ op \in Op /\ In(ops, op)
      /\ op.c \in Clients /\ op \in {Register(op.c), Unregister(op.c)}
      /\ \A o \in Op : In(Tail(ops), o) => In(ops, o)
      /\ \A o \in Op : In(ops, o) => In(Tail(ops), o) \/ op = o
  BY TakeFacts DEF HubInv, HubType, Op, Register, Unregister
<1>2. ASSUME NEW c \in Clients
      PROVE  /\ InOrder(Tail(ops), c)
             /\ op = Register(c) => ~In(Tail(ops), Register(c))
             /\ op = Unregister(c) => ~In(Tail(ops), Register(c))
  BY <1>1, TakeFacts DEF HubInv, Pending
<1>3. UNCHANGED <<handler, reader, unreg>>
  BY DEF HandleOp, Panic, pumps
<1>4. /\ \A o \in Op : InOps(o) <=> In(ops, o)
      /\ \A o \in Op : InOps(o)' <=> In(Tail(ops), o)
  BY DEF In, InOps
<1>5. CASE HandleOp
  <2>1. /\ clients' = IF op.kind = "register" THEN clients \cup {op.c} ELSE clients \ {op.c}
        /\ closed' = IF op.kind = "unregister" THEN closed \cup (clients \cap {op.c}) ELSE closed
        /\ panics' = panics
    BY <1>5 DEF HandleOp, hub
  <2>2. CASE op = Register(op.c)
    <3>1. clients' = clients \cup {op.c} /\ closed' = closed
      BY <2>1, <2>2 DEF Register
    <3>2. op.c \notin clients \cup closed /\ handler[op.c] = "returned"
      BY <1>1, <1>4, <2>2 DEF HubInv, Pending, Life
    <3>3. HubType' /\ (clients \cap closed = {})'
      BY <1>1, <1>3, <2>1, <3>1, <3>2 DEF HubInv, HubType
    <3>4. ASSUME NEW c \in Clients PROVE (Life(c) /\ Pending(c) /\ Departed(c))'
      <4>1. /\ Register(c) \in Op /\ Unregister(c) \in Op
            /\ c # op.c => op # Register(c) /\ op # Unregister(c)
            /\ op # Unregister(c)
            /\ Life(c) /\ Pending(c) /\ Departed(c)
        BY <1>1, <2>2, OpFacts DEF HubInv
      <4>2. Life(c)'
        BY <1>1, <1>3, <1>4, <3>1, <3>2, <4>1 DEF Life
      <4>3. Pending(c)'
        BY <1>1, <1>2, <1>4, <2>2, <3>1, <3>2, <4>1 DEF Pending
      <4>4. Departed(c)'
        BY <1>1, <1>3, <1>4, <2>1, <2>2, <3>1, <4>1 DEF Departed
      <4> QED BY <4>2, <4>3, <4>4
    <3> QED BY <3>3, <3>4 DEF HubInv
  <2>3. CASE op = Unregister(op.c)
    <3>1. clients' = clients \ {op.c} /\ closed' = closed \cup (clients \cap {op.c})
      BY <2>1, <2>3 DEF Unregister
    <3>2. HubType' /\ (clients \cap closed = {})'
      BY <1>1, <1>3, <2>1, <3>1 DEF HubInv, HubType
    <3>3. ASSUME NEW c \in Clients PROVE (Life(c) /\ Pending(c) /\ Departed(c))'
      <4>1. /\ Register(c) \in Op /\ Unregister(c) \in Op
            /\ op # Register(c) /\ (c # op.c => op # Unregister(c))
            /\ Life(c) /\ Pending(c) /\ Departed(c)
        BY <1>1, <2>3, OpFacts DEF HubInv
      <4>2. Life(c)'
        BY <1>1, <1>3, <1>4, <3>1, <4>1 DEF Life
      <4>3. Pending(c)'
        BY <1>1, <1>2, <1>4, <2>3, <3>1, <4>1 DEF Pending
      <4>4. Departed(c)'
        BY <1>1, <1>2, <1>3, <1>4, <2>1, <2>3, <3>1, <4>1 DEF Departed
      <4> QED BY <4>2, <4>3, <4>4
    <3> QED BY <3>2, <3>3 DEF HubInv
  <2> QED BY <1>1, <2>2, <2>3
<1>6. CASE Panic
  <2>1. /\ UNCHANGED <<clients, closed>> /\ panics' = panics + 1
    BY <1>6 DEF Panic
  <2>2. HubType' /\ (clients \cap closed = {})' /\ panics' # 0
    BY <1>1, <1>3, <2>1 DEF HubInv, HubType
  <2>3. ASSUME NEW c \in Clients PROVE (Life(c) /\ Pending(c) /\ Departed(c))'
    <3>1. Register(c) \in Op /\ Unregister(c) \in Op /\ Life(c) /\ Pending(c)
      BY OpFacts DEF HubInv
    <3>2. Life(c)'
      BY <1>1, <1>3, <1>4, <2>1, <3>1 DEF Life
    <3>3. Pending(c)'
      BY <1>1, <1>2, <1>4, <2>1, <3>1 DEF Pending
    <3> QED BY <2>2, <3>2, <3>3 DEF Departed
  <2> QED BY <2>2, <2>3 DEF HubInv
<1> QED BY <1>5, <1>6

\* A pump or a handler sends an operation.
LEMMA BroadcastStep ==
  ASSUME HubInv, NEW c \in Clients, RegisterClient(c) \/ UnregisterClient(c), ops' # ops
  PROVE  HubInv'
<1>0. UNCHANGED <<clients, closed, panics>>
  BY DEF RegisterClient, UnregisterClient, hub
<1>1. CASE RegisterClient(c)
  <2>1. /\ ops' = Append(ops, Register(c)) /\ handler[c] = "registering"
        /\ handler' = [handler EXCEPT ![c] = "returned"]
        /\ reader' = [reader EXCEPT ![c] = "reading"] /\ unreg' = unreg
    BY <1>1 DEF RegisterClient
  <2>2. /\ ops \in Seq(Op) /\ Register(c) \in Op /\ Unregister(c) \in Op
        /\ ~InOps(Register(c)) /\ ~InOps(Unregister(c)) /\ unreg[c] = "no"
        /\ c \notin clients \cup closed
    BY <2>1, OpFacts DEF HubInv, HubType, Life
  <2>3. /\ \A o \in Op : InOps(o) <=> In(ops, o)
        /\ \A o \in Op : InOps(o)' <=> InOps(o) \/ o = Register(c)
    BY <2>1, <2>2, AppendFacts DEF In, InOps
  <2>4. HubType' /\ (clients \cap closed = {})'
    BY <1>0, <2>1, <2>2, AppendFacts DEF HubInv, HubType
  <2>5. ASSUME NEW d \in Clients PROVE (Life(d) /\ Pending(d) /\ Departed(d))'
    <3>1. /\ Register(d) \in Op /\ Unregister(d) \in Op /\ Unregister(d) # Register(c)
          /\ (Register(d) = Register(c) => d = c)
          /\ Life(d) /\ Pending(d) /\ Departed(d)
      BY OpFacts DEF HubInv
    <3>2. Life(d)'
      BY <1>0, <2>1, <2>2, <2>3, <3>1 DEF Life, HubInv, HubType
    <3>3. InOrder(ops', d)
      BY <2>1, <2>2, <2>3, <3>1, AppendFacts DEF Pending
    <3>4. Pending(d)'
      BY <1>0, <2>2, <2>3, <3>1, <3>3 DEF Pending
    <3>5. Departed(d)'
      BY <1>0, <2>1, <2>2, <2>3, <3>1 DEF Departed
    <3> QED BY <3>2, <3>4, <3>5
  <2> QED BY <2>4, <2>5 DEF HubInv
<1>2. CASE UnregisterClient(c)
  <2>1. /\ ops' = Append(ops, Unregister(c)) /\ reader[c] = "unregistering"
        /\ reader' = [reader EXCEPT ![c] = "done"]
        /\ unreg' = [unreg EXCEPT ![c] = "queued"] /\ handler' = handler
    BY <1>2 DEF UnregisterClient
  <2>2. /\ ops \in Seq(Op) /\ Unregister(c) \in Op /\ handler[c] = "returned"
    BY <2>1, OpFacts DEF HubInv, HubType, Life
  <2>3. /\ \A o \in Op : InOps(o) <=> In(ops, o)
        /\ \A o \in Op : InOps(o)' <=> InOps(o) \/ o = Unregister(c)
    BY <2>1, <2>2, AppendFacts DEF In, InOps
  <2>4. HubType' /\ (clients \cap closed = {})'
    BY <1>0, <2>1, <2>2, AppendFacts DEF HubInv, HubType
  <2>5. ASSUME NEW d \in Clients PROVE (Life(d) /\ Pending(d) /\ Departed(d))'
    <3>1. /\ Register(d) \in Op /\ Unregister(d) \in Op /\ Register(d) # Unregister(c)
          /\ (Unregister(d) = Unregister(c) => d = c)
          /\ Life(d) /\ Pending(d) /\ Departed(d)
      BY OpFacts DEF HubInv
    <3>2. Life(d)'
      BY <1>0, <2>1, <2>2, <2>3, <3>1 DEF Life, HubInv, HubType
    <3>3. InOrder(ops', d)
      BY <2>1, <2>2, <3>1, AppendFacts DEF Pending
    <3>4. Pending(d)'
      BY <1>0, <2>3, <3>1, <3>3 DEF Pending
    <3>5. Departed(d)'
      BY <1>0, <2>1, <2>3, <3>1 DEF Departed, HubInv, HubType
    <3> QED BY <3>2, <3>4, <3>5
  <2> QED BY <2>4, <2>5 DEF HubInv
<1> QED BY <1>1, <1>2

\* Steps that leave the channel alone: the fan-out and the shutdown take clients
\* from the registry to the closed ones; the pumps move on.
LEMMA OtherStep ==
  ASSUME HubInv, ops' = ops, panics' \in {panics, panics + 1},
         \E dead \in SUBSET clients : clients' = clients \ dead /\ closed' = closed \cup dead,
         \/ UNCHANGED <<handler, reader, unreg>>
         \/ \E c \in Clients :
              /\ handler[c] = "none" /\ handler' = [handler EXCEPT ![c] = "registering"]
              /\ UNCHANGED <<reader, unreg>>
         \/ \E c \in Clients :
              /\ handler' = [handler EXCEPT ![c] = "returned"]
              /\ handler[c] = "registering"
              /\ reader' = [reader EXCEPT ![c] = "reading"] /\ UNCHANGED unreg
         \/ \E c \in Clients :
              /\ reader[c] = "reading" /\ reader' = [reader EXCEPT ![c] = "unregistering"]
              /\ UNCHANGED <<handler, unreg>>
         \/ \E c \in Clients :
              /\ reader[c] = "unregistering" /\ reader' = [reader EXCEPT ![c] = "done"]
              /\ unreg' = [unreg EXCEPT ![c] = "dropped"] /\ UNCHANGED handler
  PROVE  HubInv'
<1>1. HubType'
  <2>1. ops' \in Seq(Op) /\ panics' \in Nat
    BY DEF HubInv, HubType
  <2>2. clients' \subseteq Clients /\ closed' \subseteq Clients
    BY DEF HubInv, HubType
  <2>3. /\ handler' \in [Clients -> {"none", "registering", "returned"}]
        /\ reader' \in [Clients -> {"none", "reading", "unregistering", "done"}]
        /\ unreg' \in [Clients -> {"no", "queued", "dropped"}]
    BY DEF HubInv, HubType
  <2> QED BY <2>1, <2>2, <2>3 DEF HubType
<1>2. (clients \cap closed = {})'
  BY DEF HubInv
<1>3. \A o : InOps(o)' <=> InOps(o)
  BY DEF InOps
<1>4. ASSUME NEW d \in Clients PROVE (Life(d) /\ Pending(d) /\ Departed(d))'
  <2>1. Life(d) /\ Pending(d) /\ Departed(d) /\ clients \subseteq Clients
        /\ (d \in clients' \cup closed' => d \in clients \cup closed)
        /\ (d \in clients' => d \in clients)
    BY DEF HubInv, HubType
  <2>2. Life(d)'
    BY <1>3, <2>1 DEF Life, HubInv, HubType
  <2>3. Pending(d)'
    BY <1>3, <2>1 DEF Pending
  <2>4. unreg'[d] = "queued" => unreg[d] = "queued"
    BY DEF HubInv, HubType
  <2>5. panics' = 0 => panics = 0
    BY DEF HubInv, HubType
  <2>6. Departed(d)'
    BY <1>3, <2>1, <2>4, <2>5 DEF Departed
  <2> QED BY <2>2, <2>3, <2>6
<1> QED BY <1>1, <1>2, <1>4 DEF HubInv

\* The inductive invariant of the hub.
THEOREM HubInvariant == HubSpec => []HubInv
<1>1. NewHub => HubInv
  BY DEF NewHub, HubInv, HubType, Life, Pending, InOrder, Departed, InOps
<1>2. HubInv /\ [HubNext]_hubVars => HubInv'
  <2> SUFFICES ASSUME HubInv, [HubNext]_hubVars PROVE HubInv'
    OBVIOUS
  <2>1. CASE HandleOp
    BY <2>1, TakeStep DEF HandleOp
  <2>2. CASE Fanout
    <3>1. \E dead \in SUBSET clients : clients' = clients \ dead /\ closed' = closed \cup dead
      BY <2>2 DEF Fanout
    <3> QED BY <2>2, <3>1, OtherStep DEF Fanout, hub, pumps
  <2>3. CASE Shutdown
    <3>1. \E dead \in SUBSET clients : clients' = clients \ dead /\ closed' = closed \cup dead
      BY <2>3 DEF Shutdown
    <3> QED BY <2>3, <3>1, OtherStep DEF Shutdown, pumps
  <2>4. CASE ~UNCHANGED <<clients, closed>>
    BY <2>1, <2>2, <2>3, <2>4
    DEF HubNext, hubVars, hub, pumps, Panic, Restart, Stop, Broadcast,
        Connect, RegisterClient, PeerGone, ReadFails, UnregisterClient,
        WriteMessage, WriterEnds
  <2>5. CASE UNCHANGED <<clients, closed>>
    <3>1. \E dead \in SUBSET clients : clients' = clients \ dead /\ closed' = closed \cup dead
      <4>1. clients' = clients \ {} /\ closed' = closed \cup {} /\ {} \in SUBSET clients
        BY <2>5
      <4> QED BY <4>1
    <3>2. CASE Panic
      <4>1. CASE ops' = ops
        BY <3>1, <3>2, <4>1, OtherStep DEF Panic, pumps
      <4>2. CASE ops' # ops
        BY <3>2, <4>2, TakeStep DEF Panic
      <4> QED BY <4>1, <4>2
    <3>3. CASE Restart \/ Stop \/ Broadcast \/ UNCHANGED hubVars
      <4>1. UNCHANGED <<ops, panics, handler, reader, unreg>>
        BY <3>3 DEF Restart, Stop, Broadcast, hubVars, hub, pumps
      <4> QED BY <3>1, <4>1, OtherStep
    <3>4. ASSUME NEW c \in Clients, PeerGone(c) \/ WriteMessage(c) \/ WriterEnds(c) PROVE HubInv'
      <4>1. UNCHANGED <<ops, panics, handler, reader, unreg>>
        BY <3>4 DEF PeerGone, WriteMessage, WriterEnds, hub
      <4> QED BY <3>1, <4>1, OtherStep
    <3>5. ASSUME NEW c \in Clients, Connect(c) \/ ReadFails(c) PROVE HubInv'
      <4>1. /\ UNCHANGED <<ops, panics, unreg>>
            /\ \/ /\ handler[c] = "none" /\ handler' = [handler EXCEPT ![c] = "registering"]
                  /\ UNCHANGED reader
               \/ /\ reader[c] = "reading" /\ reader' = [reader EXCEPT ![c] = "unregistering"]
                  /\ UNCHANGED handler
        BY <3>5 DEF Connect, ReadFails, hub
      <4> QED BY <3>1, <4>1, OtherStep
    <3>6. ASSUME NEW c \in Clients, RegisterClient(c) \/ UnregisterClient(c) PROVE HubInv'
      <4>1. CASE ops' # ops
        BY <3>6, <4>1, BroadcastStep
      <4>2. CASE ops' = ops
        <5>1. panics' = panics
          BY <3>6 DEF RegisterClient, UnregisterClient, hub
        <5>2. CASE RegisterClient(c)
          BY <3>1, <4>2, <5>1, <5>2, OtherStep DEF RegisterClient
        <5>3. CASE UnregisterClient(c)
          <6>1. ops \in Seq(Op) /\ Unregister(c) \in Op
            BY OpFacts DEF HubInv, HubType
          <6>2. ops' # Append(ops, Unregister(c))
            BY <4>2, <6>1
          <6> QED BY <3>1, <4>2, <5>1, <5>3, <6>2, OtherStep DEF UnregisterClient
        <5> QED BY <3>6, <5>2, <5>3
      <4> QED BY <4>1, <4>2
    <3> QED BY <2>1, <2>2, <2>3, <3>2, <3>3, <3>4, <3>5, <3>6 DEF HubNext
  <2> QED BY <2>4, <2>5
<1> QED BY <1>1, <1>2, PTL DEF HubSpec

\* The fan-out never sends on a closed channel, whatever panics: removeClient,
\* the eviction and the shutdown close a channel only as they take its client
\* from the registry, and no later register puts it back.
THEOREM NoSendOnClosed == HubSpec => []RegisteredIsOpen
<1>1. HubInv => RegisteredIsOpen
  BY DEF HubInv, RegisteredIsOpen
<1> QED BY <1>1, HubInvariant, PTL

\* Until the loop panics, an unregister that was handled is the last word on its
\* connection.
THEOREM UnregisterIsFinal == HubSpec => []UnregisterIsLast
<1>1. HubInv => UnregisterIsLast
  BY DEF HubInv, Departed, UnregisterIsLast
<1> QED BY <1>1, HubInvariant, PTL

-----------------------------------------------------------------------------
(***************************************************************************)
(* The tunnel monitor's cooldown, for every threshold, cooldown and length *)
(* of a restart.                                                           *)
(***************************************************************************)

MonitorType ==
  /\ mpc \in {"waiting", "recovering"}
  /\ began \in Nat
  /\ lastRecovery \in 0 .. Cooldown /\ spacing \in 0 .. Cooldown

\* m.lastRecovery is the time read before the restart, so it is as old as the
\* restart's beginning once the restart has succeeded.
MonitorInv ==
  /\ MonitorType
  /\ mpc = "recovering" => ~completed /\ spacing = (IF began < Cooldown THEN began ELSE Cooldown)
  /\ mpc = "waiting" /\ completed => lastRecovery = spacing

\* Every step of the monitor keeps the age of the last recovery tied to its
\* beginning.
LEMMA MonitorInvInductive == MonitorInv /\ [MonitorNext]_monitorVars => MonitorInv'
<1> SUFFICES ASSUME MonitorInv, [MonitorNext]_monitorVars PROVE MonitorInv'
  OBVIOUS
<1> USE MonitorConstants DEF MonitorInv, MonitorType, Older
<1>1. CASE TunnelChanges
  BY <1>1 DEF TunnelChanges
<1>2. CASE ProbeSucceeds
  BY <1>2 DEF ProbeSucceeds
<1>3. CASE BelowThreshold
  BY <1>3 DEF BelowThreshold
<1>4. CASE HeldBack
  BY <1>4 DEF HeldBack
<1>5. CASE Recover
  BY <1>5 DEF Recover
<1>6. CASE Recovering
  BY <1>6 DEF Recovering
<1>7. CASE Recovered
  BY <1>7 DEF Recovered
<1>8. CASE RecoveryFailed
  BY <1>8 DEF RecoveryFailed
<1>9. CASE UNCHANGED monitorVars
  BY <1>9 DEF monitorVars
<1> QED BY <1>1, <1>2, <1>3, <1>4, <1>5, <1>6, <1>7, <1>8, <1>9 DEF MonitorNext, Step

\* CompletedSpaced for every FailureThreshold, Cooldown and Slowest: the cooldown
\* of Step is measured from before the restart, and still never lets two
\* restarts begin closer than it after a success.
THEOREM CooldownHolds == MonitorSpec => CompletedSpaced
<1>1. NewMonitor => MonitorInv
  BY MonitorConstants DEF NewMonitor, MonitorInv, MonitorType
<1>2. MonitorInv /\ [MonitorNext]_monitorVars
        => [mpc = "waiting" /\ mpc' = "recovering" /\ completed => spacing + 1 >= Cooldown]_monitorVars
  <2> SUFFICES ASSUME MonitorInv, MonitorNext, mpc = "waiting", mpc' = "recovering", completed
               PROVE  spacing + 1 >= Cooldown
    OBVIOUS
  <2>1. Recover
    BY DEF MonitorNext, Step, TunnelChanges, ProbeSucceeds, BelowThreshold,
           HeldBack, Recovering, Recovered, RecoveryFailed
  <2> QED BY <2>1, MonitorConstants DEF Recover, Older, MonitorInv, MonitorType
<1> QED BY <1>1, <1>2, MonitorInvInductive, PTL DEF MonitorSpec, CompletedSpaced
=============================================================================
