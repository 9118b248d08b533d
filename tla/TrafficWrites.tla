--------------------------- MODULE TrafficWrites ---------------------------
(***************************************************************************)
(* What submitTrafficWrite promises its caller: the write is applied once, *)
(* before the call reports its result and never again after it, or is      *)
(* refused because the queue stayed full and then never applied; and the   *)
(* call comes back.                                                        *)
(***************************************************************************)
CONSTANT Submitters

VARIABLES
  st,       \* where each caller's write is
  count,    \* how often its last write has been applied
  outcome   \* what its last call reported

Init ==
  /\ st = [s \in Submitters |-> "idle"] /\ count = [s \in Submitters |-> 0]
  /\ outcome = [s \in Submitters |-> "none"]

\* The write of s moves on; it has then been applied n times, and its call told out.
Move(s, from, to, n, out) ==
  /\ st[s] = from /\ st' = [st EXCEPT ![s] = to]
  /\ count' = [count EXCEPT ![s] = n] /\ outcome' = [outcome EXCEPT ![s] = out]

Submit(s) == Move(s, "idle", "pending", 0, "none")
Apply(s)  == Move(s, "pending", "applied", 1, "none")
Done(s)   == Move(s, "applied", "idle", 1, "done")
Refuse(s) == Move(s, "pending", "idle", 0, "full")

Next == \E s \in Submitters : Submit(s) \/ Apply(s) \/ Done(s) \/ Refuse(s)

vars == <<st, count, outcome>>

\* A submitted write is decided, and its caller told.
Spec == Init /\ [][Next]_vars
        /\ \A s \in Submitters : WF_vars(Apply(s) \/ Refuse(s)) /\ WF_vars(Done(s))
=============================================================================
