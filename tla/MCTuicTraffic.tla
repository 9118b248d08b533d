--------------------------- MODULE MCTuicTraffic ---------------------------
(***************************************************************************)
(* Instances of TuicTraffic for TLC.  Each workload spends its bounds on   *)
(* one kind of trouble.                                                    *)
(***************************************************************************)
EXTENDS TuicTraffic

Load(b, e, f, s, on) == [bytes |-> b, edits |-> e, faults |-> f, stops |-> s, serving |-> on]

\* Sessions while users are replaced and the listener breaks.
Traffic == Load(2, 1, 1, 0, TRUE)

\* A stop and a crash, or two, with calls that fail.
Journal == Load(1, 0, 2, 2, FALSE)

\* Bytes on the way when the panel ends.
Ending == Load(2, 0, 1, 1, TRUE)

\* Edits that race the job, a stop, the first run.
Edits == Load(0, 2, 0, 0, TRUE)
Stopping == Load(1, 1, 0, 1, TRUE)
Starting == Load(0, 1, 1, 0, FALSE)

MCWorkloads == {Traffic, Journal, Ending, Edits, Stopping, Starting}
=============================================================================
