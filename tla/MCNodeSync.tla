----------------------------- MODULE MCNodeSync -----------------------------
(***************************************************************************)
(* Instances of NodeSync for TLC: two tags, one client, and the situations *)
(* a node is in when the behaviour begins.                                 *)
(***************************************************************************)
EXTENDS NodeSync

CONSTANTS t1, t2, c1

MCRow == [v |-> 1, enable |-> TRUE, clients |-> {}]

OneRow == [t \in Tags |-> IF t = t1 THEN MCRow ELSE None]

TwoRows == [t \in Tags |-> MCRow]

\* A node in step with its master, edited through the serial writer.
InStep == [central |-> OneRow, node |-> OneRow, selected |-> Tags, adopted |-> TRUE,
           kinds |-> {"update", "add", "bulk"}, faults |-> {}, edits |-> 3, restarts |-> 1]

\* The same with an inbound deleted.
Deleting == [central |-> TwoRows, node |-> TwoRows, selected |-> Tags, adopted |-> TRUE,
             kinds |-> {"del", "update", "bulk"}, faults |-> {}, edits |-> 3, restarts |-> 1]

\* A node with an inbound the master does not have yet, which a merge imports.
Importing == [central |-> OneRow, node |-> TwoRows, selected |-> Tags, adopted |-> FALSE,
              kinds |-> {"update", "bulk"}, faults |-> {}, edits |-> 2, restarts |-> 1]

\* Clients and switches pushed live, answers lost.
Live == [central |-> OneRow, node |-> OneRow, selected |-> {t1}, adopted |-> TRUE,
         kinds |-> {"client", "enable"}, faults |-> {"lostAnswer"}, edits |-> 2, restarts |-> 1]

\* A node that joins in selected mode with an inbound the master does not manage.
Joining == [central |-> OneRow, node |-> TwoRows, selected |-> {t1}, adopted |-> FALSE,
            kinds |-> {"update", "del", "client"}, faults |-> FaultKinds, edits |-> 2,
            restarts |-> 1]

MCSetups == {InStep, Deleting, Importing, Joining}

MCLive == {Live}
=============================================================================
