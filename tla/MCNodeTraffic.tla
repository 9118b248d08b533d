--------------------------- MODULE MCNodeTraffic ---------------------------
(* Instances of NodeTraffic for TLC. *)
EXTENDS NodeTraffic

\* Every operation, with calls that fail.
Everything == [kinds |-> {"one", "all", "bulk", "email", "quota"}, serial |-> FALSE,
               callsFail |-> TRUE, ops |-> 2, dirs |-> {"up"}, flow |-> 1, counts |-> 1]

\* Single resets and quota edits, with enough traffic for a verdict after each.
Verdicts == [kinds |-> {"one", "quota"}, serial |-> TRUE, callsFail |-> FALSE,
             ops |-> 2, dirs |-> {"up"}, flow |-> 3, counts |-> 3]

\* Both directions through one reset whose delivery fails: one counter can be
\* behind its baseline while the other is ahead.
Dips == [kinds |-> {"one"}, serial |-> TRUE, callsFail |-> TRUE,
         ops |-> 1, dirs |-> Dirs, flow |-> 2, counts |-> 2]

MCWorkloads == {Everything, Verdicts, Dips}
=============================================================================
