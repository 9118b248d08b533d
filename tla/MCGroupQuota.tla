---------------------------- MODULE MCGroupQuota ----------------------------
(***************************************************************************)
(* Instances of GroupQuota for TLC: two interchangeable clients.           *)
(***************************************************************************)
EXTENDS GroupQuota, TLC

CONSTANTS g1, g2

\* Clients move between two groups while they are reset and deleted.
Moves == [kinds |-> {"reset", "delete", "move", "group", "fail", "expire", "enable"},
          groups |-> {g1, g2}, quotas |-> {0, 2}, ops |-> 3]

\* Edits of clients, in several transactions and with failing shares, overlap moves,
\* resets and deletions.
Edits == [kinds |-> {"update", "reset", "delete", "move", "group", "fail"},
          groups |-> {g1, g2}, quotas |-> {2}, ops |-> 2]

\* Group disables mixed with manual ones and with edits of the quota.
Owners == [kinds |-> {"reset", "move", "group", "fail", "config", "enable", "delete"},
           groups |-> {g1}, quotas |-> {1, 2}, ops |-> 5]

\* Renewals and renames within the tick.
Renewals == [kinds |-> {"expire", "renew", "group", "config", "rename"},
             groups |-> {g1}, quotas |-> {1}, ops |-> 3]

MCWorkloads == {Moves, Edits, Owners, Renewals}

ClientSymmetry == Permutations(Clients)
=============================================================================
