--------------------------- MODULE MCClientStore ---------------------------
(***************************************************************************)
(* Instances of ClientStore for TLC: two inbounds, two e-mails and two     *)
(* requests.                                                               *)
(***************************************************************************)
EXTENDS ClientStore

CONSTANTS i1, i2, e1, e2, p1, p2

\* One request at a time, every operation.
Alone ==
    [kinds |-> {"create", "bulkcreate", "attach", "bulkattach", "detach", "bulkdetach", "delete",
                "bulkdelete", "ghost", "update", "rename", "field", "enable", "adjust", "orphans"},
     procs |-> {p1}, inbounds |-> {i1, i2}, home |-> {i1, i2}, seeded |-> {e1},
     limits |-> {0, 1}, ops |-> 3, used |-> 0]

\* The tick and the inbound editor beside it.
Ticking ==
    [kinds |-> {"create", "attach", "detach", "bulkdetach", "delete", "bulkdelete", "enable",
                "adjust", "field", "update", "inbound", "delinbound"},
     procs |-> {p1}, inbounds |-> {i1, i2}, home |-> {i1, i2}, seeded |-> {e1, e2},
     limits |-> {1}, ops |-> 2, used |-> 1]

\* Transactions fail and the panel stops.
Faults ==
    [kinds |-> {"create", "attach", "detach", "delete", "update", "ghost", "orphans", "enable",
                "adjust", "field", "fail", "crash", "inbound"},
     procs |-> {p1}, inbounds |-> {i1, i2}, home |-> {i1, i2}, seeded |-> {e1},
     limits |-> {1}, ops |-> 3, used |-> 0]

\* Two requests on one inbound.
Pair ==
    [kinds |-> {"attach", "detach", "field"},
     procs |-> {p1, p2}, inbounds |-> {i1}, home |-> {i1}, seeded |-> {e1, e2},
     limits |-> {1, 2}, ops |-> 3, used |-> 0]

\* Two requests that create, rename and delete.
Race ==
    [kinds |-> {"create", "attach", "bulkattach", "delete", "bulkdelete", "ghost", "orphans",
                "update", "rename", "fail", "crash", "delinbound"},
     procs |-> {p1, p2}, inbounds |-> {i1, i2}, home |-> {i1}, seeded |-> {e1},
     limits |-> {1}, ops |-> 3, used |-> 0]

MCWorkloads == {Alone, Ticking, Faults, Pair, Race}

CredSymmetry == Permutations(Creds)
============================================================================
