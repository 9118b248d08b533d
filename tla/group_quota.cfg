SPECIFICATION Spec
CONSTANTS
    Clients = {c1, c2}
    g1 = g1
    g2 = g2
    Groups = {g1, g2}
    None = None
    Quotas = {0, 1, 2}
    Workloads <- MCWorkloads
    MaxBytes = 2
SYMMETRY ClientSymmetry
INVARIANTS  ReleasedByReset
PROPERTIES RevivesOnlyOwn EnforcedAfterTick
CHECK_DEADLOCK FALSE
