SPECIFICATION Spec
CONSTANTS
    i1 = i1
    i2 = i2
    e1 = e1
    e2 = e2
    p1 = p1
    p2 = p2
    Inbounds = {i1, i2}
    Emails = {e1, e2}
    Creds = {c1, c2, c3}
    Procs = {p1, p2}
    None = None
    Workloads <- MCWorkloads
SYMMETRY CredSymmetry
INVARIANTS Membership Agreement
PROPERTIES TickSurvives OthersUntouched
CHECK_DEADLOCK FALSE
