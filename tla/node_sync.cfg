SPECIFICATION Spec
CONSTANTS
    t1 = t1
    t2 = t2
    c1 = c1
    None = None
    Tags = {t1, t2}
    Clients = {c1}
    Vals = {1, 2}
    Setups <- MCSetups
INVARIANTS CleanIsPushed UnmanagedLeftAlone
PROPERTIES NoRevert
CHECK_DEADLOCK FALSE
