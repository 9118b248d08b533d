SPECIFICATION FairSpec
CONSTANTS
    t1 = t1
    t2 = t2
    c1 = c1
    None = None
    Tags = {t1}
    Clients = {c1}
    Vals = {1, 2}
    Setups <- MCLive
PROPERTIES
    Converges
CHECK_DEADLOCK FALSE
