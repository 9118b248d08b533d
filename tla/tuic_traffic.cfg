SPECIFICATION FairSpec
CONSTANTS
    Conns = {c1}
    Users = {u1, u2, u3, u4, u5}
    Creds = {1, 2}
    Ports = {1, 2}
    None = None
    Workloads <- MCWorkloads
INVARIANTS Conserved RevokedIsCut
PROPERTIES OrderlyStop Settles
