SPECIFICATION FairSpec
CONSTANTS
    Nodes = {n1}
    Quotas = {1, 2}
    None = None
    Workloads <- MCWorkloads
INVARIANTS NoLostReset NoByteCountedTwice
PROPERTIES QuotaNotReverted NoStaleDisable ResetsArrive
CHECK_DEADLOCK FALSE
