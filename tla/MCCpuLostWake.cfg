CONSTANTS
    NWorkers = 2
    CapThreads = 2
    QMax = 1
    MaxTicks = 0
    IgnoreMax = {}
    Producers = {p1}
    Interrupters = {}
    Ops = {"park", "step"}
SPECIFICATION FairSpec
PROPERTIES IngressDelivered
CHECK_DEADLOCK FALSE
