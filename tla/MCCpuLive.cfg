\* A module kernel, started, stopped and destroyed by one host while its workers come and go.
CONSTANTS
    NWorkers = 2
    CapThreads = 2
    QMax = 1
    MaxTicks = 0
    IgnoreMax = {}
    Producers = {}
    Interrupters = {}
    Ops = {"step", "park", "halt", "fault", "exec", "threads"}
SPECIFICATION FairSpec
INVARIANT Quiescent
PROPERTIES InterruptReturns WorkConserving
CHECK_DEADLOCK FALSE
