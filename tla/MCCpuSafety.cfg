\* A kernel stepped with a budget of one management cycle; pthread_create may fail, a host pushes
\* and another interrupts.
CONSTANTS
    NWorkers = 2
    CapThreads = 2
    QMax = 1
    MaxTicks = 1
    IgnoreMax = {0}
    Producers = {p1}
    Interrupters = {i1}
    Ops = {"wait", "exec", "fault", "sync", "reset", "threads", "nospawn"}
SPECIFICATION Spec
INVARIANTS IInv BindingsInverse OneThreadPerWorker NoSleepOnWork
CHECK_DEADLOCK FALSE
