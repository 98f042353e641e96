\* The kernel and two workers, one of which ignores the budget; a module thread (budget 0) or a
\* host that steps the kernel with a budget of two ticks.
SPECIFICATION FairSpec
CONSTANTS
    NWorkers = 2
    QMax = 1
    Budgets = {0, 2}
    IgnoreMax = {1}
    Ops = {"step", "yield", "park", "wait", "end", "fault", "except", "exec", "halt",
           "retire", "sync", "reset"}
INVARIANTS
    IInv
    ListExact
    WaitBound
PROPERTIES
    InterruptEnds
    IngressServed
