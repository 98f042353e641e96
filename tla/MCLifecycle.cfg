\* A bundle of two kernels.  The first has two pool threads, whose programs only park, and its
\* run may fail; the thread of the second signals and retires both kernels and itself, retires
\* their process and boots another image.
SPECIFICATION FairSpec
CONSTANTS
    N = 2
    T = 3
    Signallers = {2}
    Retirers = {2}
    PidRetirers = {2}
    Admins = {2}
    MayFail = {1}
INVARIANTS
    ThreadKnown
    FreedUnused
PROPERTIES
    UnloadedFinal
    RetireTotal
    StopReturns
CHECK_DEADLOCK FALSE
