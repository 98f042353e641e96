\* Two threads push to two workers, one of which the program does not have; its messages are
\* in the way of the other's.
SPECIFICATION FairSpec
CONSTANTS
    Wids = {1, 2}
    Inited = {2}
    Producers = {p1, p2}
    QMax = 1
    Cap = 5
    NSlots = 2
    NMsgs = 2
    Before = 0
    Profiles = {"wave", "cpu_thread"}
PROPERTY
    AcceptedRead
CHECK_DEADLOCK FALSE
