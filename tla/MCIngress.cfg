\* Two threads push two messages behind one that was there before the first run; the queue
\* holds one, the handle space two objects, the ring one frame and a word.
SPECIFICATION Spec
CONSTANTS
    Wids = {1}
    Inited = {1}
    Producers = {p1, p2}
    QMax = 1
    Cap = 5
    NSlots = 2
    NMsgs = 3
    Before = 1
    Profiles = {"wave", "cpu_thread"}
INVARIANTS
    QueueExact
    
    
    
    ObjectsAccounted
    HandleLive
    WaveCarriesHandle
CHECK_DEADLOCK FALSE
