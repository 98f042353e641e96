------------------------------ MODULE Ingress ------------------------------
(***************************************************************************)
(* The way of a message into a worker of an EPA kernel: the host threads   *)
(* and the other kernels that push it on ingress.inq[wid], the drain that  *)
(* turns it into an object of the global handle space and four words in    *)
(* the worker's input ring, and the worker that waits for data, pops the   *)
(* words and gives the object back (epa_kernel_so.c, epa_ghs.c,            *)
(* epa_ring_buffer.c, the WAIT_FOR_DATA and WORKER_TRX_IN_R instructions). *)
(*                                                                         *)
(* None of this holds a lock.  A count++ or count-- is a load and a store, *)
(* two actions; the ghost raced names the structures on which two such     *)
(* updates have overlapped, so that the properties say what an overlap can *)
(* break and what holds in spite of it.  Under the wave profile the drain  *)
(* and the workers share one thread, under cpu_thread they do not.         *)
(***************************************************************************)
EXTENDS Integers, FiniteSets, SequencesExt

CONSTANTS
    Wids,       \* the worker ids a push may name; all are in range
    Inited,     \* those the loaded program declares
    Producers,  \* threads that push: hosts, and other kernels' far_signal
    QMax,       \* EPA_INGRESS_QMAX
    Cap,        \* words of an input ring, in_words of the entry
    NSlots,     \* entries of the global handle space
    NMsgs,      \* bound: messages pushed in a behaviour
    Before,     \* how many of them were pushed before the kernel was first run
    Profiles    \* the scheduler profiles the kernel may have been given

ASSUME IngressConstants ==
    /\ Wids \subseteq Nat \ {0}
    /\ Wids # {} /\ IsFiniteSet(Wids)
    /\ Inited \subseteq Wids
    /\ IsFiniteSet(Producers)
    /\ QMax \in Nat \ {0}
    /\ Cap \in Nat \ {0}
    /\ NSlots \in Nat \ {0}
    /\ NMsgs \in Nat /\ Before \in 0 .. QMax /\ Before <= NMsgs
    /\ Profiles \subseteq {"wave", "cpu_thread"}

VARIABLES
    profile,    \* k->sched_profile
    slot,       \* wid -> index -> the message in inq[wid].q, 0 where buf is NULL
    qhead, qtail, qcount,
    ppc, pwid, pmsg, preg,         \* producer -> its place, arguments and loaded value
    rbuf, rhead, rtail, rcount,    \* wid -> the input ring
    obj,        \* index -> entry of the handle space
    dpc, dwid, dmsg, dh, dword, dreg,  \* the drain: place, wid, message, handle, word, loaded value
    wpc, wword, wreg,              \* worker -> place, word it pops, loaded value
    r0,         \* worker -> the word popped into r0, the index of a handle
    cur,        \* worker -> current_ghs, NoHandle if has_current_ghs is 0
    parked,     \* worker -> waiting_for_data and blocked, set and cleared together here
    faulted,    \* worker -> faulted
    nmsg,       \* ghost: messages handed to push so far
    log,        \* ghost: wid -> the messages accepted, in order
    framed,     \* ghost: wid -> the messages whose four words were pushed, in order
    read,       \* ghost: wid -> the messages a worker found behind its handle, in order
    orphans,    \* ghost: live objects that nothing refers to any more
    raced       \* ghost: what two unlocked updates have overlapped on

queueVars == <<slot, qhead, qtail, qcount>>
pushVars  == <<ppc, pwid, pmsg, preg>>
ringVars  == <<rbuf, rhead, rtail, rcount>>
drainVars == <<dpc, dwid, dmsg, dh, dword, dreg>>
workVars  == <<wpc, wword, wreg, r0, cur, parked, faulted>>
ghosts    == <<nmsg, log, framed, read, orphans, raced>>
vars == <<profile, queueVars, pushVars, ringVars, obj, drainVars, workVars, ghosts>>

Msgs     == 1 .. NMsgs
Slots    == 0 .. NSlots - 1
NoHandle == <<0, 0>>      \* generations start at 1: matches no entry
Words    == 4             \* of a frame: one, index, generation, length

PushPC  == {"idle", "write", "tail", "count"}
DrainPC == {"idle", "look", "alloc", "copy", "room", "word", "wstore", "wake", "consume",
            "store", "failed"}
WorkPC  == {"wait", "freeing", "park", "recheck", "pop", "pstore", "body", "bfreeing", "ended"}

\* The values of the variables; a local is 0 where it is out of scope.
TypeOK ==
    /\ profile \in Profiles
    /\ slot \in [Wids -> [0 .. QMax - 1 -> 0 .. NMsgs]]
    /\ qhead \in [Wids -> 0 .. QMax - 1] /\ qtail \in [Wids -> 0 .. QMax - 1]
    /\ qcount \in [Wids -> Nat]
    /\ ppc \in [Producers -> PushPC] /\ pwid \in [Producers -> Wids]
    /\ pmsg \in [Producers -> 0 .. NMsgs] /\ preg \in [Producers -> Nat]
    /\ rbuf \in [Wids -> [0 .. Cap - 1 -> Nat]]
    /\ rhead \in [Wids -> 0 .. Cap - 1] /\ rtail \in [Wids -> 0 .. Cap - 1]
    /\ rcount \in [Wids -> Nat]
    /\ obj \in [Slots -> [used : BOOLEAN, gen : Nat \ {0}, owner : Wids \union {0},
                          msg : 0 .. NMsgs]]
    /\ dpc \in DrainPC /\ dwid \in Wids /\ dmsg \in 0 .. NMsgs
    /\ dh \in Nat \X Nat /\ dword \in 1 .. Words /\ dreg \in Nat
    /\ wpc \in [Inited -> WorkPC] /\ wword \in [Inited -> 1 .. Words]
    /\ wreg \in [Inited -> Nat]
    /\ r0 \in [Inited -> Nat] /\ cur \in [Inited -> Nat \X Nat]
    /\ parked \in [Inited -> BOOLEAN] /\ faulted \in [Inited -> BOOLEAN]
    /\ nmsg \in 0 .. NMsgs
    /\ log \in [Wids -> Seq(Msgs)] /\ framed \in [Wids -> Seq(Msgs)]
    /\ read \in [Wids -> Seq(Msgs)]
    /\ orphans \subseteq Slots
    /\ raced \subseteq {"queue", "ring", "ghs"}

----------------------------------------------------------------------------
(* Ring, queue and handle space                                            *)

Above(w) == {v \in Wids : v > w}
Least(S) == CHOOSE v \in S : \A u \in S : v <= u

NextQWide(i) == i + 1       \* mutant: no wrap
NextQ(i) == (i + 1) % QMax
NextR(i) == (i + 1) % Cap

\* epa_ring_space: the ring of a worker that was never initialised has no capacity.
Space(w) == (IF w \in Inited THEN Cap ELSE 0) - rcount[w]

\* epa_ghs_validate.
Valid(h) == h[1] \in Slots /\ obj[h[1]].used /\ obj[h[1]].gen = h[2]

\* ghs_find_free_slot.
FreeSlotsAny == Slots       \* mutant: the flags are not looked at
FreeSlots  == {i \in Slots : ~obj[i].used}
FirstFree  == CHOOSE i \in FreeSlots : \A j \in FreeSlots : i <= j

\* The words of the frame of handle h for message m: its length stands for the message.
FrameWord(h, m, k) == CASE k = 1 -> 1 [] k = 2 -> h[1] [] k = 3 -> h[2] [] k = 4 -> m

\* A worker is inside an instruction that has changed state and is not over.
MidInstruction(w) == wpc[w] \in {"freeing", "park", "recheck", "pstore", "bfreeing"}

\* Under wave the run thread drains between ticks and ticks between drains.
DrainMayStart == profile = "wave" => \A w \in Inited : ~MidInstruction(w)
MayTick(w) ==
    /\ ~faulted[w]
    /\ profile = "wave" => dpc = "idle"

Init ==
    /\ profile \in Profiles
    /\ \E v \in Wids :       \* the messages pushed before the first run, all to one worker
        /\ slot = [w \in Wids |-> [i \in 0 .. QMax - 1 |->
                                    IF w = v /\ i < Before THEN i + 1 ELSE 0]]
        /\ qtail = [w \in Wids |-> IF w = v THEN Before % QMax ELSE 0]
        /\ qcount = [w \in Wids |-> IF w = v THEN Before ELSE 0]
        /\ log = [w \in Wids |-> IF w = v THEN [i \in 1 .. Before |-> i] ELSE <<>>]
    /\ qhead = [w \in Wids |-> 0]
    /\ ppc = [p \in Producers |-> "idle"]
    /\ pwid = [p \in Producers |-> Least(Wids)]
    /\ pmsg = [p \in Producers |-> 0] /\ preg = [p \in Producers |-> 0]
    /\ rbuf = [w \in Wids |-> [i \in 0 .. Cap - 1 |-> 0]]
    /\ rhead = [w \in Wids |-> 0] /\ rtail = [w \in Wids |-> 0]
    /\ rcount = [w \in Wids |-> 0]
    /\ obj = [i \in Slots |-> [used |-> FALSE, gen |-> 1, owner |-> 0, msg |-> 0]]
    /\ dpc = "idle" /\ dwid = Least(Wids) /\ dmsg = 0
    /\ dh = NoHandle /\ dword = 1 /\ dreg = 0
    /\ wpc = [w \in Inited |-> "wait"] /\ wword = [w \in Inited |-> 1]
    /\ wreg = [w \in Inited |-> 0]
    /\ r0 = [w \in Inited |-> 0] /\ cur = [w \in Inited |-> NoHandle]
    /\ parked = [w \in Inited |-> FALSE] /\ faulted = [w \in Inited |-> FALSE]
    /\ nmsg = Before
    /\ framed = [w \in Wids |-> <<>>]
    /\ read = [w \in Wids |-> <<>>]
    /\ orphans = {} /\ raced = {}

----------------------------------------------------------------------------
(* epa_kernel_ingress_push_framed                                          *)

\* Somebody else is between the check and the count++ of a push on the queue of w.
Pushing(w) == \E p \in Producers : ppc[p] # "idle" /\ pwid[p] = w

\* The count check.  A full queue refuses the message and nothing changes.
PushCheck(p, w) ==
    /\ ppc[p] = "idle"
    /\ nmsg < NMsgs
    /\ qcount[w] < QMax
    /\ nmsg' = nmsg + 1
    /\ ppc' = [ppc EXCEPT ![p] = "write"]
    /\ pwid' = [pwid EXCEPT ![p] = w]
    /\ pmsg' = [pmsg EXCEPT ![p] = nmsg + 1]
    /\ raced' = IF Pushing(w) THEN raced \union {"queue"} ELSE raced
    /\ UNCHANGED <<profile, queueVars, preg, ringVars, obj, drainVars, workVars, log, framed,
                   read, orphans>>

\* The stores to q[tail], and the load of tail to advance it.
PushWrite(p) ==
    /\ ppc[p] = "write"
    /\ slot' = [slot EXCEPT ![pwid[p]][qtail[pwid[p]]] = pmsg[p]]
    /\ preg' = [preg EXCEPT ![p] = qtail[pwid[p]]]
    /\ ppc' = [ppc EXCEPT ![p] = "tail"]
    /\ UNCHANGED <<profile, qhead, qtail, qcount, pwid, pmsg, ringVars, obj, drainVars,
                   workVars, ghosts>>

\* The store of tail, and the load of count.
PushTail(p) ==
    /\ ppc[p] = "tail"
    /\ qtail' = [qtail EXCEPT ![pwid[p]] = NextQ(preg[p])]
    /\ preg' = [preg EXCEPT ![p] = qcount[pwid[p]]]
    /\ ppc' = [ppc EXCEPT ![p] = "count"]
    /\ raced' = IF dpc = "store" /\ dwid = pwid[p] THEN raced \union {"queue"} ELSE raced
    /\ UNCHANGED <<profile, slot, qhead, qcount, pwid, pmsg, ringVars, obj, drainVars,
                   workVars, nmsg, log, framed, read, orphans>>

\* The store of count: the push returns 1.
PushCount(p) ==
    /\ ppc[p] = "count"
    /\ qcount' = [qcount EXCEPT ![pwid[p]] = preg[p] + 1]
    /\ ppc' = [ppc EXCEPT ![p] = "idle"]
    /\ log' = [log EXCEPT ![pwid[p]] = Append(@, pmsg[p])]
    /\ pwid' = [pwid EXCEPT ![p] = Least(Wids)]
    /\ pmsg' = [pmsg EXCEPT ![p] = 0] /\ preg' = [preg EXCEPT ![p] = 0]
    /\ UNCHANGED <<profile, slot, qhead, qtail, ringVars, obj, drainVars, workVars, nmsg,
                   framed, read, orphans, raced>>

Push(p) == \/ \E w \in Wids : PushCheck(p, w)
           \/ PushWrite(p) \/ PushTail(p) \/ PushCount(p)

----------------------------------------------------------------------------
(* epa_kernel_drain_ingress and epa_kernel_deliver_ingress_msg             *)

\* One call of the drain, at the boundary the scheduler calls it.  After a failed drain
\* the run returns 0 with the message still queued; the host may run the kernel again.
DrainStart ==
    /\ dpc \in {"idle", "failed"}
    /\ DrainMayStart
    /\ dpc' = "look"
    /\ dwid' = Least(Wids)
    /\ dmsg' = 0 /\ dh' = NoHandle /\ dword' = 1 /\ dreg' = 0
    /\ UNCHANGED <<profile, queueVars, pushVars, ringVars, obj, workVars, ghosts>>

\* while (q->count): an empty queue sends the loop to the next wid, or ends the drain.
DrainNext ==
    /\ dpc = "look"
    /\ qcount[dwid] = 0
    /\ IF Above(dwid) = {} THEN dpc' = "idle" /\ dwid' = Least(Wids)
                           ELSE dpc' = "look" /\ dwid' = Least(Above(dwid))
    /\ UNCHANGED <<profile, queueVars, pushVars, ringVars, obj, dmsg, dh, dword, dreg,
                   workVars, ghosts>>

\* Mutant of DrainTake: count is not looked at again after a delivery.
DrainTakeBlind ==
    /\ dpc = "look"
    /\ dmsg' = slot[dwid][qhead[dwid]]
    /\ dpc' = IF dmsg' = 0 THEN "consume" ELSE "alloc"
    /\ UNCHANGED <<profile, queueVars, pushVars, ringVars, obj, dwid, dh, dword, dreg,
                   workVars, ghosts>>

\* The message at the head; one without a buffer is consumed unread.
DrainTake ==
    /\ dpc = "look"
    /\ qcount[dwid] > 0
    /\ dmsg' = slot[dwid][qhead[dwid]]
    /\ dpc' = IF dmsg' = 0 THEN "consume" ELSE "alloc"
    /\ UNCHANGED <<profile, queueVars, pushVars, ringVars, obj, dwid, dh, dword, dreg,
                   workVars, ghosts>>

\* epa_ghs_alloc_tagged, owned by the kernel.  A slot whose free has cleared the flags but
\* not yet advanced the generation is free to take.
DrainAlloc ==
    /\ dpc = "alloc"
    /\ IF FreeSlots = {}
       THEN dpc' = "failed" /\ UNCHANGED <<obj, dh, raced>>
       ELSE /\ obj' = [obj EXCEPT ![FirstFree].used = TRUE, ![FirstFree].owner = 0,
                                  ![FirstFree].msg = dmsg]
            /\ dh' = <<FirstFree, obj[FirstFree].gen>>
            /\ dpc' = "copy"
            /\ raced' = IF \E w \in Inited : /\ wpc[w] \in {"freeing", "bfreeing"}
                                             /\ cur[w][1] = FirstFree
                        THEN raced \union {"ghs"} ELSE raced
    /\ UNCHANGED <<profile, queueVars, pushVars, ringVars, dwid, dmsg, dword, dreg, workVars,
                   nmsg, log, framed, read, orphans>>

\* Mutant of DrainCopy: no transfer, the object stays the kernel's.
DrainCopyKeeps ==
    /\ dpc = "copy"
    /\ IF Valid(dh)
       THEN dpc' = "room" /\ UNCHANGED orphans
       ELSE dpc' = "failed" /\ orphans' = orphans \union {dh[1]}
    /\ UNCHANGED <<profile, queueVars, pushVars, ringVars, obj, dwid, dmsg, dh, dword, dreg,
                   workVars, nmsg, log, framed, read, raced>>

\* epa_ghs_get_ptr, the copy and epa_ghs_transfer.  If the handle no longer matches its
\* entry, the epa_ghs_free of the error path does not match it either.
DrainCopy ==
    /\ dpc = "copy"
    /\ IF Valid(dh)
       THEN /\ obj' = [obj EXCEPT ![dh[1]].owner = dwid]
            /\ dpc' = "room"
            /\ UNCHANGED orphans
       ELSE /\ dpc' = "failed"
            /\ orphans' = orphans \union {dh[1]}
            /\ UNCHANGED obj
    /\ UNCHANGED <<profile, queueVars, pushVars, ringVars, dwid, dmsg, dh, dword, dreg,
                   workVars, nmsg, log, framed, read, raced>>

\* Mutant of DrainRoom: the message is dropped with its delivery.
DrainRoomDrops ==
    /\ dpc = "room"
    /\ IF Space(dwid) < Words
       THEN /\ faulted' = [w \in Inited |-> faulted[w] \/ w = dwid]
            /\ orphans' = orphans \union {dh[1]}
            /\ dpc' = "consume"
            /\ UNCHANGED dword
       ELSE /\ dword' = 1
            /\ dpc' = "word"
            /\ UNCHANGED <<faulted, orphans>>
    /\ UNCHANGED <<profile, queueVars, pushVars, ringVars, obj, dwid, dmsg, dh, dreg, wpc,
                   wword, wreg, r0, cur, parked, nmsg, log, framed, read, raced>>

\* A ring without room for four words faults the worker and fails the drain; the object
\* stays allocated to the worker.
DrainRoom ==
    /\ dpc = "room"
    /\ IF Space(dwid) < Words
       THEN /\ faulted' = [w \in Inited |-> faulted[w] \/ w = dwid]
            /\ orphans' = orphans \union {dh[1]}
            /\ dpc' = "failed"
            /\ UNCHANGED dword
       ELSE /\ dword' = 1
            /\ dpc' = "word"
            /\ UNCHANGED <<faulted, orphans>>
    /\ UNCHANGED <<profile, queueVars, pushVars, ringVars, obj, dwid, dmsg, dh, dreg, wpc,
                   wword, wreg, r0, cur, parked, nmsg, log, framed, read, raced>>

\* ring_push of one word: the store, the new tail and the load of count ...
DrainWord ==
    /\ dpc = "word"
    /\ IF rcount[dwid] = Cap
       THEN /\ dpc' = "failed"
            /\ orphans' = orphans \union {dh[1]}
            /\ UNCHANGED <<rbuf, rtail, dreg, raced>>
       ELSE /\ rbuf' = [rbuf EXCEPT ![dwid][rtail[dwid]] = FrameWord(dh, dmsg, dword)]
            /\ rtail' = [rtail EXCEPT ![dwid] = NextR(@)]
            /\ dreg' = rcount[dwid]
            /\ raced' = IF wpc[dwid] = "pstore" THEN raced \union {"ring"} ELSE raced
            /\ dpc' = "wstore"
            /\ UNCHANGED orphans
    /\ UNCHANGED <<profile, queueVars, pushVars, rhead, rcount, obj, dwid, dmsg, dh, dword,
                   workVars, nmsg, log, framed, read>>

\* ... and the store of count.
DrainWordStore ==
    /\ dpc = "wstore"
    /\ rcount' = [rcount EXCEPT ![dwid] = dreg + 1]
    /\ dreg' = 0
    /\ IF dword < Words THEN dpc' = "word" /\ dword' = dword + 1
                        ELSE dpc' = "wake" /\ dword' = 1
    /\ framed' = IF dword < Words THEN framed ELSE [framed EXCEPT ![dwid] = Append(@, dmsg)]
    /\ UNCHANGED <<profile, queueVars, pushVars, rbuf, rhead, rtail, obj, dwid, dmsg, dh,
                   workVars, nmsg, log, read, orphans, raced>>

\* Mutant of DrainWake: the delivered message stays in its queue.
DrainWakeKeeps ==
    /\ dpc = "wake"
    /\ parked' = [parked EXCEPT ![dwid] = FALSE]
    /\ dpc' = "look"
    /\ UNCHANGED <<profile, queueVars, pushVars, ringVars, obj, dwid, dmsg, dh, dword, dreg,
                   wpc, wword, wreg, r0, cur, faulted, ghosts>>

\* waiting_for_data and blocked are cleared, whatever the worker was doing.
DrainWake ==
    /\ dpc = "wake"
    /\ parked' = [parked EXCEPT ![dwid] = FALSE]
    /\ dpc' = "consume"
    /\ UNCHANGED <<profile, queueVars, pushVars, ringVars, obj, dwid, dmsg, dh, dword, dreg,
                   wpc, wword, wreg, r0, cur, faulted, ghosts>>

\* ingress_free_msg, the new head and the load of count ...
DrainConsume ==
    /\ dpc = "consume"
    /\ slot' = [slot EXCEPT ![dwid][qhead[dwid]] = 0]
    /\ qhead' = [qhead EXCEPT ![dwid] = NextQ(@)]
    /\ dreg' = qcount[dwid]
    /\ raced' = IF \E p \in Producers : ppc[p] = "count" /\ pwid[p] = dwid
                THEN raced \union {"queue"} ELSE raced
    /\ dpc' = "store"
    /\ UNCHANGED <<profile, qtail, qcount, pushVars, ringVars, obj, dwid, dmsg, dh, dword,
                   workVars, nmsg, log, framed, read, orphans>>

\* ... and the store of count.
DrainStore ==
    /\ dpc = "store"
    /\ qcount' = [qcount EXCEPT ![dwid] = dreg - 1]
    /\ dpc' = "look"
    /\ dmsg' = 0 /\ dh' = NoHandle /\ dreg' = 0
    /\ UNCHANGED <<profile, slot, qhead, qtail, pushVars, ringVars, obj, dwid, dword, workVars,
                   ghosts>>

Drain == \/ DrainStart \/ DrainNext \/ DrainTake \/ DrainAlloc \/ DrainCopy \/ DrainRoom
         \/ DrainWord \/ DrainWordStore \/ DrainWake \/ DrainConsume \/ DrainStore

----------------------------------------------------------------------------
(* The worker: WAIT_FOR_DATA, four WORKER_TRX_IN_R, its body, and back     *)

\* WAIT_FOR_DATA finds words in the ring and goes on; the current object is not released.
WaitData(w) ==
    /\ wpc[w] = "wait" /\ MayTick(w)
    /\ rcount[w] > 0
    /\ wpc' = [wpc EXCEPT ![w] = "pop"]
    /\ wword' = [wword EXCEPT ![w] = 1]
    /\ UNCHANGED <<profile, queueVars, pushVars, ringVars, obj, drainVars, wreg, r0, cur,
                   parked, faulted, ghosts>>

\* epa_ghs_free up to its e->flags = 0.
FreeFlags(h) == obj' = [obj EXCEPT ![h[1]].used = FALSE, ![h[1]].owner = 0, ![h[1]].msg = 0]

\* Mutant of WaitRelease: the current object is forgotten, not freed.
WaitReleaseForgets(w) ==
    /\ wpc[w] = "wait" /\ MayTick(w)
    /\ rcount[w] = 0
    /\ cur' = [cur EXCEPT ![w] = NoHandle]
    /\ wpc' = [wpc EXCEPT ![w] = "park"]
    /\ UNCHANGED <<profile, queueVars, pushVars, ringVars, obj, drainVars, wword, wreg, r0,
                   parked, faulted, ghosts>>

\* It finds none: worker_release_current_ghs_if_owned frees the current object if it is
\* still the worker's.
WaitRelease(w) ==
    /\ wpc[w] = "wait" /\ MayTick(w)
    /\ rcount[w] = 0
    /\ IF Valid(cur[w]) /\ obj[cur[w][1]].owner = w
       THEN FreeFlags(cur[w]) /\ wpc' = [wpc EXCEPT ![w] = "freeing"] /\ UNCHANGED cur
       ELSE /\ cur' = [cur EXCEPT ![w] = NoHandle]
            /\ wpc' = [wpc EXCEPT ![w] = "park"]
            /\ UNCHANGED obj
    /\ UNCHANGED <<profile, queueVars, pushVars, ringVars, drainVars, wword, wreg, r0, parked,
                   faulted, ghosts>>

\* The end of epa_ghs_free: e->generation++.
FreeGeneration(w) ==
    /\ wpc[w] \in {"freeing", "bfreeing"}
    /\ obj' = [obj EXCEPT ![cur[w][1]].gen = @ + 1]
    /\ cur' = IF wpc[w] = "freeing" THEN [cur EXCEPT ![w] = NoHandle] ELSE cur
    /\ wpc' = [wpc EXCEPT ![w] = IF wpc[w] = "freeing" THEN "park" ELSE "wait"]
    /\ UNCHANGED <<profile, queueVars, pushVars, ringVars, drainVars, wword, wreg, r0, parked,
                   faulted, ghosts>>

\* waiting_for_data = 1, blocked = 1 ...
WaitPark(w) ==
    /\ wpc[w] = "park"
    /\ parked' = [parked EXCEPT ![w] = TRUE]
    /\ wpc' = [wpc EXCEPT ![w] = "recheck"]
    /\ UNCHANGED <<profile, queueVars, pushVars, ringVars, obj, drainVars, wword, wreg, r0, cur,
                   faulted, ghosts>>

\* Mutants of WaitRecheck: the worker is unparked whatever it finds; no second look.
WaitRecheckAlways(w) ==
    /\ wpc[w] = "recheck"
    /\ parked' = [parked EXCEPT ![w] = FALSE]
    /\ wpc' = [wpc EXCEPT ![w] = "pop"]
    /\ wword' = [wword EXCEPT ![w] = 1]
    /\ UNCHANGED <<profile, queueVars, pushVars, ringVars, obj, drainVars, wreg, r0, cur,
                   faulted, ghosts>>

WaitRecheckNot(w) ==
    /\ wpc[w] = "recheck"
    /\ wpc' = [wpc EXCEPT ![w] = "pop"]
    /\ wword' = [wword EXCEPT ![w] = 1]
    /\ UNCHANGED <<profile, queueVars, pushVars, ringVars, obj, drainVars, wreg, r0, cur,
                   parked, faulted, ghosts>>

\* ... and a second look at the ring.  Either way the next instruction is the first pop.
WaitRecheck(w) ==
    /\ wpc[w] = "recheck"
    /\ parked' = [parked EXCEPT ![w] = @ /\ rcount[w] = 0]
    /\ wpc' = [wpc EXCEPT ![w] = "pop"]
    /\ wword' = [wword EXCEPT ![w] = 1]
    /\ UNCHANGED <<profile, queueVars, pushVars, ringVars, obj, drainVars, wreg, r0, cur,
                   faulted, ghosts>>

\* WORKER_TRX_IN_R: one word; r1 completes a handle and makes it the current object.  An
\* empty ring is a fault.  The pop is the read, the new head and the load of count ...
Pop(w) ==
    /\ wpc[w] = "pop" /\ MayTick(w) /\ ~parked[w]
    /\ IF rcount[w] = 0
       THEN /\ faulted' = [faulted EXCEPT ![w] = TRUE]
            /\ UNCHANGED <<rhead, wpc, wreg, r0, cur, orphans, raced>>
       ELSE LET v == rbuf[w][rhead[w]] IN
            /\ rhead' = [rhead EXCEPT ![w] = NextR(@)]
            /\ wreg' = [wreg EXCEPT ![w] = rcount[w]]
            /\ r0' = IF wword[w] = 2 THEN [r0 EXCEPT ![w] = v] ELSE r0
            /\ cur' = IF wword[w] = 3 THEN [cur EXCEPT ![w] = <<r0[w], v>>] ELSE cur
            /\ orphans' = IF wword[w] = 3 /\ Valid(cur[w]) /\ cur[w] # <<r0[w], v>>
                          THEN orphans \union {cur[w][1]} ELSE orphans
            /\ raced' = IF dpc = "wstore" /\ dwid = w THEN raced \union {"ring"} ELSE raced
            /\ wpc' = [wpc EXCEPT ![w] = "pstore"]
            /\ UNCHANGED faulted
    /\ UNCHANGED <<profile, queueVars, pushVars, rbuf, rtail, rcount, obj, drainVars, wword,
                   parked, nmsg, log, framed, read>>

\* ... and the store of count.
PopStore(w) ==
    /\ wpc[w] = "pstore"
    /\ rcount' = [rcount EXCEPT ![w] = wreg[w] - 1]
    /\ wpc' = [wpc EXCEPT ![w] = IF wword[w] < Words THEN "pop" ELSE "body"]
    /\ wword' = [wword EXCEPT ![w] = IF @ < Words THEN @ + 1 ELSE 1]
    /\ wreg' = [wreg EXCEPT ![w] = 0]
    /\ r0' = IF wword[w] < Words THEN r0 ELSE [r0 EXCEPT ![w] = 0]
    /\ UNCHANGED <<profile, queueVars, pushVars, rbuf, rhead, rtail, obj, drainVars, cur,
                   parked, faulted, ghosts>>

\* The body looks at the object (G_META); a handle that matches nothing is a fault.
Body(w) ==
    /\ wpc[w] = "body" /\ MayTick(w)
    /\ IF Valid(cur[w])
       THEN /\ read' = [read EXCEPT ![w] = Append(@, obj[cur[w][1]].msg)]
            /\ wpc' = [wpc EXCEPT ![w] = "ended"]
            /\ UNCHANGED faulted
       ELSE faulted' = [faulted EXCEPT ![w] = TRUE] /\ UNCHANGED <<read, wpc>>
    /\ UNCHANGED <<profile, queueVars, pushVars, ringVars, obj, drainVars, wword, wreg, r0, cur,
                   parked, nmsg, log, framed, orphans, raced>>

\* G_FREE by the body, for the owner only; has_current_ghs stays set.
BodyFree(w) ==
    /\ wpc[w] = "ended" /\ MayTick(w)
    /\ Valid(cur[w]) /\ obj[cur[w][1]].owner = w
    /\ FreeFlags(cur[w])
    /\ wpc' = [wpc EXCEPT ![w] = "bfreeing"]
    /\ UNCHANGED <<profile, queueVars, pushVars, ringVars, drainVars, wword, wreg, r0, cur,
                   parked, faulted, ghosts>>

\* JMP back to WAIT_FOR_DATA.
BodyEnd(w) ==
    /\ wpc[w] = "ended" /\ MayTick(w)
    /\ wpc' = [wpc EXCEPT ![w] = "wait"]
    /\ UNCHANGED <<profile, queueVars, pushVars, ringVars, obj, drainVars, wword, wreg, r0, cur,
                   parked, faulted, ghosts>>

Tick(w) == \/ WaitData(w) \/ WaitRelease(w) \/ FreeGeneration(w) \/ WaitPark(w)
           \/ WaitRecheck(w) \/ Pop(w) \/ PopStore(w) \/ Body(w) \/ BodyFree(w) \/ BodyEnd(w)

Next == \/ \E p \in Producers : Push(p)
        \/ Drain
        \/ \E w \in Inited : Tick(w)

Spec == Init /\ [][Next]_vars

\* The scheduler keeps calling the drain, a push ends, and a worker that is runnable again
\* and again is ticked: a wave round ticks every runnable worker between two drains, a pool
\* thread keeps ticking the one it is bound to.
FairSpec ==
    /\ Spec
    /\ WF_vars(Drain)
    /\ \A p \in Producers : WF_vars(PushWrite(p) \/ PushTail(p) \/ PushCount(p))
    /\ \A w \in Inited : SF_vars(Tick(w))

----------------------------------------------------------------------------
(* Properties                                                              *)

\* How many messages of w have left the queue: the one being delivered leaves it when the
\* head advances.
Gone(w) == Len(framed[w]) - (IF dwid = w /\ dpc \in {"wake", "consume"} THEN 1 ELSE 0)

\* While no two updates of its queue have overlapped, the queue of a worker holds exactly
\* the messages that were accepted and not yet delivered, in the order of acceptance, and
\* count is their number; so the head-to-tail arithmetic of push and drain loses, repeats
\* and reorders nothing, also when deliveries fail and are tried again.
QueueExact ==
    "queue" \notin raced =>
        \A w \in Wids :
            LET n == Len(log[w]) - Gone(w) IN
            /\ n \in 0 .. QMax
            /\ qcount[w] = n + (IF dwid = w /\ dpc = "store" THEN 1 ELSE 0)
            /\ \A i \in 1 .. n :
                    slot[w][(qhead[w] + i - 1) % QMax] = log[w][Gone(w) + i]

\* Whatever overlaps, the drain never takes count below zero, where it would wrap and the
\* drain would spin on the empty slots of the queue for ever: it acts on a count it has seen
\* to be positive, and only the drain itself lowers it.
NoUnderflow ==
    /\ dpc \in {"alloc", "copy", "room", "word", "wstore", "wake", "consume"} =>
            qcount[dwid] >= 1
    /\ dpc = "store" => dreg >= 1

\* Whatever overlaps, the words of a message go into a ring at most once.
FramedOnce == \A w \in Wids : IsInjective(framed[w])

\* While nothing has overlapped, a worker reads the messages accepted for it in the order
\* of acceptance, without a gap.
ReadInOrder == raced = {} => \A w \in Inited : IsPrefix(read[w], log[w])

\* The indices in the ring of w, whose words from the head on continue a frame of which
\* the worker has popped some.
RingWord(w, i) == rbuf[w][(rhead[w] + i) % Cap]
Popped(w) == IF wpc[w] = "pop" THEN wword[w] - 1 ELSE IF wpc[w] = "pstore" THEN wword[w] ELSE 0
Held(w) == rcount[w] - (IF wpc[w] = "pstore" THEN 1 ELSE 0)
Queued(w) == {RingWord(w, i) : i \in {j \in 0 .. Held(w) - 1 : (Popped(w) + j) % Words = 1}}

\* The objects somebody still has a handle of: the drain, a ring, a worker between the two
\* pops of a handle, a worker as its current object.
Reachable ==
    (IF dpc \in {"copy", "room", "word", "wstore"} THEN {dh[1]} ELSE {})
    \union (UNION {Queued(w) : w \in Inited})
    \union {r0[w] : w \in {v \in Inited : Popped(v) = 2}}
    \union {cur[w][1] : w \in {v \in Inited : Valid(cur[v])}}

\* While neither a ring update nor an allocation has overlapped with a free, a live object
\* is one that somebody has a handle of, or one of those given up in one of two ways: its
\* delivery failed, or its worker came back to WAIT_FOR_DATA with the next message already
\* in the ring.  Nothing else leaks and nothing reachable is ever freed.
ObjectsAccounted ==
    raced \intersect {"ring", "ghs"} = {} =>
        {i \in Slots : obj[i].used} = Reachable \union orphans

\* While neither has overlapped, the body of a worker has a live object of its own.
HandleLive ==
    raced \intersect {"ring", "ghs"} = {} =>
        \A w \in Inited : wpc[w] = "body" => Valid(cur[w]) /\ obj[cur[w][1]].owner = w

\* A worker past WAIT_FOR_DATA finds in its ring all the words of the frame it is about to
\* pop: the wake carries the handle.
WakeCarriesHandle ==
    \A w \in Inited :
        wpc[w] = "pop" /\ ~parked[w] /\ ~faulted[w] => rcount[w] >= Words - wword[w] + 1

\* Under the wave profile it does, and the only updates that can overlap are the pushes.
WaveCarriesHandle == profile = "wave" => WakeCarriesHandle /\ raced \subseteq {"queue"}

\* Every accepted message is read by its worker, unless that worker does not exist or has
\* faulted, two updates overlapped, or the drain keeps failing at an earlier queue.
AcceptedRead ==
    \A w \in Wids, n \in Msgs :
        Len(log[w]) >= n ~> \/ w \notin Inited \/ Len(read[w]) >= n
                            \/ raced # {} \/ faulted[w] \/ dpc = "failed"
=============================================================================
