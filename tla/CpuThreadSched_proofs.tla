----------------------- MODULE CpuThreadSched_proofs -----------------------
(***************************************************************************)
(* Theorems about CpuThreadSched for every number of workers and threads,  *)
(* every mix of instructions and any number of hosts: the safety           *)
(* properties its runs check on small instances.                           *)
(***************************************************************************)
EXTENDS CpuThreadSched, WellFoundedInduction, TLAPS

----------------------------------------------------------------------------
(* Lemmas about the operators                                              *)

\* The scans for the lowest tid find a member of the set they scan.
LEMMA FirstInSet ==
    ASSUME NEW S \in SUBSET Nat, S # {}
    PROVE  First(S) \in S
  <1> DEFINE Less == {p \in Nat \X Nat : p[1] < p[2]}
  <1>1. IsWellFoundedOn(Less, Nat)
    BY NatLessThanWellFounded, Zenon DEF OpToRel
  <1>2. \A m, n \in Nat : m < n => <<m, n>> \in Less
    OBVIOUS
  <1> HIDE DEF Less
  <1>3. PICK x \in S : \A y \in S : ~(<<y, x>> \in Less)
    BY <1>1, WFMin, Zenon
  <1>4. ASSUME NEW y \in S PROVE x <= y
    <2>1. x \in Nat /\ y \in Nat /\ ~(<<y, x>> \in Less)
      BY <1>3
    <2>2. ~(y < x)
      BY <2>1, <1>2, Zenon
    <2> QED
      BY <2>1, <2>2
  <1> QED
    BY <1>4 DEF First

LEMMA FirstTid ==
    ASSUME NEW S \in SUBSET Tids, S # {}
    PROVE  First(S) \in S
  <1>1. Tids \in SUBSET Nat
    BY ConstantsOK DEF Tids
  <1> QED
    BY <1>1, FirstInSet

LEMMA Bounds ==
    /\ 0 \in Workers /\ 0 \in Tids
    /\ Workers = {w \in Int : 0 <= w /\ w < NWorkers}
    /\ Tids = {t \in Int : 0 <= t /\ t < CapThreads}
    /\ NWorkers \in Nat /\ CapThreads \in Nat /\ MaxTicks \in Nat /\ QMax \in Nat
    /\ 1 \in 0 .. CapThreads /\ 0 \in 0 .. MaxTicks /\ 0 \in 0 .. NWorkers /\ 0 \in 0 .. QMax
  BY ConstantsOK DEF Workers, Tids

\* Every hook and boot operator yields flags for all workers again.
LEMMA FlagsType ==
    ASSUME NEW f \in [Workers -> SUBSET Flag], NEW w \in Workers, NEW ws \in SUBSET Workers
    PROVE  /\ BootFlags(Workers) \in [Workers -> SUBSET Flag]
           /\ \A fs \in SUBSET Flag : Raise(f, w, fs) \in [Workers -> SUBSET Flag]
           /\ \A fs \in SUBSET Flag : Clear(f, w, fs) \in [Workers -> SUBSET Flag]
           /\ EntryExec(f, w) \in [Workers -> SUBSET Flag]
           /\ EntryHalt(f, w) \in [Workers -> SUBSET Flag]
           /\ EntryRetire(f, w) \in [Workers -> SUBSET Flag]
           /\ SyncFlags(f, w) \in [Workers -> SUBSET Flag]
           /\ Deliver(f, ws) \in [Workers -> SUBSET Flag]
  <1>1. BootFlags(Workers) \in [Workers -> SUBSET Flag]
    BY DEF BootFlags, Flag
  <1>2. \A g \in [Workers -> SUBSET Flag], v \in Workers, fs \in SUBSET Flag :
           /\ Raise(g, v, fs) \in [Workers -> SUBSET Flag]
           /\ Clear(g, v, fs) \in [Workers -> SUBSET Flag]
    BY DEF Raise, Clear
  <1>3. EntryExec(f, w) \in [Workers -> SUBSET Flag]
    BY <1>2 DEF EntryExec, Flag
  <1>4. EntryHalt(f, w) \in [Workers -> SUBSET Flag] /\ EntryRetire(f, w) \in [Workers -> SUBSET Flag]
    BY <1>2 DEF EntryHalt, EntryRetire, Flag
  <1>5. 0 \in Workers
    BY ConstantsOK DEF Workers
  <1>6. SyncFlags(f, w) \in [Workers -> SUBSET Flag]
    BY <1>2, <1>5 DEF SyncFlags, Flag
  <1>7. Deliver(f, ws) \in [Workers -> SUBSET Flag]
    BY DEF Deliver
  <1> QED
    BY <1>1, <1>2, <1>3, <1>4, <1>6, <1>7
----------------------------------------------------------------------------
(* Type correctness                                                        *)

LEMMA DrainType ==
    ASSUME TypeOK, DrainAll \/ DrainStuck
    PROVE  /\ flags' \in [Workers -> SUBSET Flag]
           /\ ingress' \in [Workers -> 0 .. QMax]
           /\ waiters' \subseteq Tids \union {RunLoop}
  <1> USE ConstantsOK DEF TypeOK
  <1>1. CASE DrainAll
    <2>1. Pending \in SUBSET Workers
      BY DEF Pending
    <2>2. flags' \in [Workers -> SUBSET Flag]
      BY <1>1, <2>1, Bounds, FlagsType DEF DrainAll
    <2>3. waiters' \in {waiters, {}} /\ ingress' = [w \in Workers |-> 0]
      BY <1>1 DEF DrainAll, Broadcast
    <2> QED
      BY <2>2, <2>3, Bounds
  <1>2. CASE DrainStuck
    <2>1. PICK w \in Pending : \E left \in 1 .. ingress[w] :
             /\ flags' = Raise(Deliver(flags, Served(w, left)), w, {"faulted"})
             /\ ingress' = [v \in Workers |-> IF v < w THEN 0 ELSE
                                                  IF v = w THEN left ELSE ingress[v]]
             /\ waiters' \in {waiters, {}}
      BY <1>2 DEF DrainStuck, Broadcast
    <2>2. PICK left \in 1 .. ingress[w] :
             /\ flags' = Raise(Deliver(flags, Served(w, left)), w, {"faulted"})
             /\ ingress' = [v \in Workers |-> IF v < w THEN 0 ELSE
                                                  IF v = w THEN left ELSE ingress[v]]
             /\ waiters' \in {waiters, {}}
      BY <2>1
    <2>3. w \in Workers /\ Served(w, left) \in SUBSET Workers /\ left \in 0 .. QMax
      BY DEF Pending, Served
    <2>4. Deliver(flags, Served(w, left)) \in [Workers -> SUBSET Flag]
      BY <2>3, FlagsType
    <2>5. flags' \in [Workers -> SUBSET Flag]
      BY <2>2, <2>3, <2>4, FlagsType DEF Flag
    <2>6. ingress' \in [Workers -> 0 .. QMax]
      BY <2>2, <2>3
    <2> QED
      BY <2>2, <2>5, <2>6
  <1> QED
    BY <1>1, <1>2

LEMMA TickType ==
    ASSUME TypeOK, NEW t \in Tids, TidTick(t)
    PROVE  flags' \in [Workers -> SUBSET Flag] /\ tpc' \in [Tids -> TidPC]
  <1>1. lwid[t] \in Workers /\ curWid \in Workers /\ flags \in [Workers -> SUBSET Flag]
    BY DEF TypeOK
  <1>2. \A fs \in SUBSET Flag : Raise(flags, lwid[t], fs) \in [Workers -> SUBSET Flag]
    BY <1>1, FlagsType
  <1>3. \A v \in Workers : /\ EntryExec(flags, v) \in [Workers -> SUBSET Flag]
                           /\ EntryHalt(flags, v) \in [Workers -> SUBSET Flag]
                           /\ EntryRetire(flags, v) \in [Workers -> SUBSET Flag]
                           /\ SyncFlags(flags, v) \in [Workers -> SUBSET Flag]
    BY <1>1, FlagsType
  <1>4. BootFlags(Workers) \in [Workers -> SUBSET Flag]
    BY <1>1, FlagsType
  <1>5. /\ {"blocked"} \in SUBSET Flag /\ {"blocked", "waiting"} \in SUBSET Flag
        /\ {"halted"} \in SUBSET Flag /\ {"faulted"} \in SUBSET Flag
    BY DEF Flag
  <1>6. flags' \in [Workers -> SUBSET Flag]
    BY <1>1, <1>2, <1>3, <1>4, <1>5 DEF TidTick
  <1>7. tpc' \in [Tids -> TidPC]
    BY DEF TidTick, Goto, TypeOK, TidPC
  <1> QED
    BY <1>6, <1>7

LEMMA TypeInit == Init => TypeOK
  <1> SUFFICES ASSUME Init PROVE TypeOK
    OBVIOUS
  <1> USE DEF Init
  <1>1. /\ flags \in [Workers -> SUBSET Flag] /\ ingress \in [Workers -> 0 .. QMax]
        /\ curWid \in Workers
    BY Bounds DEF BootFlags, Flag
  <1>2. /\ tidToWid \in [Tids -> Workers \union {None}]
        /\ widToTid \in [Workers -> Tids \union {None}]
        /\ tpc \in [Tids -> TidPC]
        /\ lwid \in [Tids -> Workers]
    BY Bounds DEF TidPC
  <1>3. /\ nThreads \in 0 .. CapThreads /\ ticks \in 0 .. MaxTicks /\ cursor \in 0 .. NWorkers
        /\ rpc \in RunPC /\ rc \in 0 .. 2 /\ hpc \in HostPC
    BY Bounds DEF RunPC, HostPC
  <1> QED
    BY <1>1, <1>2, <1>3 DEF TypeOK

LEMMA TypeStep == TypeOK /\ [Next]_vars => TypeOK'
  <1> SUFFICES ASSUME TypeOK, [Next]_vars PROVE TypeOK'
    OBVIOUS
  <1> USE ConstantsOK
  <1>1. CASE RunReady
    BY <1>1 DEF RunReady, TypeOK, RunPC, flagVars, intVars, bindVars, runVars, poolVars, addVars, hostVars
  <1>2. CASE RunEnter
    BY <1>2 DEF RunEnter, TypeOK, RunPC, flagVars, intVars, bindVars, runVars, poolVars, addVars, hostVars
  <1>3. CASE RunEntered
    BY <1>3 DEF RunEntered, TypeOK, RunPC, flagVars, intVars, bindVars, runVars, poolVars, addVars, hostVars
  <1>4. CASE RunUpfront
    BY <1>4, DrainType DEF RunUpfront, Return, TypeOK, RunPC, flagVars, intVars, bindVars, runVars, poolVars, addVars, hostVars
  <1>5. CASE RunTop
    BY <1>5, DrainType DEF RunTop, Return, TypeOK, RunPC, flagVars, intVars, bindVars, runVars, poolVars, addVars, hostVars
  <1>6. CASE RunLock
    BY <1>6 DEF RunLock, TypeOK, RunPC, flagVars, intVars, bindVars, runVars, poolVars, addVars, hostVars
  <1>7. CASE RunBind
    <2>1. cursor' \in 0 .. NWorkers /\ rpc' \in RunPC /\ waiters' \subseteq Tids \union {RunLoop}
      BY <1>7 DEF RunBind, Broadcast, TypeOK, RunPC
    <2>2. UNCHANGED bindVars \/ \E t \in FreeTids, w \in Workers :
             tidToWid' = [tidToWid EXCEPT ![t] = w] /\ widToTid' = [widToTid EXCEPT ![w] = t]
      <3>1. CASE UNCHANGED bindVars
        BY <3>1
      <3>2. CASE ~UNCHANGED bindVars
        <4>1. /\ cursor < NWorkers /\ FreeTids # {}
              /\ tidToWid' = [tidToWid EXCEPT ![First(FreeTids)] = cursor]
              /\ widToTid' = [widToTid EXCEPT ![cursor] = First(FreeTids)]
          BY <1>7, <3>2, Zenon DEF RunBind, bindVars
        <4>2. First(FreeTids) \in FreeTids
          BY <4>1, FirstTid DEF FreeTids
        <4>3. cursor \in Workers
          BY <4>1, Bounds DEF TypeOK
        <4> QED
          BY <4>1, <4>2, <4>3
      <3> QED
        BY <3>1, <3>2
    <2>3. /\ tidToWid' \in [Tids -> Workers \union {None}]
          /\ widToTid' \in [Workers -> Tids \union {None}]
      BY <2>2 DEF TypeOK, FreeTids, bindVars
    <2>4. UNCHANGED <<flagVars, intVars, stop, nThreads, rc, ticks, poolVars, addVars, hostVars>>
      BY <1>7 DEF RunBind
    <2> QED
      BY <2>1, <2>3, <2>4 DEF TypeOK, flagVars, intVars, bindVars, runVars, poolVars, addVars, hostVars
  <1>8. CASE RunDecide
    <2>1. /\ interrupt' \in {TRUE, FALSE, interrupt}
          /\ interruptRequested' \in {FALSE, interruptRequested}
          /\ rc' \in {1, 2, rc}
          /\ rpc' \in {"barrier", "clear", "return", "asleep", rpc}
          /\ waiters' \in {{}, {RunLoop}, waiters, waiters \union {RunLoop}}
      BY <1>8, Zenon DEF RunDecide, Return, Broadcast, intVars
    <2>2. interrupt' \in BOOLEAN /\ interruptRequested' \in BOOLEAN
      BY <2>1, Zenon DEF TypeOK
    <2>3. /\ waiters' \subseteq Tids \union {RunLoop} /\ rpc' \in RunPC /\ rc' \in 0 .. 2
      BY <2>1 DEF TypeOK, RunPC
    <2>4. UNCHANGED <<flagVars, stop, nThreads, bindVars, ticks, cursor, poolVars, addVars, hostVars>>
      BY <1>8 DEF RunDecide
    <2> QED
      BY <2>2, <2>3, <2>4 DEF TypeOK, flagVars, intVars, bindVars, runVars, poolVars, addVars, hostVars
  <1>9. CASE RunAwake
    BY <1>9 DEF RunAwake, TypeOK, RunPC, flagVars, intVars, bindVars, runVars, poolVars, addVars, hostVars
  <1>10. CASE RunBarrier
    <2>1. /\ interrupt' \in {TRUE, FALSE, interrupt}
          /\ interruptRequested' \in {FALSE, interruptRequested}
          /\ rc' \in {1, 2, rc}
          /\ rpc' \in {"barrier", "clear", "return", "asleep", rpc}
          /\ waiters' \in {{}, {RunLoop}, waiters, waiters \union {RunLoop}}
      BY <1>10, Zenon DEF RunBarrier, intVars
    <2>2. interrupt' \in BOOLEAN /\ interruptRequested' \in BOOLEAN
      BY <2>1, Zenon DEF TypeOK
    <2>3. /\ waiters' \subseteq Tids \union {RunLoop} /\ rpc' \in RunPC /\ rc' \in 0 .. 2
      BY <2>1 DEF TypeOK, RunPC
    <2>4. UNCHANGED <<flagVars, stop, nThreads, bindVars, ticks, cursor, poolVars, addVars, hostVars>>
      BY <1>10 DEF RunBarrier
    <2> QED
      BY <2>2, <2>3, <2>4 DEF TypeOK, flagVars, intVars, bindVars, runVars, poolVars, addVars, hostVars
  <1>11. CASE RunClear
    BY <1>11 DEF RunClear, TypeOK, RunPC, flagVars, intVars, bindVars, runVars, poolVars, addVars, hostVars
  <1>12. CASE RunLower
    <2>1. rpc' = "return" /\ rc' = 2 /\ interrupt' = FALSE
      BY <1>12 DEF RunLower, Return
    <2>2. rpc' \in RunPC /\ rc' \in 0 .. 2
      BY <2>1 DEF RunPC
    <2>3. interrupt' \in BOOLEAN
      BY <2>1, Zenon
    <2>4. UNCHANGED <<flagVars, interruptRequested, stop, nThreads, bindVars, waiters, ticks, cursor,
                      poolVars, addVars, hostVars>>
      BY <1>12 DEF RunLower
    <2> QED
      BY <2>2, <2>3, <2>4 DEF TypeOK, flagVars, bindVars, poolVars, addVars, hostVars
  <1>13. CASE RunReturn
    BY <1>13 DEF RunReturn, TypeOK, RunPC, flagVars, intVars, bindVars, runVars, poolVars, addVars, hostVars
  <1>14. ASSUME NEW t \in Tids, TidTop(t) PROVE TypeOK'
    BY <1>14 DEF TidTop, Unbind, Goto, Broadcast, TypeOK, TidPC, flagVars, intVars, bindVars, runVars, poolVars, addVars, hostVars
  <1>15. ASSUME NEW t \in Tids, TidLoop(t) PROVE TypeOK'
    BY <1>15 DEF TidLoop, Goto, TypeOK, TidPC, flagVars, intVars, bindVars, runVars, poolVars, addVars, hostVars
  <1>16. ASSUME NEW t \in Tids, TidUnbind(t) PROVE TypeOK'
    <2>1. UNCHANGED <<flagVars, intVars, stop, nThreads, runVars, addVars, hostVars>>
      BY <1>16 DEF TidUnbind
    <2>2. tpc' \in [Tids -> TidPC] /\ lwid' \in [Tids -> Workers]
      BY <1>16, Bounds DEF TidUnbind, Goto, TypeOK, TidPC
    <2>3. /\ tidToWid' \in [Tids -> Workers \union {None}]
          /\ widToTid' \in [Workers -> Tids \union {None}]
          /\ waiters' \subseteq Tids \union {RunLoop}
      BY <1>16 DEF TidUnbind, Unbind, Broadcast, TypeOK, bindVars
    <2> QED
      BY <2>1, <2>2, <2>3 DEF TypeOK, flagVars, intVars, bindVars, runVars, poolVars, addVars, hostVars
  <1>17. ASSUME NEW t \in Tids, TidTick(t) PROVE TypeOK'
    BY <1>17, TickType DEF TidTick, TypeOK, flagVars, intVars, bindVars, runVars, poolVars, addVars, hostVars
  <1>18. ASSUME NEW t \in Tids, TidWake(t) PROVE TypeOK'
    BY <1>18 DEF TidWake, Goto, Broadcast, TypeOK, TidPC, flagVars, intVars, bindVars, runVars, poolVars, addVars, hostVars
  <1>19. ASSUME NEW t \in Tids, TidEnded(t) PROVE TypeOK'
    BY <1>19 DEF TidEnded, Goto, Broadcast, Workers, TypeOK, TidPC, flagVars, intVars, bindVars, runVars, poolVars, addVars, hostVars
  <1>20. CASE AddReserve
    BY <1>20 DEF AddReserve, Tids, TypeOK, flagVars, intVars, bindVars, runVars, poolVars, addVars, hostVars
  <1>21. CASE AddSpawn
    BY <1>21 DEF AddSpawn, Goto, TypeOK, TidPC, flagVars, intVars, bindVars, runVars, poolVars, addVars, hostVars
  <1>22. CASE AddSpawnFails
    <2>1. First(adding) \in Tids
      BY <1>22, FirstTid DEF AddSpawnFails, TypeOK
    <2>2. nThreads' \in 0 .. CapThreads
      BY <1>22, <2>1, Bounds DEF AddSpawnFails
    <2> QED
      BY <1>22, <2>2 DEF AddSpawnFails, TypeOK, flagVars, intVars, bindVars, runVars, poolVars, addVars, hostVars
  <1>23. CASE AddDone
    BY <1>23 DEF AddDone, Broadcast, TypeOK, flagVars, intVars, bindVars, runVars, poolVars, addVars, hostVars
  <1>24. ASSUME NEW p \in Producers, Push(p) PROVE TypeOK'
    BY <1>24 DEF Push, TypeOK, flagVars, intVars, bindVars, runVars, poolVars, addVars, hostVars
  <1>25. ASSUME NEW p \in Producers, PushWake(p) PROVE TypeOK'
    BY <1>25 DEF PushWake, Broadcast, TypeOK, flagVars, intVars, bindVars, runVars, poolVars, addVars, hostVars
  <1>26. ASSUME NEW i \in Interrupters, Interrupt(i) PROVE TypeOK'
    BY <1>26 DEF Interrupt, Broadcast, TypeOK, flagVars, intVars, bindVars, runVars, poolVars, addVars, hostVars
  <1>27. CASE StopKernel
    BY <1>27 DEF StopKernel, Broadcast, TypeOK, HostPC, RunPC, flagVars, intVars, bindVars, runVars, poolVars, addVars, hostVars
  <1>28. CASE StopProceeds
    BY <1>28 DEF StopProceeds, Broadcast, TypeOK, HostPC, RunPC, flagVars, intVars, bindVars, runVars, poolVars, addVars, hostVars
  <1>29. CASE StartKernel
    BY <1>29 DEF StartKernel, Broadcast, TypeOK, HostPC, RunPC, flagVars, intVars, bindVars, runVars, poolVars, addVars, hostVars
  <1>30. CASE Destroy
    BY <1>30 DEF Destroy, Broadcast, TypeOK, HostPC, RunPC, flagVars, intVars, bindVars, runVars, poolVars, addVars, hostVars
  <1>31. CASE Destroyed
    BY <1>31 DEF Destroyed, Broadcast, TypeOK, HostPC, RunPC, flagVars, intVars, bindVars, runVars, poolVars, addVars, hostVars
  <1>32. CASE SpuriousWake
    BY <1>32 DEF SpuriousWake, Broadcast, TypeOK, HostPC, RunPC, flagVars, intVars, bindVars, runVars, poolVars, addVars, hostVars
  <1>33. CASE UNCHANGED vars
    BY <1>33 DEF vars, TypeOK, flagVars, intVars, bindVars, runVars, poolVars, addVars, hostVars
  <1> QED
    BY <1>1, <1>2, <1>3, <1>4, <1>5, <1>6, <1>7, <1>8, <1>9, <1>10, <1>13, <1>14, <1>15, <1>16, <1>17, <1>18, <1>19, <1>20, <1>21, <1>22, <1>23, <1>24, <1>25, <1>26, <1>27, <1>28, <1>29, <1>30, <1>31, <1>32, <1>33, <1>11, <1>12
       DEF Next, RunNext, TidNext, AddNext, HostNext

\* Every variable keeps the type the code gives it: no array of the scheduler is indexed
\* outside its bounds, and n_threads never passes cap_threads.
THEOREM TypeCorrect == Spec => []TypeOK
  BY TypeInit, TypeStep, PTL DEF Spec
----------------------------------------------------------------------------
(* How a step can change the bindings                                      *)

LEMMA RunBindChange ==
    ASSUME TypeOK, RunBind
    PROVE  \/ UNCHANGED bindVars
           \/ \E t \in FreeTids, w \in Workers :
                 /\ Unbound(w)
                 /\ tidToWid' = [tidToWid EXCEPT ![t] = w]
                 /\ widToTid' = [widToTid EXCEPT ![w] = t]
                 /\ waiters' = {}
  <1>1. CASE UNCHANGED bindVars
    BY <1>1
  <1>2. CASE ~UNCHANGED bindVars
    <2>1. /\ cursor < NWorkers /\ FreeTids # {} /\ Unbound(cursor)
          /\ tidToWid' = [tidToWid EXCEPT ![First(FreeTids)] = cursor]
          /\ widToTid' = [widToTid EXCEPT ![cursor] = First(FreeTids)]
          /\ waiters' = {}
      BY <1>2, Zenon DEF RunBind, bindVars, Broadcast
    <2>2. First(FreeTids) \in FreeTids
      BY <2>1, FirstTid DEF FreeTids
    <2>3. cursor \in Workers
      BY <2>1, Bounds DEF TypeOK
    <2> QED
      BY <2>1, <2>2, <2>3
  <1> QED
    BY <1>1, <1>2

LEMMA TidTopChange ==
    ASSUME NEW t \in Tids, TidTop(t)
    PROVE  UNCHANGED bindVars \/ (Unbind(t) /\ UNCHANGED poolVars /\ waiters' = {})
  BY Zenon DEF TidTop, Broadcast

LEMMA TidUnbindChange ==
    ASSUME NEW t \in Tids, TidUnbind(t)
    PROVE  UNCHANGED bindVars \/ (Unbind(t) /\ waiters' = {})
  BY Zenon DEF TidUnbind, Broadcast

LEMMA UnbindInverse ==
    ASSUME TypeOK, BindingsInverse, NEW t \in Tids, Unbind(t)
    PROVE  BindingsInverse'
  <1>1. tidToWid' = [tidToWid EXCEPT ![t] = None]
    BY DEF Unbind
  <1>2. None \notin Workers /\ None \notin Tids
    BY Bounds DEF None
  <1>3. CASE tidToWid[t] = None
    BY <1>1, <1>2, <1>3 DEF Unbind, TypeOK, BindingsInverse
  <1>4. CASE tidToWid[t] # None
    <2>1. tidToWid[t] \in Workers /\ widToTid' = [widToTid EXCEPT ![tidToWid[t]] = None]
      BY <1>4 DEF Unbind, TypeOK
    <2>2. ASSUME NEW u \in Tids, NEW w \in Workers
          PROVE  (tidToWid'[u] = w) <=> (widToTid'[w] = u)
      BY <1>1, <1>2, <2>1 DEF TypeOK, BindingsInverse
    <2> QED
      BY <2>2 DEF BindingsInverse
  <1> QED
    BY <1>3, <1>4

LEMMA OtherKeepsBindings ==
    ASSUME NEW t \in Tids,
           \/ RunReady \/ RunEnter \/ RunEntered \/ RunUpfront \/ RunTop \/ RunLock
           \/ RunDecide \/ RunAwake \/ RunBarrier \/ RunClear \/ RunLower \/ RunReturn
           \/ TidLoop(t) \/ TidTick(t) \/ TidWake(t) \/ TidEnded(t)
           \/ AddNext \/ HostNext \/ SpuriousWake
           \/ \E p \in Producers : Push(p) \/ PushWake(p)
           \/ \E i \in Interrupters : Interrupt(i)
           \/ UNCHANGED vars
    PROVE  UNCHANGED bindVars
  <1>1. CASE RunReady \/ RunEnter \/ RunEntered \/ RunUpfront \/ RunTop \/ RunLock
    BY <1>1, Zenon DEF RunReady, RunEnter, RunEntered, RunUpfront, RunTop, RunLock
  <1>2. CASE RunDecide \/ RunAwake \/ RunBarrier \/ RunClear \/ RunLower \/ RunReturn
    BY <1>2, Zenon DEF RunDecide, RunAwake, RunBarrier, RunClear, RunLower, RunReturn
  <1>3. CASE TidLoop(t) \/ TidTick(t) \/ TidWake(t) \/ TidEnded(t)
    BY <1>3, Zenon DEF TidLoop, TidTick, TidWake, TidEnded
  <1>4. CASE AddNext \/ HostNext \/ SpuriousWake
    BY <1>4, Zenon DEF AddNext, AddReserve, AddSpawn, AddSpawnFails, AddDone, HostNext,
       StopKernel, StopProceeds, StartKernel, Destroy, Destroyed, SpuriousWake
  <1>5. CASE (\E p \in Producers : Push(p) \/ PushWake(p)) \/ (\E i \in Interrupters : Interrupt(i))
    BY <1>5, Zenon DEF Push, PushWake, Interrupt
  <1>6. CASE UNCHANGED vars
    BY <1>6 DEF vars
  <1> QED
    BY <1>1, <1>2, <1>3, <1>4, <1>5, <1>6

LEMMA BindingsStep == TypeOK /\ BindingsInverse /\ [Next]_vars => BindingsInverse'
  <1> SUFFICES ASSUME TypeOK, BindingsInverse, [Next]_vars PROVE BindingsInverse'
    OBVIOUS
  <1>1. CASE UNCHANGED bindVars
    BY <1>1 DEF bindVars, BindingsInverse
  <1>2. CASE RunBind
    <2>1. CASE UNCHANGED bindVars
      BY <2>1, <1>1
    <2>2. ASSUME NEW t \in FreeTids, NEW w \in Workers, Unbound(w),
                 tidToWid' = [tidToWid EXCEPT ![t] = w],
                 widToTid' = [widToTid EXCEPT ![w] = t]
          PROVE  BindingsInverse'
      <3>1. t \in Tids /\ tidToWid[t] = None /\ widToTid[w] = None
        BY <2>2 DEF FreeTids, Unbound
      <3>2. None \notin Workers /\ None \notin Tids
        BY Bounds DEF None
      <3>3. ASSUME NEW u \in Tids, NEW v \in Workers
            PROVE  (tidToWid'[u] = v) <=> (widToTid'[v] = u)
        BY <2>2, <3>1, <3>2 DEF TypeOK, BindingsInverse
      <3> QED
        BY <3>3 DEF BindingsInverse
    <2> QED
      BY <1>2, <2>1, <2>2, RunBindChange
  <1>3. ASSUME NEW t \in Tids, TidTop(t) \/ TidUnbind(t) PROVE BindingsInverse'
    BY <1>1, <1>3, TidTopChange, TidUnbindChange, UnbindInverse
  <1>4. 0 \in Tids
    BY Bounds
  <1> QED
    BY <1>1, <1>2, <1>3, <1>4, OtherKeepsBindings DEF Next, RunNext, TidNext

----------------------------------------------------------------------------
(* A thread that serves a worker is bound to it                            *)

\* A step in which no thread moves and none that serves is unbound.
LEMMA ServingKept ==
    ASSUME ServingBound, UNCHANGED poolVars,
           \A t \in Tids : Serving(t) => tidToWid'[t] = tidToWid[t]
    PROVE  ServingBound'
  BY DEF ServingBound, Serving, poolVars

\* A step in which one thread moves and bindings stay.
LEMMA ServingMoves ==
    ASSUME TypeOK, ServingBound, NEW t \in Tids, UNCHANGED bindVars, NEW pc, NEW w,
           tpc' = [tpc EXCEPT ![t] = pc], lwid' = [lwid EXCEPT ![t] = w],
           pc \in {"loop", "exec", "wake", "unbind", "ended"} => tidToWid[t] = w
    PROVE  ServingBound'
  BY DEF TypeOK, ServingBound, Serving, bindVars

LEMMA ServingStep == TypeOK /\ ServingBound /\ [Next]_vars => ServingBound'
  <1> SUFFICES ASSUME TypeOK, ServingBound, [Next]_vars PROVE ServingBound'
    OBVIOUS
  <1>1. CASE UNCHANGED poolVars /\ UNCHANGED bindVars
    BY <1>1, ServingKept DEF bindVars
  <1>2. CASE RunBind
    <2>1. UNCHANGED poolVars
      BY <1>2 DEF RunBind
    <2>2. ASSUME NEW t \in FreeTids, NEW w \in Workers,
                 tidToWid' = [tidToWid EXCEPT ![t] = w]
          PROVE  ServingBound'
      <3>1. \A u \in Tids : Serving(u) => u # t
        BY <2>2, Bounds DEF FreeTids, ServingBound, TypeOK, None
      <3>2. \A u \in Tids : Serving(u) => tidToWid'[u] = tidToWid[u]
        BY <2>2, <3>1 DEF TypeOK
      <3> QED
        BY <2>1, <3>2, ServingKept
    <2> QED
      BY <1>1, <1>2, <2>1, <2>2, RunBindChange
  <1>3. ASSUME NEW t \in Tids, TidTop(t) PROVE ServingBound'
    <2>1. tpc[t] = "top"
      BY <1>3 DEF TidTop
    <2>2. CASE UNCHANGED poolVars
      <3>1. \A u \in Tids : Serving(u) => u # t
        BY <2>1 DEF Serving
      <3>2. \A u \in Tids : Serving(u) => tidToWid'[u] = tidToWid[u]
        BY <1>3, <3>1, TidTopChange DEF Unbind, TypeOK, bindVars
      <3> QED
        BY <2>2, <3>2, ServingKept
    <2>3. CASE ~UNCHANGED poolVars
      <3>1. UNCHANGED bindVars
        BY <1>3, <2>3, TidTopChange
      <3>2. \/ tpc' = [tpc EXCEPT ![t] = "exit"] /\ UNCHANGED lwid
            \/ tpc' = [tpc EXCEPT ![t] = "loop"] /\ lwid' = [lwid EXCEPT ![t] = tidToWid[t]]
        BY <1>3, <2>3 DEF TidTop, Goto
      <3>3. CASE tpc' = [tpc EXCEPT ![t] = "exit"] /\ UNCHANGED lwid
        BY <3>1, <3>3, ServingMoves DEF TypeOK
      <3>4. CASE tpc' = [tpc EXCEPT ![t] = "loop"] /\ lwid' = [lwid EXCEPT ![t] = tidToWid[t]]
        BY <3>1, <3>4, ServingMoves
      <3> QED
        BY <3>2, <3>3, <3>4
    <2> QED
      BY <2>2, <2>3
  <1>4. ASSUME NEW t \in Tids, TidUnbind(t) PROVE ServingBound'
    <2>1. tpc' = [tpc EXCEPT ![t] = "top"] /\ lwid' = [lwid EXCEPT ![t] = 0]
      BY <1>4 DEF TidUnbind, Goto
    <2>2. \A u \in Tids : u # t => tidToWid'[u] = tidToWid[u]
      BY <1>4, TidUnbindChange DEF Unbind, TypeOK, bindVars
    <2> QED
      BY <2>1, <2>2 DEF ServingBound, Serving, TypeOK
  <1>5. ASSUME NEW t \in Tids, TidLoop(t) \/ TidTick(t) \/ TidWake(t) \/ TidEnded(t)
        PROVE  ServingBound'
    <2>1. UNCHANGED bindVars /\ Serving(t)
      BY <1>5, OtherKeepsBindings DEF TidLoop, TidTick, TidWake, TidEnded, Serving
    <2>2. \/ UNCHANGED lwid /\ \E pc : tpc' = [tpc EXCEPT ![t] = pc]
          \/ tpc' = [tpc EXCEPT ![t] = "top"] /\ lwid' = [lwid EXCEPT ![t] = 0]
      BY <1>5, Zenon DEF TidLoop, TidTick, TidWake, TidEnded, Goto
    <2>3. CASE UNCHANGED lwid /\ \E pc : tpc' = [tpc EXCEPT ![t] = pc]
      BY <2>1, <2>3 DEF ServingBound, Serving, TypeOK, bindVars
    <2>4. CASE tpc' = [tpc EXCEPT ![t] = "top"] /\ lwid' = [lwid EXCEPT ![t] = 0]
      BY <2>1, <2>4 DEF ServingBound, Serving, TypeOK, bindVars
    <2> QED
      BY <2>2, <2>3, <2>4
  <1>6. CASE AddSpawn
    <2>1. UNCHANGED bindVars /\ UNCHANGED lwid /\ tpc' = [tpc EXCEPT ![First(adding)] = "top"]
      BY <1>6, Zenon DEF AddSpawn, Goto
    <2> QED
      BY <2>1 DEF ServingBound, Serving, TypeOK, bindVars
  <1>7. CASE RunNext /\ ~RunBind
    BY <1>1, <1>7, Zenon DEF RunNext, RunReady, RunEnter, RunEntered, RunUpfront, RunTop, RunLock,
       RunDecide, RunAwake, RunBarrier, RunClear, RunLower, RunReturn
  <1>8. CASE (AddNext /\ ~AddSpawn) \/ HostNext \/ SpuriousWake
    BY <1>1, <1>8, Zenon DEF AddNext, AddReserve, AddSpawnFails, AddDone, HostNext,
       StopKernel, StopProceeds, StartKernel, Destroy, Destroyed, SpuriousWake
  <1>9. CASE (\E p \in Producers : Push(p) \/ PushWake(p)) \/ (\E i \in Interrupters : Interrupt(i))
    BY <1>1, <1>9, Zenon DEF Push, PushWake, Interrupt
  <1>10. CASE UNCHANGED vars
    BY <1>1, <1>10 DEF vars
  <1> QED
    BY <1>2, <1>3, <1>4, <1>5, <1>6, <1>7, <1>8, <1>9, <1>10 DEF Next, TidNext
----------------------------------------------------------------------------
(* A sleeping thread has no work                                           *)

LEMMA SleepKept ==
    ASSUME NoSleepOnWork, waiters' \subseteq waiters \union {RunLoop},
           UNCHANGED bindVars, UNCHANGED stop
    PROVE  NoSleepOnWork'
  BY DEF NoSleepOnWork, bindVars

LEMMA SleepStep == TypeOK /\ NoSleepOnWork /\ [Next]_vars => NoSleepOnWork'
  <1> SUFFICES ASSUME TypeOK, NoSleepOnWork, [Next]_vars PROVE NoSleepOnWork'
    OBVIOUS
  <1>1. CASE waiters' = {}
    BY <1>1 DEF NoSleepOnWork
  <1>2. CASE RunBind
    <2>1. waiters' \subseteq waiters /\ UNCHANGED stop
      BY <1>2, Zenon DEF RunBind, Broadcast
    <2> QED
      BY <1>1, <1>2, <2>1, RunBindChange, SleepKept
  <1>3. CASE RunNext /\ ~RunBind
    <2>1. /\ UNCHANGED bindVars /\ UNCHANGED stop
          /\ waiters' \in {{}, {RunLoop}, waiters, waiters \union {RunLoop}}
      BY <1>3, Zenon DEF RunNext, RunReady, RunEnter, RunEntered, RunUpfront, RunTop, RunLock,
         RunDecide, RunAwake, RunBarrier, RunClear, RunLower, RunReturn, DrainAll, DrainStuck, Broadcast
    <2> QED
      BY <2>1, SleepKept
  <1>4. ASSUME NEW t \in Tids, TidTop(t) PROVE NoSleepOnWork'
    <2>1. UNCHANGED stop
      BY <1>4 DEF TidTop
    <2>2. \/ waiters' = {}
          \/ UNCHANGED bindVars /\ UNCHANGED waiters
          \/ UNCHANGED bindVars /\ ~stop /\ tidToWid[t] = None /\ waiters' = waiters \union {t}
      BY <1>4, Zenon DEF TidTop, Broadcast
    <2>3. CASE UNCHANGED bindVars /\ UNCHANGED waiters
      BY <2>1, <2>3, SleepKept
    <2>4. CASE UNCHANGED bindVars /\ ~stop /\ tidToWid[t] = None /\ waiters' = waiters \union {t}
      BY <2>1, <2>4 DEF NoSleepOnWork, bindVars
    <2> QED
      BY <1>1, <2>2, <2>3, <2>4
  <1>5. ASSUME NEW t \in Tids, TidUnbind(t) PROVE NoSleepOnWork'
    <2>1. UNCHANGED stop /\ waiters' \in {{}, waiters}
      BY <1>5, Zenon DEF TidUnbind, Broadcast
    <2>2. waiters' = {} \/ UNCHANGED bindVars
      BY <1>5, TidUnbindChange
    <2> QED
      BY <1>1, <2>1, <2>2, SleepKept
  <1>6. ASSUME NEW t \in Tids, TidLoop(t) \/ TidTick(t) \/ TidWake(t) \/ TidEnded(t)
        PROVE  NoSleepOnWork'
    <2>1. waiters' = {} \/ (UNCHANGED waiters /\ UNCHANGED stop /\ UNCHANGED bindVars)
      BY <1>6, Zenon DEF TidLoop, TidTick, TidWake, TidEnded, Broadcast
    <2> QED
      BY <1>1, <2>1, SleepKept
  <1>7. CASE AddNext \/ HostNext \/ SpuriousWake
    <2>1. \/ waiters' = {}
          \/ waiters' \subseteq waiters /\ UNCHANGED stop /\ UNCHANGED bindVars
      BY <1>7, Zenon DEF AddNext, AddReserve, AddSpawn, AddSpawnFails, AddDone, HostNext, Broadcast,
         StopKernel, StopProceeds, StartKernel, Destroy, Destroyed, SpuriousWake
    <2> QED
      BY <1>1, <2>1, SleepKept
  <1>8. CASE (\E p \in Producers : Push(p) \/ PushWake(p)) \/ (\E i \in Interrupters : Interrupt(i))
    <2>1. waiters' \in {{}, waiters} /\ UNCHANGED stop /\ UNCHANGED bindVars
      BY <1>8, Zenon DEF Push, PushWake, Interrupt, Broadcast
    <2> QED
      BY <2>1, SleepKept
  <1>9. CASE UNCHANGED vars
    BY <1>9, SleepKept DEF vars
  <1> QED
    BY <1>2, <1>3, <1>4, <1>5, <1>6, <1>7, <1>8, <1>9 DEF Next, TidNext

----------------------------------------------------------------------------
(* From a yield on every thread is idle                                    *)

LEMMA JoinedStep == HostJoined /\ [Next]_vars => HostJoined'
  <1> SUFFICES ASSUME HostJoined, [Next]_vars PROVE HostJoined'
    OBVIOUS
  <1>1. CASE UNCHANGED <<rpc, hpc>>
    BY <1>1 DEF HostJoined
  <1>2. CASE RunNext
    <2>1. rpc # "done" /\ UNCHANGED hpc
      BY <1>2, Zenon DEF RunNext, RunReady, RunEnter, RunEntered, RunUpfront, RunTop, RunLock,
         RunBind, RunDecide, RunAwake, RunBarrier, RunClear, RunLower, RunReturn, hostVars
    <2> QED
      BY <2>1 DEF HostJoined
  <1>3. CASE HostNext
    <2>1. UNCHANGED rpc \/ StartKernel
      BY <1>3, Zenon DEF HostNext, StopKernel, StopProceeds, Destroy, Destroyed, runVars
    <2>2. CASE StartKernel
      BY <2>2 DEF StartKernel, HostJoined
    <2>3. CASE UNCHANGED rpc
      BY <1>3, <2>2, <2>3 DEF HostNext, StopKernel, StopProceeds, Destroy, Destroyed, HostJoined
    <2> QED
      BY <2>1, <2>2, <2>3
  <1>4. ASSUME NEW t \in Tids, TidNext(t) PROVE HostJoined'
    BY <1>1, <1>4, Zenon DEF TidNext, TidTop, TidLoop, TidUnbind, TidTick, TidWake, TidEnded,
       runVars, hostVars
  <1>5. CASE AddNext \/ SpuriousWake \/ UNCHANGED vars
    BY <1>1, <1>5, Zenon DEF AddNext, AddReserve, AddSpawn, AddSpawnFails, AddDone, SpuriousWake,
       runVars, hostVars, vars
  <1>6. CASE (\E p \in Producers : Push(p) \/ PushWake(p)) \/ (\E i \in Interrupters : Interrupt(i))
    BY <1>1, <1>6, Zenon DEF Push, PushWake, Interrupt, runVars
  <1> QED
    BY <1>2, <1>3, <1>4, <1>5, <1>6 DEF Next

\* What a step may do to the pool while the kernel has yielded, when no spawn fails.
LEMMA BoundStep ==
    ASSUME TypeOK, BoundBelow, "nospawn" \notin Ops, [Next]_vars
    PROVE  BoundBelow' /\ (\A t \in Tids : tidToWid'[t] # None /\ tidToWid[t] = None => RunBind)
  <1>1. nThreads \in Int /\ nThreads' \in Int
    BY TypeStep DEF TypeOK
  <1>2. nThreads' >= nThreads
    <2>1. CASE AddReserve
      BY <2>1 DEF AddReserve, TypeOK
    <2>2. CASE ~AddReserve
      <3>1. UNCHANGED nThreads
        BY <2>2, Zenon DEF Next, RunNext, TidNext, AddNext, HostNext, RunReady, RunEnter, RunEntered,
           RunUpfront, RunTop, RunLock, RunBind, RunDecide, RunAwake, RunBarrier, RunClear, RunLower, RunReturn,
           TidTop, TidLoop, TidUnbind, TidTick, TidWake, TidEnded, AddSpawn, AddSpawnFails, AddDone,
           StopKernel, StopProceeds, StartKernel, Destroy, Destroyed, SpuriousWake, Push, PushWake,
           Interrupt, vars
      <3> QED
        BY <3>1 DEF TypeOK
    <2> QED
      BY <2>1, <2>2
  <1>3. CASE UNCHANGED bindVars
    BY <1>1, <1>2, <1>3, Bounds DEF BoundBelow, bindVars
  <1>4. ASSUME NEW t \in Tids, Unbind(t) PROVE
           BoundBelow' /\ \A u \in Tids : tidToWid'[u] # None => tidToWid[u] # None
    BY <1>1, <1>2, <1>4, Bounds DEF BoundBelow, TypeOK, Unbind
  <1>5. CASE RunBind
    <2>1. ASSUME NEW t \in FreeTids, NEW w \in Workers, tidToWid' = [tidToWid EXCEPT ![t] = w]
          PROVE  BoundBelow'
      BY <1>1, <1>2, <2>1, Bounds DEF BoundBelow, FreeTids, TypeOK
    <2> QED
      BY <1>3, <1>5, <2>1, RunBindChange
  <1>6. ASSUME NEW t \in Tids, TidTop(t) \/ TidUnbind(t)
        PROVE  UNCHANGED bindVars \/ Unbind(t)
    BY <1>6, TidTopChange, TidUnbindChange
  <1>7. 0 \in Tids
    BY Bounds
  <1>8. UNCHANGED bindVars \/ RunBind \/ \E t \in Tids : Unbind(t)
    BY <1>6, <1>7, OtherKeepsBindings DEF Next, RunNext, TidNext
  <1> QED
    BY <1>3, <1>4, <1>5, <1>8 DEF bindVars

\* A yield begins only where cpu_run saw every thread idle, or the pool stopped.
LEMMA YieldStep ==
    ASSUME TypeOK, HostJoined, [Next]_vars, Yielding', ~stop'
    PROVE  ~RunBind /\ ~stop /\ (Yielding \/ AllIdle)
  <1>1. ~RunBind
    BY DEF RunBind, Yielding, Yielded
  <1>2. ~stop
    <2>1. stop' = stop \/ stop' = TRUE
      BY Zenon DEF Next, RunNext, TidNext, AddNext, HostNext, RunReady, RunEnter, RunEntered,
         RunUpfront, RunTop, RunLock, RunBind, RunDecide, RunAwake, RunBarrier, RunClear, RunLower, RunReturn,
         TidTop, TidLoop, TidUnbind, TidTick, TidWake, TidEnded, AddReserve, AddSpawn, AddSpawnFails,
         AddDone, StopKernel, StopProceeds, StartKernel, Destroy, Destroyed, SpuriousWake, Push,
         PushWake, Interrupt, vars
    <2> QED
      BY <2>1
  <1>3. Yielding \/ AllIdle
    <2>1. CASE UNCHANGED <<rpc, rc>>
      BY <2>1 DEF Yielding, Yielded
    <2>2. CASE RunNext
      <3>1. CASE RunReady \/ RunEnter \/ RunEntered \/ RunReturn \/ RunClear \/ RunLower
        BY <3>1 DEF RunReady, RunEnter, RunEntered, RunReturn, RunClear, RunLower, Yielding, Yielded
      <3>2. CASE RunUpfront \/ RunTop \/ RunLock \/ RunAwake
        <4>1. rpc' \in {"top", "lock", "bind", "decide"} \/ (rc' = 0 /\ rpc' = "return")
          BY <3>2, Zenon DEF RunUpfront, RunTop, RunLock, RunAwake, Return
        <4> QED
          BY <4>1 DEF Yielding, Yielded
      <3>3. CASE RunDecide
        <4>1. rpc' \in {"barrier", "asleep"} \/ stop \/ AllIdle
          BY <3>3, Zenon DEF RunDecide
        <4> QED
          BY <1>2, <4>1 DEF Yielding, Yielded
      <3>4. CASE RunBarrier
        <4>1. rpc' = "barrier" \/ stop \/ AllIdle
          BY <3>4, Zenon DEF RunBarrier
        <4> QED
          BY <1>2, <4>1 DEF Yielding, Yielded
      <3> QED
        BY <1>1, <2>2, <3>1, <3>2, <3>3, <3>4 DEF RunNext
    <2>3. CASE HostNext
      <3>1. CASE StartKernel
        BY <3>1 DEF StartKernel, HostJoined, Yielding, Yielded
      <3>2. CASE ~StartKernel
        BY <2>1, <2>3, <3>2, Zenon DEF HostNext, StopKernel, StopProceeds, Destroy, Destroyed, runVars
      <3> QED
        BY <3>1, <3>2
    <2>4. ASSUME NEW t \in Tids, TidNext(t) PROVE UNCHANGED <<rpc, rc>>
      BY <2>4, Zenon DEF TidNext, TidTop, TidLoop, TidUnbind, TidTick, TidWake, TidEnded, runVars
    <2>5. CASE AddNext \/ SpuriousWake \/ UNCHANGED vars
      BY <2>1, <2>5, Zenon DEF AddNext, AddReserve, AddSpawn, AddSpawnFails, AddDone, SpuriousWake,
         runVars, vars
    <2>6. CASE (\E p \in Producers : Push(p) \/ PushWake(p)) \/ (\E i \in Interrupters : Interrupt(i))
      BY <2>1, <2>6, Zenon DEF Push, PushWake, Interrupt, runVars
    <2> QED
      BY <2>1, <2>2, <2>3, <2>4, <2>5, <2>6 DEF Next
  <1> QED
    BY <1>1, <1>2, <1>3

LEMMA SpawnStep == TypeOK /\ HostJoined /\ SpawnInv /\ [Next]_vars => SpawnInv'
  <1> SUFFICES ASSUME TypeOK, HostJoined, SpawnInv, [Next]_vars, "nospawn" \notin Ops
               PROVE  BoundBelow' /\ (Yielding' /\ ~stop' => AllIdle')
    BY DEF SpawnInv
  <1>1. BoundBelow
    BY DEF SpawnInv
  <1>2. BoundBelow' /\ \A t \in Tids : tidToWid'[t] # None /\ tidToWid[t] = None => RunBind
    BY <1>1, BoundStep
  <1>3. ASSUME Yielding', ~stop' PROVE AllIdle'
    <2>1. AllIdle /\ ~RunBind
      BY <1>3, YieldStep DEF SpawnInv
    <2>2. \A t \in Tids : tidToWid[t] = None
      BY <1>1, <2>1 DEF AllIdle, BoundBelow
    <2> QED
      BY <1>2, <2>1, <2>2 DEF AllIdle
  <1> QED
    BY <1>2, <1>3

----------------------------------------------------------------------------
(* The invariant and what it gives                                         *)

LEMMA IInvInit == Init => IInv
  <1> SUFFICES ASSUME Init PROVE IInv
    OBVIOUS
  <1>1. TypeOK
    BY TypeInit
  <1>2. None \notin Workers /\ None \notin Tids
    BY Bounds DEF None
  <1>3. BindingsInverse
    BY <1>2 DEF Init, BindingsInverse
  <1>4. ServingBound /\ NoSleepOnWork /\ HostJoined
    BY DEF Init, ServingBound, Serving, NoSleepOnWork, HostJoined
  <1>5. SpawnInv
    BY DEF Init, SpawnInv, BoundBelow, Yielding, AllIdle
  <1> QED
    BY <1>1, <1>3, <1>4, <1>5 DEF IInv

LEMMA IInvStep == IInv /\ [Next]_vars => IInv'
  BY TypeStep, BindingsStep, ServingStep, SleepStep, JoinedStep, SpawnStep DEF IInv

\* The inductive invariant itself.
THEOREM Invariance == Spec => []IInv
  BY IInvInit, IInvStep, PTL DEF Spec

\* tid_to_wid and wid_to_tid stay inverse to each other.
THEOREM BindingsTheorem == Spec => []BindingsInverse
  <1>1. IInv => BindingsInverse
    BY DEF IInv
  <1> QED
    BY <1>1, Invariance, PTL

\* No two pool threads run the same worker, whatever the instructions and the hosts do,
\* and even when a spawn fails: lwid[t] = tidToWid[t] for a thread that serves, and the
\* binding of a worker names one thread.
THEOREM OneThreadPerWorkerTheorem == Spec => []OneThreadPerWorker
  <1>1. IInv => OneThreadPerWorker
    BY DEF IInv, TypeOK, BindingsInverse, ServingBound, OneThreadPerWorker
  <1> QED
    BY <1>1, Invariance, PTL

\* No pool thread sleeps on work: every binding and every stop is broadcast in time.
THEOREM NoSleepOnWorkTheorem == Spec => []NoSleepOnWork
  <1>1. IInv => NoSleepOnWork
    BY DEF IInv
  <1> QED
    BY <1>1, Invariance, PTL

\* Unless a spawn fails, a kernel that has yielded has no worker inside a tick.
THEOREM QuiescentTheorem == ASSUME "nospawn" \notin Ops PROVE Spec => []Quiescent
  <1>1. IInv => Quiescent
    <2> SUFFICES ASSUME IInv, Yielded, ~stop, NEW t \in Tids, Serving(t) PROVE FALSE
      BY DEF Quiescent
    <2>1. tidToWid[t] = lwid[t] /\ lwid[t] \in Workers
      BY DEF IInv, ServingBound, TypeOK
    <2>2. tidToWid[t] # None
      BY <2>1, Bounds DEF None
    <2>3. t < nThreads => tidToWid[t] = None
      BY DEF IInv, SpawnInv, Yielding, AllIdle
    <2>4. t < nThreads
      BY <2>2 DEF IInv, SpawnInv, BoundBelow
    <2> QED
      BY <2>2, <2>3, <2>4
  <1> QED
    BY <1>1, Invariance, PTL
=============================================================================
