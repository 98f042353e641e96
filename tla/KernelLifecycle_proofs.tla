----------------------- MODULE KernelLifecycle_proofs -----------------------
(***************************************************************************)
(* Theorems about KernelLifecycle, for a bundle of any number of kernels   *)
(* with any number of pool threads, any of them privileged, and programs   *)
(* of any of its instructions.                                             *)
(***************************************************************************)
EXTENDS KernelLifecycle, TLAPS

----------------------------------------------------------------------------
(* The inductive invariant                                                 *)

\* What the place of the host says of the entry it is at.
HostInv ==
    /\ \A k \in Kernels : ~started[k] => Over(k) \/ (hpc \in {"note", "settle"} /\ hk = k)
    /\ \A k \in Kernels : started[k] => pc[k] # "none" \/ (hpc = "settle" /\ hk = k)
    /\ hpc \in {"create", "settle", "free"} => Over(hk)
    /\ hpc \in {"note", "raise", "join"} => pc[hk] # "none"
    /\ destroying => hpc \in {"test", "raise", "join", "settle", "free", "gone"}
    /\ hpc \in {"test", "free", "gone"} => destroying

\* Outside its run a kernel whose last run yielded, and whose pool was not stopped, has its pool
\* threads back.
QuietInv ==
    \A k \in Kernels : pool[k] /\ rc[k] = 2 /\ pc[k] \notin {"loop", "barrier"} => AllIdle(k)

\* What was destroyed is over; and nobody is there to use it, and it is listed nowhere, if all
\* kernels had been stopped before.
FreedInv ==
    /\ ~destroying => freed = {}
    /\ freed = {} => ~misused
    /\ \A k \in freed : Over(k)
    /\ destroying /\ orderly =>
          /\ ~misused
          /\ \A k \in Kernels : Over(k) /\ AllIdle(k)
          /\ \A k \in freed : k \notin registered \union process

\* Only a run stores that its kernel is running, and what it stores last is something else.
RunningInv ==
    \A k \in Kernels :
        status[k] = "running" => pc[k] \in {"entry", "loop", "barrier", "relook", "final"}

IInv == TypeOK /\ HostInv /\ QuietInv /\ FreedInv /\ RunningInv

LEMMA OneKernel == 1 \in Kernels /\ N \in Nat
  BY LifecycleConstants DEF Kernels

LEMMA InitInv == Init => IInv
  <1> SUFFICES ASSUME Init PROVE IInv
    OBVIOUS
  <1>1. TypeOK
    <2>1. /\ registered \subseteq Kernels /\ process \subseteq Kernels /\ freed \subseteq Kernels
          /\ hpc \in HostPC /\ hk \in Kernels /\ destroying \in BOOLEAN
          /\ orderly \in BOOLEAN /\ misused \in BOOLEAN
      BY OneKernel DEF Init, HostPC
    <2>2. /\ status \in [Kernels -> Status] /\ pc \in [Kernels -> ThreadPC]
          /\ rc \in [Kernels -> {0, 2}] /\ op \in [Threads -> OpStep]
      BY DEF Init, Status, ThreadPC, OpStep
    <2>3. /\ todo \in [Threads -> SUBSET Kernels]
          /\ \A t \in Threads : todo[t] = {} <=> op[t] \in {"free", "tick"}
      BY DEF Init
    <2>4. /\ started \in [Kernels -> BOOLEAN] /\ stopRequested \in [Kernels -> BOOLEAN]
          /\ interrupt \in [Kernels -> BOOLEAN] /\ alive \in [Kernels -> BOOLEAN]
          /\ pool \in [Kernels -> BOOLEAN] /\ lost \in [Kernels -> BOOLEAN]
      BY DEF Init
    <2> QED
      BY <2>1, <2>2, <2>3, <2>4 DEF TypeOK
  <1>2. HostInv /\ QuietInv /\ FreedInv /\ RunningInv
    BY DEF Init, HostInv, QuietInv, FreedInv, RunningInv, Over, AllIdle
  <1> QED
    BY <1>1, <1>2 DEF IInv

----------------------------------------------------------------------------
(* The threads of the kernels                                              *)

\* What a step of a module thread leaves alone, and what it may do to its entry.
ThreadMoves(k) ==
    /\ ~Over(k)
    /\ pc' \in [Kernels -> ThreadPC] /\ pc'[k] # "none"
    /\ \A j \in Kernels \ {k} : pc'[j] = pc[j] /\ rc'[j] = rc[j]
    /\ pc[k] \in {"loop", "barrier"} /\ pc'[k] \notin {"loop", "barrier"} =>
          rc'[k] = 0 \/ ~pool[k] \/ AllIdle(k)
    /\ pc[k] \notin {"loop", "barrier"} => rc'[k] = rc[k]
    /\ started' \in [Kernels -> BOOLEAN]
    /\ \A j \in Kernels : started'[j] <=> started[j] /\ ~(j = k /\ pc'[k] = "ended")
    /\ status' \in [Kernels -> Status] /\ interrupt' \in [Kernels -> BOOLEAN]
    /\ rc' \in [Kernels -> {0, 2}] /\ lost' \in [Kernels -> BOOLEAN]
    /\ RunningInv'
    /\ UNCHANGED <<tableVars, stopRequested, alive, pool, opVars, hostVars, freed, orderly,
                   misused>>

LEMMA ThreadActs ==
    ASSUME IInv, NEW k \in Kernels, Thread(k) \/ RunFail(k)
    PROVE  ThreadMoves(k)
  <1> USE DEF IInv, TypeOK, RunningInv, ThreadMoves, Goto, Over, ThreadPC, Status,
              tableVars, entryVars, opVars, hostVars, ghosts
  <1>1. CASE ThreadTop(k)
    BY <1>1 DEF ThreadTop
  <1>2. CASE RunLook(k)
    BY <1>2 DEF RunLook
  <1>3. CASE RunSet(k)
    BY <1>3 DEF RunSet
  <1>4. CASE RunEntry(k)
    BY <1>4 DEF RunEntry
  <1>5. CASE RunSees(k)
    BY <1>5 DEF RunSees
  <1>6. CASE RunYield(k)
    BY <1>6 DEF RunYield
  <1>7. CASE RunFail(k)
    BY <1>7 DEF RunFail
  <1>8. CASE RunRelook(k)
    BY <1>8 DEF RunRelook
  <1>9. CASE RunFinal(k)
    BY <1>9 DEF RunFinal
  <1>10. CASE ThreadTail(k)
    BY <1>10 DEF ThreadTail
  <1>11. CASE ThreadClear(k)
    BY <1>11 DEF ThreadClear
  <1> QED
    BY <1>1, <1>2, <1>3, <1>4, <1>5, <1>6, <1>7, <1>8, <1>9, <1>10, <1>11 DEF Thread

LEMMA ThreadStep ==
    ASSUME IInv, NEW k \in Kernels, ThreadMoves(k)
    PROVE  IInv'
  <1> USE DEF IInv
  <1>1. /\ pc \in [Kernels -> ThreadPC] /\ started \in [Kernels -> BOOLEAN]
        /\ pc'[k] # "none" /\ \A j \in Kernels \ {k} : pc'[j] = pc[j] /\ rc'[j] = rc[j]
        /\ \A j \in Kernels : started'[j] <=> started[j] /\ ~(j = k /\ pc'[k] = "ended")
        /\ ~Over(k)
        /\ UNCHANGED <<registered, process, pool, op, todo, hpc, hk, destroying, freed, orderly,
                       misused>>
    BY DEF TypeOK, ThreadMoves, tableVars, opVars, hostVars
  <1>2. TypeOK'
    BY DEF TypeOK, ThreadMoves, tableVars, opVars, hostVars
  <1>3. \A j \in Kernels : AllIdle(j)' <=> AllIdle(j)
    BY <1>1 DEF AllIdle
  <1>4. \A j \in Kernels : Over(j) => Over(j)' /\ (started'[j] <=> started[j])
    BY <1>1 DEF Over
  <1>5. HostInv'
    <2>1. \A j \in Kernels : ~started'[j] => Over(j)' \/ (hpc' \in {"note", "settle"} /\ hk' = j)
      BY <1>1, <1>4 DEF HostInv, Over
    <2>2. \A j \in Kernels : started'[j] => pc'[j] # "none" \/ (hpc' = "settle" /\ hk' = j)
      BY <1>1 DEF HostInv
    <2> QED
      BY <1>1, <1>4, <2>1, <2>2 DEF HostInv, TypeOK
  <1>6. QuietInv'
    <2>1. ASSUME pool[k], rc'[k] = 2, pc'[k] \notin {"loop", "barrier"} PROVE AllIdle(k)
      BY <2>1 DEF ThreadMoves, QuietInv
    <2> QED
      BY <1>1, <1>3, <2>1 DEF QuietInv
  <1>7. FreedInv'
    BY <1>1, <1>3, <1>4 DEF FreedInv, TypeOK
  <1>8. RunningInv'
    BY DEF ThreadMoves
  <1> QED
    BY <1>2, <1>5, <1>6, <1>7, <1>8

----------------------------------------------------------------------------
(* The pool threads                                                        *)

\* What the steps of pool thread t do: it is at work, or put to work by the run of its kernel.
Acts(t) ==
    /\ op[t] # "free" \/ pc[KernelOf(t)] = "loop"
    /\ op' \in [Threads -> OpStep] /\ todo' \in [Threads -> SUBSET Kernels]
    /\ \A u \in Threads : todo'[u] = {} <=> op'[u] \in {"free", "tick"}
    /\ \A u \in Threads : u # t => op'[u] = op[u]
    /\ registered' \subseteq Kernels /\ process' \subseteq process
    /\ status' \in [Kernels -> Status] /\ interrupt' \in [Kernels -> BOOLEAN]
    /\ \A j \in Kernels : status'[j] = "running" => status[j] = "running"
    /\ alive' \in [Kernels -> BOOLEAN] /\ pool' \in [Kernels -> BOOLEAN]
    /\ \A j \in Kernels : pool'[j] => pool[j]
    /\ misused' \in BOOLEAN
    /\ misused' => misused \/ freed # {}
    /\ UNCHANGED <<entryVars, threadVars, hostVars, freed, orderly, lost>>

LEMMA KernelOfThread == ASSUME NEW t \in Threads PROVE KernelOf(t) \in Kernels
  BY LifecycleConstants DEF Threads, Kernels, KernelOf

LEMMA BeginMoves ==
    ASSUME TypeOK, NEW t \in Threads, NEW s \in OpStep, NEW S \in SUBSET Kernels,
           S = {} <=> s \in {"free", "tick"}, Begin(t, s, S)
    PROVE  /\ op' \in [Threads -> OpStep] /\ todo' \in [Threads -> SUBSET Kernels]
           /\ \A u \in Threads : todo'[u] = {} <=> op'[u] \in {"free", "tick"}
           /\ \A u \in Threads : u # t => op'[u] = op[u]
  BY DEF TypeOK, Begin

LEMMA ProceedMoves ==
    ASSUME TypeOK, NEW t \in Threads, NEW s \in OpStep \ {"free", "tick"},
           op[t] \notin {"free", "tick"}, Proceed(t, s)
    PROVE  /\ op' \in [Threads -> OpStep] /\ todo' \in [Threads -> SUBSET Kernels]
           /\ \A u \in Threads : todo'[u] = {} <=> op'[u] \in {"free", "tick"}
           /\ \A u \in Threads : u # t => op'[u] = op[u]
  BY DEF TypeOK, Proceed

LEMMA FreeMoves ==
    ASSUME TypeOK, NEW t \in Threads, NEW s \in {"free", "tick"}, op[t] \in {"free", "tick"},
           op' = [op EXCEPT ![t] = s], UNCHANGED todo
    PROVE  /\ op' \in [Threads -> OpStep] /\ todo' \in [Threads -> SUBSET Kernels]
           /\ \A u \in Threads : todo'[u] = {} <=> op'[u] \in {"free", "tick"}
           /\ \A u \in Threads : u # t => op'[u] = op[u]
  BY DEF TypeOK, OpStep

LEMMA UseMoves ==
    ASSUME TypeOK, NEW t \in Threads, NEW S, Use(t, S)
    PROVE  misused' \in BOOLEAN /\ (misused' => misused \/ freed # {})
  BY DEF TypeOK, Use

LEMMA TickActs ==
    ASSUME IInv, NEW t \in Threads, Bind(t) \/ Look(t) \/ Park(t)
    PROVE  Acts(t)
  <1> USE DEF IInv, TypeOK, Acts, OpStep, tableVars, entryVars, threadVars, hostVars, ghosts
  <1>1. CASE Bind(t)
    BY <1>1, FreeMoves DEF Bind
  <1>2. CASE Look(t)
    BY <1>2, FreeMoves, UseMoves DEF Look
  <1>3. CASE Park(t)
    BY <1>3, FreeMoves, UseMoves DEF Park
  <1> QED
    BY <1>1, <1>2, <1>3

LEMMA InstructionActs ==
    ASSUME IInv, NEW t \in Threads, Instruction(t)
    PROVE  Acts(t)
  <1> USE DEF IInv, TypeOK, Acts, OpStep, tableVars, entryVars, threadVars, hostVars, ghosts
  <1>1. ASSUME NEW j \in Kernels, Signal(t, j) PROVE Acts(t)
    <2>1. Begin(t, "push", {j}) /\ {j} \in SUBSET Kernels /\ {j} # {}
      BY <1>1 DEF Signal
    <2>2. /\ op' \in [Threads -> OpStep] /\ todo' \in [Threads -> SUBSET Kernels]
          /\ \A u \in Threads : todo'[u] = {} <=> op'[u] \in {"free", "tick"}
          /\ \A u \in Threads : u # t => op'[u] = op[u]
      BY <2>1, BeginMoves
    <2> QED
      BY <1>1, <2>2, UseMoves DEF Signal
  <1>2. ASSUME NEW j \in Kernels, Retire(t, j) PROVE Acts(t)
    <2>1. Begin(t, "wipe", {j}) /\ {j} \in SUBSET Kernels /\ {j} # {}
      BY <1>2 DEF Retire
    <2>2. /\ op' \in [Threads -> OpStep] /\ todo' \in [Threads -> SUBSET Kernels]
          /\ \A u \in Threads : todo'[u] = {} <=> op'[u] \in {"free", "tick"}
          /\ \A u \in Threads : u # t => op'[u] = op[u]
      BY <2>1, BeginMoves
    <2> QED
      BY <1>2, <2>2, UseMoves DEF Retire
  <1>3. CASE PidRetire(t)
    <2>1. process \in SUBSET Kernels
      OBVIOUS
    <2>2. Begin(t, "wipe", process) /\ process # {}
      BY <1>3 DEF PidRetire
    <2>3. /\ op' \in [Threads -> OpStep] /\ todo' \in [Threads -> SUBSET Kernels]
          /\ \A u \in Threads : todo'[u] = {} <=> op'[u] \in {"free", "tick"}
          /\ \A u \in Threads : u # t => op'[u] = op[u]
      BY <2>1, <2>2, BeginMoves
    <2> QED
      BY <1>3, <2>3, UseMoves DEF PidRetire
  <1>4. CASE Reset(t)
    <2>1. Begin(t, "commit", {KernelOf(t)}) /\ {KernelOf(t)} \in SUBSET Kernels /\ {KernelOf(t)} # {}
      BY <1>4, KernelOfThread DEF Reset
    <2>2. /\ op' \in [Threads -> OpStep] /\ todo' \in [Threads -> SUBSET Kernels]
          /\ \A u \in Threads : todo'[u] = {} <=> op'[u] \in {"free", "tick"}
          /\ \A u \in Threads : u # t => op'[u] = op[u]
      BY <2>1, BeginMoves
    <2> QED
      BY <1>4, <2>2, UseMoves DEF Reset
  <1> QED
    BY <1>1, <1>2, <1>3, <1>4 DEF Instruction

LEMMA FinishActs ==
    ASSUME IInv, NEW t \in Threads, Finish(t)
    PROVE  Acts(t)
  <1> USE DEF IInv, TypeOK, Acts, OpStep, Status, tableVars, entryVars, threadVars, hostVars, ghosts
  <1>1. CASE SignalPush(t)
    BY <1>1, BeginMoves, ProceedMoves, UseMoves DEF SignalPush
  <1>2. CASE SignalRing(t)
    BY <1>2, BeginMoves, UseMoves DEF SignalRing
  <1>3. CASE RetireWipe(t)
    BY <1>3, ProceedMoves, UseMoves DEF RetireWipe
  <1>4. CASE RetireMark(t)
    BY <1>4, ProceedMoves, UseMoves DEF RetireMark
  <1>5. CASE RetirePoke(t)
    <2> DEFINE rest == todo[t] \ {Target(t)}
    <2>1. rest \in SUBSET Kernels
      OBVIOUS
    <2>2. Begin(t, IF rest = {} THEN "tick" ELSE "wipe", rest)
      BY <1>5 DEF RetirePoke
    <2> HIDE DEF rest
    <2> QED
      BY <1>5, <2>1, <2>2, BeginMoves, UseMoves DEF RetirePoke
  <1>6. CASE Commit(t)
    <2>1. KernelOf(t) \in Kernels
      BY KernelOfThread
    <2> QED
      BY <1>6, <2>1, BeginMoves, UseMoves DEF Commit
  <1> QED
    BY <1>1, <1>2, <1>3, <1>4, <1>5, <1>6 DEF Finish

LEMMA ActsStep ==
    ASSUME IInv, NEW t \in Threads, Acts(t)
    PROVE  IInv'
  <1> USE DEF IInv
  <1>1. UNCHANGED <<started, stopRequested, pc, rc, hpc, hk, destroying, freed, orderly, lost>>
    BY DEF Acts, entryVars, threadVars, hostVars
  <1>2. TypeOK'
    <2>1. registered' \subseteq Kernels /\ process' \subseteq Kernels
      BY DEF Acts, TypeOK
    <2> QED
      BY <1>1, <2>1 DEF Acts, TypeOK
  <1>3. \A j \in Kernels : Over(j)' <=> Over(j)
    BY <1>1 DEF Over
  <1>4. HostInv'
    BY <1>1, <1>3 DEF HostInv, TypeOK
  <1>5. QuietInv'
    <2> SUFFICES ASSUME NEW j \in Kernels, pool'[j], rc'[j] = 2, pc'[j] \notin {"loop", "barrier"}
                 PROVE  AllIdle(j)'
      BY DEF QuietInv
    <2>1. AllIdle(j)
      BY <1>1 DEF QuietInv, Acts
    <2>2. KernelOf(t) # j
      BY <1>1, <2>1 DEF AllIdle, Acts
    <2> QED
      BY <2>1, <2>2 DEF AllIdle, Acts
  <1>6. FreedInv'
    <2>1. ~(destroying /\ orderly)
      BY KernelOfThread DEF FreedInv, AllIdle, Acts, Over
    <2> QED
      BY <1>1, <1>3, <2>1 DEF FreedInv, Acts, TypeOK
  <1>7. RunningInv'
    BY <1>1 DEF Acts, RunningInv
  <1> QED
    BY <1>2, <1>4, <1>5, <1>6, <1>7

----------------------------------------------------------------------------
(* The host                                                                *)

\* The host stores no status, and moves no thread that has not ended.
LEMMA HostKeepsRunning ==
    ASSUME RunningInv, status' = status,
           \A k \in Kernels : pc'[k] = pc[k] \/ Over(k)
    PROVE  RunningInv'
  BY DEF RunningInv, Over

\* Nor does it touch what a run leaves behind, or start a kernel other than at the top.
LEMMA HostKeepsQuiet ==
    ASSUME QuietInv, UNCHANGED <<pool, rc, op>>,
           \A k \in Kernels : pc'[k] = pc[k] \/ Over(k)
    PROVE  QuietInv'
  <1>1. \A k \in Kernels : AllIdle(k)' <=> AllIdle(k)
    BY DEF AllIdle
  <1> QED
    BY <1>1 DEF QuietInv, Over

LEMMA HostStartStep ==
    ASSUME IInv, NEW k \in Kernels, HostStart(k)
    PROVE  IInv'
  <1> USE DEF IInv, tableVars, entryVars, threadVars, opVars, hostVars, ghosts
  <1>1. TypeOK'
    BY DEF HostStart, TypeOK, HostPC
  <1>2. Over(k) /\ ~destroying
    BY DEF HostStart, HostInv
  <1>3. HostInv' /\ FreedInv'
    BY <1>2 DEF HostStart, HostInv, FreedInv, Over, AllIdle
  <1>4. QuietInv' /\ RunningInv'
    BY HostKeepsRunning, HostKeepsQuiet DEF HostStart
  <1> QED
    BY <1>1, <1>3, <1>4

LEMMA HostCreateStep ==
    ASSUME IInv, HostCreate
    PROVE  IInv'
  <1> USE DEF IInv, tableVars, entryVars, threadVars, opVars, hostVars, ghosts
  <1>1. hk \in Kernels /\ Over(hk) /\ ~destroying /\ hpc = "create"
    BY DEF HostCreate, HostInv, TypeOK
  <1>2. CASE hpc' = "idle"
    <2>1. /\ UNCHANGED <<tableVars, status, entryVars, interrupt, alive, pool, threadVars, opVars,
                         destroying, freed, ghosts>>
          /\ hk' = 1
      BY <1>2 DEF HostCreate, HostAt, HostReturns
    <2>2. TypeOK'
      BY <1>2, <2>1, OneKernel DEF TypeOK, HostPC
    <2>3. QuietInv' /\ RunningInv'
      BY <2>1, HostKeepsRunning, HostKeepsQuiet
    <2> QED
      BY <1>1, <1>2, <2>1, <2>2, <2>3 DEF HostInv, FreedInv, Over
  <1>3. CASE hpc' # "idle"
    <2>1. /\ pc' = [pc EXCEPT ![hk] = "top"] /\ hpc' = "note"
          /\ UNCHANGED <<tableVars, status, entryVars, interrupt, alive, pool, rc, opVars,
                         hk, destroying, freed, ghosts>>
      BY <1>3 DEF HostCreate, HostAt, HostReturns, Goto
    <2>2. TypeOK'
      BY <2>1 DEF TypeOK, HostPC, ThreadPC
    <2>3. \A j \in Kernels \ {hk} : pc'[j] = pc[j]
      BY <2>1 DEF TypeOK
    <2>4. pc'[hk] = "top"
      BY <1>1, <2>1 DEF TypeOK
    <2>5. QuietInv'
      BY <1>1, <2>1, <2>3, HostKeepsQuiet
    <2>6. HostInv'
      BY <1>1, <2>1, <2>3, <2>4 DEF HostInv, Over
    <2>7. FreedInv'
      BY <1>1, <2>1 DEF FreedInv
    <2>8. RunningInv'
      BY <1>1, <2>1, <2>3, HostKeepsRunning
    <2> QED
      BY <2>2, <2>5, <2>6, <2>7, <2>8
  <1> QED
    BY <1>2, <1>3

LEMMA HostNoteStep ==
    ASSUME IInv, HostNote
    PROVE  IInv'
  <1> USE DEF IInv, tableVars, entryVars, threadVars, opVars, hostVars, ghosts
  <1>1. /\ hk \in Kernels /\ hpc = "note" /\ hpc' = "idle" /\ hk' = 1
        /\ started' = [started EXCEPT ![hk] = TRUE]
        /\ pc[hk] # "none" /\ ~destroying
    BY DEF HostNote, HostReturns, HostInv, TypeOK
  <1>2. TypeOK'
    BY <1>1, OneKernel DEF HostNote, HostReturns, TypeOK, HostPC
  <1>3. FreedInv'
    BY DEF HostNote, HostReturns, FreedInv, Over, AllIdle
  <1>4. HostInv'
    BY <1>1 DEF HostNote, HostReturns, HostInv, TypeOK, Over
  <1>5. QuietInv' /\ RunningInv'
    BY HostKeepsRunning, HostKeepsQuiet DEF HostNote
  <1> QED
    BY <1>2, <1>3, <1>4, <1>5

LEMMA HostStopStep ==
    ASSUME IInv, NEW k \in Kernels, HostStop(k)
    PROVE  IInv'
  <1> USE DEF IInv, tableVars, entryVars, threadVars, opVars, hostVars, ghosts
  <1>1. TypeOK'
    BY DEF HostStop, TypeOK, HostPC
  <1>2. pc[k] # "none" /\ ~destroying
    BY DEF HostStop, HostInv
  <1>3. HostInv' /\ FreedInv'
    BY <1>2 DEF HostStop, HostInv, FreedInv, Over
  <1>4. QuietInv' /\ RunningInv'
    BY HostKeepsRunning, HostKeepsQuiet DEF HostStop
  <1> QED
    BY <1>1, <1>3, <1>4

LEMMA HostRaiseStep ==
    ASSUME IInv, HostRaise
    PROVE  IInv'
  <1> USE DEF IInv, tableVars, entryVars, threadVars, opVars, hostVars, ghosts
  <1>1. TypeOK'
    BY DEF HostRaise, HostAt, TypeOK, HostPC
  <1>2. HostInv' /\ FreedInv'
    BY DEF HostRaise, HostAt, HostInv, FreedInv, Over, AllIdle
  <1>3. QuietInv' /\ RunningInv'
    BY HostKeepsRunning, HostKeepsQuiet DEF HostRaise
  <1> QED
    BY <1>1, <1>2, <1>3

LEMMA HostJoinStep ==
    ASSUME IInv, HostJoin
    PROVE  IInv'
  <1> USE DEF IInv, tableVars, entryVars, threadVars, opVars, hostVars, ghosts
  <1>1. /\ hk \in Kernels /\ hpc = "join" /\ hpc' = "settle" /\ hk' = hk /\ Over(hk)
        /\ pc' = [pc EXCEPT ![hk] = "none"]
        /\ UNCHANGED <<registered, process, started, pool, rc, op, destroying, freed, orderly,
                       misused>>
    BY DEF HostJoin, HostAt, Goto, TypeOK, Over
  <1>2. TypeOK'
    BY DEF HostJoin, HostAt, Goto, TypeOK, HostPC, ThreadPC
  <1>3. /\ pc'[hk] = "none" /\ \A j \in Kernels \ {hk} : pc'[j] = pc[j]
        /\ \A j \in Kernels : Over(j)' <=> Over(j)
    BY <1>1 DEF TypeOK, Over
  <1>4. HostInv'
    BY <1>1, <1>3 DEF HostInv
  <1>5. FreedInv'
    BY <1>1, <1>3 DEF FreedInv, AllIdle, TypeOK
  <1>6. QuietInv' /\ RunningInv'
    BY <1>1, <1>3, HostKeepsRunning, HostKeepsQuiet DEF HostJoin
  <1> QED
    BY <1>2, <1>4, <1>5, <1>6

LEMMA HostSettleStep ==
    ASSUME IInv, HostSettle
    PROVE  IInv'
  <1> USE DEF IInv, tableVars, entryVars, threadVars, opVars, hostVars, ghosts
  <1>1. TypeOK'
    BY OneKernel DEF HostSettle, HostAt, HostReturns, TypeOK, HostPC
  <1>2. FreedInv'
    BY DEF HostSettle, HostAt, HostReturns, FreedInv, Over, AllIdle
  <1>3. HostInv'
    <2>1. \A j \in Kernels : started'[j] <=> started[j] /\ j # hk
      BY DEF HostSettle, TypeOK
    <2> QED
      BY <2>1 DEF HostSettle, HostAt, HostReturns, HostInv, TypeOK, Over
  <1>4. QuietInv' /\ RunningInv'
    BY HostKeepsRunning, HostKeepsQuiet DEF HostSettle
  <1> QED
    BY <1>1, <1>2, <1>3, <1>4

LEMMA HostDestroyStep ==
    ASSUME IInv, HostDestroy
    PROVE  IInv'
  <1> USE DEF IInv, tableVars, entryVars, threadVars, opVars, hostVars, ghosts
  <1>1. orderly' \in BOOLEAN
    BY DEF HostDestroy
  <1>2. TypeOK'
    BY <1>1, OneKernel DEF HostDestroy, TypeOK, HostPC
  <1>3. HostInv'
    BY DEF HostDestroy, HostInv, Over
  <1>4. FreedInv'
    <2>1. freed = {} /\ ~misused
      BY DEF HostDestroy, HostInv, FreedInv
    <2>2. ASSUME orderly' PROVE \A k \in Kernels : Over(k)' /\ AllIdle(k)'
      BY <2>2 DEF HostDestroy, QuietInv, Stopped, Over, AllIdle
    <2> QED
      BY <2>1, <2>2 DEF HostDestroy, FreedInv
  <1>5. QuietInv' /\ RunningInv'
    BY HostKeepsRunning, HostKeepsQuiet DEF HostDestroy
  <1> QED
    BY <1>2, <1>3, <1>4, <1>5

LEMMA HostTestStep ==
    ASSUME IInv, HostTest
    PROVE  IInv'
  <1> USE DEF IInv, tableVars, entryVars, threadVars, opVars, hostVars, ghosts
  <1>1. TypeOK'
    BY DEF HostTest, HostAt, TypeOK, HostPC
  <1>2. HostInv' /\ FreedInv'
    BY DEF HostTest, HostAt, HostInv, FreedInv, TypeOK, Over, AllIdle
  <1>3. QuietInv' /\ RunningInv'
    BY HostKeepsRunning, HostKeepsQuiet DEF HostTest
  <1> QED
    BY <1>1, <1>2, <1>3

LEMMA HostFreeStep ==
    ASSUME IInv, HostFree
    PROVE  IInv'
  <1> USE DEF IInv, tableVars, entryVars, threadVars, opVars, hostVars, ghosts
  <1>1. hk' \in Kernels /\ hpc' \in {"test", "gone"}
    BY OneKernel DEF HostFree, TypeOK, Kernels
  <1>2. TypeOK'
    BY <1>1 DEF HostFree, TypeOK, HostPC
  <1>3. HostInv'
    BY <1>1 DEF HostFree, HostInv, Over
  <1>4. FreedInv'
    <2>1. destroying /\ Over(hk)
      BY DEF HostFree, HostInv
    <2>2. /\ freed' = freed \union {hk} /\ registered' = registered \ {hk}
          /\ process' = process \ {hk}
          /\ UNCHANGED <<pc, op, orderly, misused, destroying>>
      BY DEF HostFree
    <2>3. \A j \in Kernels : (Over(j)' <=> Over(j)) /\ (AllIdle(j)' <=> AllIdle(j))
      BY <2>2 DEF Over, AllIdle
    <2> QED
      BY <2>1, <2>2, <2>3 DEF FreedInv, TypeOK
  <1>5. QuietInv' /\ RunningInv'
    BY HostKeepsRunning, HostKeepsQuiet DEF HostFree
  <1> QED
    BY <1>2, <1>3, <1>4, <1>5

LEMMA StutterStep ==
    ASSUME IInv, UNCHANGED vars
    PROVE  IInv'
  BY DEF IInv, TypeOK, HostInv, QuietInv, FreedInv, RunningInv, Over, AllIdle, vars, tableVars,
         entryVars, threadVars, opVars, hostVars, ghosts

----------------------------------------------------------------------------
(* Theorems                                                                *)

LEMMA NextInv == IInv /\ [Next]_vars => IInv'
  <1> SUFFICES ASSUME IInv, [Next]_vars PROVE IInv'
    OBVIOUS
  <1>1. ASSUME NEW k \in Kernels, Thread(k) \/ RunFail(k) PROVE IInv'
    BY <1>1, ThreadActs, ThreadStep
  <1>2. ASSUME NEW t \in Threads, PoolThread(t) PROVE IInv'
    BY <1>2, TickActs, InstructionActs, FinishActs, ActsStep DEF PoolThread
  <1>3. CASE Host
    <2>1. ASSUME NEW k \in Kernels, HostStart(k) \/ HostStop(k) PROVE IInv'
      BY <2>1, HostStartStep, HostStopStep
    <2>2. CASE HostDestroy
      BY <2>2, HostDestroyStep
    <2>3. CASE HostProceeds
      BY <2>3, HostCreateStep, HostNoteStep, HostRaiseStep, HostJoinStep, HostSettleStep,
         HostTestStep, HostFreeStep DEF HostProceeds
    <2> QED
      BY <1>3, <2>1, <2>2, <2>3 DEF Host
  <1>4. CASE UNCHANGED vars
    BY <1>4, StutterStep
  <1> QED
    BY <1>1, <1>2, <1>3, <1>4 DEF Next

\* The inductive invariant of the module, its threads, their pools and its host.
THEOREM Invariance == Spec => []IInv
  <1>1. Init => IInv
    BY InitInv
  <1>2. IInv /\ [Next]_vars => IInv'
    BY NextInv
  <1> QED
    BY <1>1, <1>2, PTL DEF Spec

\* Every variable keeps its type, and a kernel has targets exactly while it is in an instruction.
THEOREM TypeCorrect == Spec => []TypeOK
  <1>1. IInv => TypeOK
    BY DEF IInv
  <1> QED
    BY <1>1, Invariance, PTL

\* An entry never loses sight of its thread although the thread and the host store thread_started
\* without a lock, every join is of a thread that was created and not joined before, and a kernel
\* says that it is running only inside its run.
THEOREM ThreadKnownTheorem == Spec => []ThreadKnown
  <1>1. IInv => ThreadKnown
    BY DEF IInv, HostInv, RunningInv, ThreadKnown
  <1> QED
    BY <1>1, Invariance, PTL

\* The thread of a destroyed kernel has ended; and if every kernel had been stopped when
\* epa_kernel_module_destroy began, and none of them by a failed run or with a pool stopped by a
\* boot reset, no pool thread is at work in a destroyed kernel, nobody has used one and none is
\* listed.
THEOREM FreedUnusedTheorem == Spec => []FreedUnused
  <1>1. IInv => FreedUnused
    <2> SUFFICES ASSUME IInv PROVE FreedUnused
      OBVIOUS
    <2>1. freed \subseteq Kernels /\ \A k \in freed : Over(k)
      BY DEF IInv, TypeOK, FreedInv
    <2>2. ASSUME orderly
          PROVE ~misused /\ \A k \in freed : AllIdle(k) /\ k \notin registered \union process
      <3>1. CASE destroying
        BY <2>1, <2>2, <3>1 DEF IInv, FreedInv
      <3>2. CASE ~destroying
        BY <3>2 DEF IInv, FreedInv
      <3> QED
        BY <3>1, <3>2
    <2> QED
      BY <2>1, <2>2 DEF FreedUnused
  <1> QED
    BY <1>1, Invariance, PTL

\* Whatever starts, stops, retires or resets what: unloaded is left only by a store whose look at
\* the status, or whose request for another image, came before.
THEOREM UnloadedFinalTheorem == Spec => UnloadedFinal
  <1>1. IInv /\ [Next]_vars =>
            [\A k \in Kernels : status[k] = "unloaded" => status'[k] = "unloaded" \/ Stale(k)]_vars
    <2> SUFFICES ASSUME IInv, Next, NEW k \in Kernels, status[k] = "unloaded", ~Stale(k)
                 PROVE  status'[k] = "unloaded"
      OBVIOUS
    <2> USE DEF IInv, TypeOK, Stale
    <2>1. ASSUME NEW j \in Kernels, Thread(j) \/ RunFail(j) PROVE status'[k] = "unloaded"
      BY <2>1 DEF Thread, ThreadTop, RunLook, RunSet, RunEntry, RunSees, RunYield, RunFail, RunRelook,
                  RunFinal, ThreadTail, ThreadClear
    <2>2. ASSUME NEW t \in Threads, Finish(t) PROVE status'[k] = "unloaded"
      BY <2>2 DEF Finish, SignalPush, SignalRing, RetireWipe, RetireMark, RetirePoke, Commit
    <2>3. ASSUME NEW t \in Threads, Bind(t) \/ Look(t) \/ Park(t) \/ Instruction(t)
          PROVE status'[k] = "unloaded"
      BY <2>3 DEF Bind, Look, Park, Instruction, Signal, Retire, PidRetire, Reset
    <2>4. CASE Host
      BY <2>4 DEF Host, HostStart, HostStop, HostDestroy, HostProceeds, HostCreate, HostNote,
                  HostRaise, HostJoin, HostSettle, HostTest, HostFree
    <2> QED
      BY <2>1, <2>2, <2>3, <2>4 DEF Next, PoolThread
  <1>2. Spec => []IInv
    BY Invariance
  <1>3. Spec => [][Next]_vars
    BY PTL DEF Spec
  <1> QED
    BY <1>1, <1>2, <1>3, PTL DEF UnloadedFinal
=============================================================================
