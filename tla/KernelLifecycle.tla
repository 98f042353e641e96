-------------------------- MODULE KernelLifecycle --------------------------
(***************************************************************************)
(* The life of the kernels of a bundle: the host that starts, stops and    *)
(* destroys them through their module, the thread that runs each of them,  *)
(* and the threads of their pools (the module gives every kernel the       *)
(* cpu_thread scheduler), whose ticks signal and retire kernels, retire    *)
(* their whole process or boot another image (epa_kernel_so.c).            *)
(*                                                                         *)
(* g_kernel_registry_mu guards the registry and the process table, each    *)
(* critical section is one action, and state_mu guards single reads and    *)
(* writes of the status.  Everything else is unlocked: a retire goes on    *)
(* with the pointer it found, store by store, beside the run of its        *)
(* target.  Of a run there is here what its caller and its pool threads    *)
(* see of each other; the rest of it is CpuThreadSched, with both of its   *)
(* interrupt flags, of which there is one here.                            *)
(***************************************************************************)
EXTENDS Integers, FiniteSets

CONSTANTS
    N,           \* the entries of the module, module->count
    T,           \* the pool threads of all its kernels together
    Signallers,  \* the kernels whose programs signal other kernels,
    Retirers,    \* those that retire one kernel,
    PidRetirers, \* those that retire their process,
    Admins,      \* those that have the privilege to boot another image,
    MayFail      \* and those whose worker 0 may fault, or whose ingress may not be drained

ASSUME LifecycleConstants ==
    /\ N \in Nat \ {0} /\ T \in Nat
    /\ Signallers \union Retirers \union PidRetirers \union Admins \union MayFail \subseteq 1 .. N

Kernels == 1 .. N
Threads == 1 .. T

\* Pool threads are dealt out to the kernels in turn.
KernelOf(t) == 1 + ((t - 1) % N)

VARIABLES
    registered,   \* the kernels in g_kernel_registry
    process,      \* those in the process table under the PID of the bundle
    status,       \* kernel -> runtime_status
    started,      \* kernel -> thread_started of its entry
    stopRequested,\* kernel -> stop_requested of its entry
    interrupt,    \* kernel -> interrupt requested
    alive,        \* kernel -> its workers are not retired
    pool,         \* kernel -> st->stop is not set
    pc,           \* kernel -> where its module thread is, "none" before it is created and once it is joined
    rc,           \* kernel -> what its last run returned
    op, todo,     \* pool thread -> where it is in its tick loop, the kernels it has yet to act on
    hpc, hk, destroying, \* the host: its place, the kernel it is at, is it module_destroy
    freed,        \* kernels destroyed
    orderly,      \* ghost: the destruction began with every kernel stopped (Stopped)
    lost,         \* ghost: kernel -> a run cleared the interrupt of a stop
    misused       \* ghost: a freed kernel was used

tableVars  == <<registered, process>>
entryVars  == <<started, stopRequested>>
threadVars == <<pc, rc>>
opVars     == <<op, todo>>
hostVars   == <<hpc, hk, destroying>>
ghosts     == <<orderly, lost, misused>>
vars == <<tableVars, status, entryVars, interrupt, alive, pool, threadVars, opVars, hostVars,
          freed, ghosts>>

\* halted, faulted and error are "over": start_kernel treats them alike.
Status == {"unloaded", "loaded", "running", "stopped", "over"}
ThreadPC == {"none", "top", "look", "setrun", "entry", "loop", "barrier", "relook", "final", "tail",
             "clear", "ended"}
OpStep == {"free", "tick", "push", "ring", "wipe", "mark", "poke", "commit"}
HostPC == {"idle", "create", "note", "raise", "join", "settle", "test", "free", "gone"}

TypeOK ==
    /\ registered \subseteq Kernels /\ process \subseteq Kernels
    /\ status \in [Kernels -> Status]
    /\ started \in [Kernels -> BOOLEAN] /\ stopRequested \in [Kernels -> BOOLEAN]
    /\ interrupt \in [Kernels -> BOOLEAN]
    /\ alive \in [Kernels -> BOOLEAN] /\ pool \in [Kernels -> BOOLEAN]
    /\ pc \in [Kernels -> ThreadPC] /\ rc \in [Kernels -> {0, 2}]
    /\ op \in [Threads -> OpStep] /\ todo \in [Threads -> SUBSET Kernels]
    /\ \A t \in Threads : todo[t] = {} <=> op[t] \in {"free", "tick"}
    /\ hpc \in HostPC /\ hk \in Kernels /\ destroying \in BOOLEAN
    /\ freed \subseteq Kernels
    /\ orderly \in BOOLEAN
    /\ lost \in [Kernels -> BOOLEAN] /\ misused \in BOOLEAN

\* epa_kernel_process_load_bundle_bytes has loaded the bundle.
Init ==
    /\ registered = Kernels /\ process = Kernels
    /\ status = [k \in Kernels |-> "loaded"]
    /\ started = [k \in Kernels |-> FALSE] /\ stopRequested = [k \in Kernels |-> FALSE]
    /\ interrupt = [k \in Kernels |-> FALSE]
    /\ alive = [k \in Kernels |-> TRUE] /\ pool = [k \in Kernels |-> TRUE]
    /\ pc = [k \in Kernels |-> "none"] /\ rc = [k \in Kernels |-> 2]
    /\ op = [t \in Threads |-> "free"] /\ todo = [t \in Threads |-> {}]
    /\ hpc = "idle" /\ hk = 1 /\ destroying = FALSE
    /\ freed = {}
    /\ orderly = TRUE
    /\ lost = [k \in Kernels |-> FALSE] /\ misused = FALSE

Over(k) == pc[k] \in {"none", "ended"}
Least(S) == CHOOSE k \in S : \A j \in S : k <= j
Goto(k, place) == pc' = [pc EXCEPT ![k] = place]

----------------------------------------------------------------------------
(* module_kernel_thread_main and epa_kernel_run                            *)

\* The top of the loop of the thread.
ThreadTop(k) ==
    /\ pc[k] = "top"
    /\ Goto(k, IF stopRequested[k] THEN "clear" ELSE "look")
    /\ UNCHANGED <<tableVars, status, entryVars, interrupt, alive, pool, rc, opVars, hostVars,
                   freed, ghosts>>

\* epa_kernel_run returns 1 at once for an unloaded kernel.
RunLook(k) ==
    /\ pc[k] = "look"
    /\ Goto(k, IF status[k] = "unloaded" THEN "clear" ELSE "setrun")
    /\ UNCHANGED <<tableVars, status, entryVars, interrupt, alive, pool, rc, opVars, hostVars,
                   freed, ghosts>>

RunSet(k) ==
    /\ pc[k] = "setrun"
    /\ status' = [status EXCEPT ![k] = "running"]
    /\ Goto(k, "entry")
    /\ UNCHANGED <<tableVars, entryVars, interrupt, alive, pool, rc, opVars, hostVars, freed,
                   ghosts>>

\* The scheduler forgets an interrupt that came before it was entered.
RunEntry(k) ==
    /\ pc[k] = "entry"
    /\ interrupt' = [interrupt EXCEPT ![k] = FALSE]
    /\ lost' = [lost EXCEPT ![k] = @ \/ stopRequested[k]]
    /\ Goto(k, "loop")
    /\ UNCHANGED <<tableVars, status, entryVars, alive, pool, rc, opVars, hostVars, freed,
                   orderly, misused>>

\* cpu_run binds a thread of the pool to a runnable worker, if the thread is free.
Bind(t) ==
    LET k == KernelOf(t) IN
    /\ pc[k] = "loop"
    /\ alive[k] /\ pool[k]
    /\ op[t] = "free"
    /\ op' = [op EXCEPT ![t] = "tick"]
    /\ UNCHANGED <<tableVars, status, entryVars, interrupt, alive, pool, threadVars, todo,
                   hostVars, freed, ghosts>>

\* It has seen the interrupt and waits for all its pool threads ...
RunSees(k) ==
    /\ pc[k] = "loop"
    /\ interrupt[k]
    /\ Goto(k, "barrier")
    /\ UNCHANGED <<tableVars, status, entryVars, interrupt, alive, pool, rc, opVars, hostVars,
                   freed, ghosts>>

\* Mutant: it does not wait.
AllIdleSoon(k) == TRUE

\* all_threads_idle_locked
AllIdle(k) == \A t \in Threads : KernelOf(t) = k => op[t] = "free"

\* ... and yields, at once if the pool was stopped.
RunYield(k) ==
    /\ pc[k] = "barrier"
    /\ ~pool[k] \/ AllIdle(k)
    /\ interrupt' = [interrupt EXCEPT ![k] = FALSE]
    /\ rc' = [rc EXCEPT ![k] = 2]
    /\ Goto(k, "relook")
    /\ UNCHANGED <<tableVars, status, entryVars, alive, pool, opVars, hostVars, freed, ghosts>>

\* Worker 0 has faulted or the ingress cannot be drained: the run is over, whatever its pool
\* threads are doing.
RunFail(k) ==
    /\ k \in MayFail
    /\ pc[k] = "loop"
    /\ rc' = [rc EXCEPT ![k] = 0]
    /\ Goto(k, "relook")
    /\ UNCHANGED <<tableVars, status, entryVars, interrupt, alive, pool, opVars, hostVars, freed,
                   orderly, lost, misused>>

\* Mutant: the status is stored whatever it is.
RunRelookNot(k) ==
    /\ pc[k] = "relook"
    /\ status' = [status EXCEPT ![k] = IF rc[k] = 2 THEN "stopped" ELSE "over"]
    /\ Goto(k, "tail")
    /\ UNCHANGED <<tableVars, entryVars, interrupt, alive, pool, rc, opVars, hostVars, freed,
                   ghosts>>

\* The second look at the status: what a retire has stored stays.
RunRelook(k) ==
    /\ pc[k] = "relook"
    /\ Goto(k, IF status[k] = "unloaded" THEN "tail" ELSE "final")
    /\ UNCHANGED <<tableVars, status, entryVars, interrupt, alive, pool, rc, opVars, hostVars,
                   freed, ghosts>>

RunFinal(k) ==
    /\ pc[k] = "final"
    /\ status' = [status EXCEPT ![k] = IF rc[k] = 2 THEN "stopped" ELSE "over"]
    /\ Goto(k, "tail")
    /\ UNCHANGED <<tableVars, entryVars, interrupt, alive, pool, rc, opVars, hostVars, freed,
                   ghosts>>

\* Mutant: the entry is marked free before every run.
ThreadTailClears(k) ==
    /\ pc[k] = "tail"
    /\ Goto(k, IF rc[k] = 2 /\ ~stopRequested[k] THEN "top" ELSE "clear")
    /\ started' = [started EXCEPT ![k] = FALSE]
    /\ UNCHANGED <<tableVars, status, stopRequested, interrupt, alive, pool, rc, opVars, hostVars,
                   freed, ghosts>>

\* A run that yielded is entered again, unless the thread is to stop.
ThreadTail(k) ==
    /\ pc[k] = "tail"
    /\ Goto(k, IF rc[k] = 2 /\ ~stopRequested[k] THEN "top" ELSE "clear")
    /\ UNCHANGED <<tableVars, status, entryVars, interrupt, alive, pool, rc, opVars, hostVars,
                   freed, ghosts>>

ThreadClear(k) ==
    /\ pc[k] = "clear"
    /\ started' = [started EXCEPT ![k] = FALSE]
    /\ Goto(k, "ended")
    /\ UNCHANGED <<tableVars, status, stopRequested, interrupt, alive, pool, rc, opVars,
                   hostVars, freed, ghosts>>

Thread(k) == \/ ThreadTop(k) \/ RunLook(k) \/ RunSet(k) \/ RunEntry(k) \/ RunSees(k) \/ RunYield(k)
             \/ RunRelook(k) \/ RunFinal(k) \/ ThreadTail(k) \/ ThreadClear(k)

----------------------------------------------------------------------------
(* The pool threads and the instructions that reach other kernels          *)

Begin(t, step, targets) ==
    /\ op' = [op EXCEPT ![t] = step]
    /\ todo' = [todo EXCEPT ![t] = targets]

Proceed(t, step) == op' = [op EXCEPT ![t] = step] /\ UNCHANGED todo
Target(t) == Least(todo[t])

\* A thread in its tick loop uses its kernel, and a step its target, whatever has become of them.
Use(t, ks) == misused' = (misused \/ (ks \union {KernelOf(t)}) \cap freed # {})

\* Between two ticks the thread looks at the interrupt and at its worker, and goes back to the
\* pool if the one is up or the other retired ...
Look(t) ==
    /\ op[t] = "tick"
    /\ interrupt[KernelOf(t)] \/ ~alive[KernelOf(t)]
    /\ op' = [op EXCEPT ![t] = "free"]
    /\ Use(t, {})
    /\ UNCHANGED <<tableVars, status, entryVars, interrupt, alive, pool, threadVars, todo, hostVars,
                   freed, orderly, lost>>

\* ... or halted, blocked or faulted by its program.
Park(t) ==
    /\ op[t] = "tick"
    /\ op' = [op EXCEPT ![t] = "free"]
    /\ Use(t, {})
    /\ UNCHANGED <<tableVars, status, entryVars, interrupt, alive, pool, threadVars, todo, hostVars,
                   freed, orderly, lost>>

\* epa_kernel_far_signal_by_uid: the lookup ...
Signal(t, j) ==
    /\ KernelOf(t) \in Signallers
    /\ op[t] = "tick"
    /\ Use(t, {})
    /\ j \in registered
    /\ Begin(t, "push", {j})
    /\ UNCHANGED <<tableVars, status, entryVars, interrupt, alive, pool, threadVars, hostVars,
                   freed, orderly, lost>>

\* ... the push, or its refusal by the routes or a full queue, which faults the sender ...
SignalPush(t) ==
    /\ op[t] = "push"
    /\ Use(t, {Target(t)})
    /\ \/ Proceed(t, "ring")
       \/ Begin(t, "tick", {})
    /\ UNCHANGED <<tableVars, status, entryVars, interrupt, alive, pool, threadVars, hostVars,
                   freed, orderly, lost>>

\* ... and the interrupt that makes the target look at its queues.
SignalRing(t) ==
    /\ op[t] = "ring"
    /\ Use(t, {Target(t)})
    /\ interrupt' = [interrupt EXCEPT ![Target(t)] = TRUE]
    /\ Begin(t, "tick", {})
    /\ UNCHANGED <<tableVars, status, entryVars, alive, pool, threadVars, hostVars, freed,
                   orderly, lost>>

\* epa_kernel_retire_by_uid under the mutex.
Retire(t, j) ==
    /\ KernelOf(t) \in Retirers
    /\ op[t] = "tick"
    /\ Use(t, {})
    /\ j \in registered
    /\ registered' = registered \ {j}
    /\ process' = process \ {j}
    /\ Begin(t, "wipe", {j})
    /\ UNCHANGED <<status, entryVars, interrupt, alive, pool, threadVars, hostVars, freed,
                   orderly, lost>>

\* epa_kernel_pid_retire under the mutex, for all kernels of the process at once.
PidRetire(t) ==
    /\ KernelOf(t) \in PidRetirers
    /\ op[t] = "tick"
    /\ Use(t, {})
    /\ process # {}
    /\ registered' = registered \ process
    /\ process' = {}
    /\ Begin(t, "wipe", process)
    /\ UNCHANGED <<status, entryVars, interrupt, alive, pool, threadVars, hostVars, freed,
                   orderly, lost>>

\* Without it, target by target: its workers, lists, rings and queues ...
RetireWipe(t) ==
    /\ op[t] = "wipe"
    /\ Use(t, {Target(t)})
    /\ alive' = [alive EXCEPT ![Target(t)] = FALSE]
    /\ Proceed(t, "mark")
    /\ UNCHANGED <<tableVars, status, entryVars, interrupt, pool, threadVars, hostVars, freed,
                   orderly, lost>>

\* ... its status ...
RetireMark(t) ==
    /\ op[t] = "mark"
    /\ Use(t, {Target(t)})
    /\ status' = [status EXCEPT ![Target(t)] = "unloaded"]
    /\ Proceed(t, "poke")
    /\ UNCHANGED <<tableVars, entryVars, interrupt, alive, pool, threadVars, hostVars, freed,
                   orderly, lost>>

\* Mutant: the loop over the targets ends with the first.
RetirePokeOnce(t) ==
    /\ op[t] = "poke"
    /\ Use(t, {Target(t)})
    /\ interrupt' = [interrupt EXCEPT ![Target(t)] = TRUE]
    /\ Begin(t, "tick", {})
    /\ UNCHANGED <<tableVars, status, entryVars, alive, pool, threadVars, hostVars, freed,
                   orderly, lost>>

\* ... and an interrupt.
RetirePoke(t) ==
    /\ op[t] = "poke"
    /\ Use(t, {Target(t)})
    /\ interrupt' = [interrupt EXCEPT ![Target(t)] = TRUE]
    /\ LET rest == todo[t] \ {Target(t)} IN Begin(t, IF rest = {} THEN "tick" ELSE "wipe", rest)
    /\ UNCHANGED <<tableVars, status, entryVars, alive, pool, threadVars, hostVars, freed,
                   orderly, lost>>

\* epa_kernel_request_boot_reset_to_staged ...
Reset(t) ==
    /\ KernelOf(t) \in Admins
    /\ op[t] = "tick"
    /\ Begin(t, "commit", {KernelOf(t)})
    /\ Use(t, {})
    /\ UNCHANGED <<tableVars, status, entryVars, interrupt, alive, pool, threadVars, hostVars,
                   freed, orderly, lost>>

\* ... committed at the end of the tick: the image is loaded as that of a kernel without a
\* process, which registers it once more; the thread ends and st->stop keeps the others of the
\* pool from another worker, but not from the ticks of the one they have.
Commit(t) ==
    LET k == KernelOf(t) IN
    /\ op[t] = "commit"
    /\ registered' = registered \union {k}
    /\ alive' = [alive EXCEPT ![k] = TRUE]
    /\ status' = [status EXCEPT ![k] = "loaded"]
    /\ pool' = [pool EXCEPT ![k] = FALSE]
    /\ Begin(t, "free", {})
    /\ Use(t, {})
    /\ UNCHANGED <<process, entryVars, interrupt, threadVars, hostVars, freed, orderly,
                   lost>>

Finish(t) == SignalPush(t) \/ SignalRing(t) \/ RetireWipe(t) \/ RetireMark(t) \/ RetirePoke(t)
             \/ Commit(t)

Instruction(t) ==
    \/ \E j \in Kernels : Signal(t, j) \/ Retire(t, j)
    \/ PidRetire(t) \/ Reset(t)

PoolThread(t) == Bind(t) \/ Look(t) \/ Park(t) \/ Instruction(t) \/ Finish(t)

----------------------------------------------------------------------------
(* The host                                                                *)

HostAt(place) == hpc' = place /\ UNCHANGED <<hk, destroying>>
HostReturns == hpc' = "idle" /\ hk' = 1 /\ UNCHANGED destroying

\* epa_kernel_module_start_kernel up to pthread_create.
HostStart(k) ==
    /\ hpc = "idle"
    /\ ~started[k]
    /\ status[k] # "over"
    /\ stopRequested' = [stopRequested EXCEPT ![k] = FALSE]
    /\ hpc' = "create" /\ hk' = k /\ UNCHANGED destroying
    /\ UNCHANGED <<tableVars, status, started, interrupt, alive, pool, threadVars, opVars, freed,
                   ghosts>>

\* pthread_create, which may fail; the thread runs before started is set.
HostCreate ==
    /\ hpc = "create"
    /\ \/ Goto(hk, "top") /\ HostAt("note")
       \/ HostReturns /\ UNCHANGED pc
    /\ UNCHANGED <<tableVars, status, entryVars, interrupt, alive, pool, rc, opVars, freed,
                   ghosts>>

HostNote ==
    /\ hpc = "note"
    /\ started' = [started EXCEPT ![hk] = TRUE]
    /\ HostReturns
    /\ UNCHANGED <<tableVars, status, stopRequested, interrupt, alive, pool, threadVars, opVars,
                   freed, ghosts>>

\* epa_kernel_module_stop_kernel: the flag, the interrupt, the join ...
HostStop(k) ==
    /\ hpc = "idle"
    /\ started[k]
    /\ stopRequested' = [stopRequested EXCEPT ![k] = TRUE]
    /\ hpc' = "raise" /\ hk' = k /\ UNCHANGED destroying
    /\ UNCHANGED <<tableVars, status, started, interrupt, alive, pool, threadVars, opVars, freed,
                   ghosts>>

\* Mutant: no interrupt; the thread is left to find the flag.
HostRaiseNot ==
    /\ hpc = "raise"
    /\ HostAt("join")
    /\ UNCHANGED <<tableVars, status, entryVars, interrupt, alive, pool, threadVars, opVars,
                   freed, ghosts>>

HostRaise ==
    /\ hpc = "raise"
    /\ interrupt' = [interrupt EXCEPT ![hk] = TRUE]
    /\ HostAt("join")
    /\ UNCHANGED <<tableVars, status, entryVars, alive, pool, threadVars, opVars, freed, ghosts>>

HostJoin ==
    /\ hpc = "join"
    /\ pc[hk] = "ended"
    /\ Goto(hk, "none")
    /\ lost' = [lost EXCEPT ![hk] = FALSE]
    /\ HostAt("settle")
    /\ UNCHANGED <<tableVars, status, entryVars, interrupt, alive, pool, rc, opVars, freed,
                   orderly, misused>>

\* ... and a status that still says running would be corrected, but there is none: ThreadKnown.
HostSettle ==
    /\ hpc = "settle"
    /\ started' = [started EXCEPT ![hk] = FALSE]
    /\ IF destroying THEN HostAt("free") ELSE HostReturns
    /\ UNCHANGED <<tableVars, status, stopRequested, interrupt, alive, pool, threadVars, opVars,
                   freed, ghosts>>

\* The thread of k has ended, and it has not left its pool threads to themselves: no run has
\* failed, and no boot reset has stopped the pool.
Stopped(k) == Over(k) /\ rc[k] = 2 /\ pool[k]

\* epa_kernel_module_destroy: entry after entry is stopped, joined and destroyed.
HostDestroy ==
    /\ hpc = "idle"
    /\ hpc' = "test" /\ hk' = 1 /\ destroying' = TRUE
    /\ orderly' = \A k \in Kernels : Stopped(k)
    /\ UNCHANGED <<tableVars, status, entryVars, interrupt, alive, pool, threadVars, opVars,
                   freed, lost, misused>>

HostTest ==
    /\ hpc = "test"
    /\ IF started[hk]
       THEN stopRequested' = [stopRequested EXCEPT ![hk] = TRUE] /\ HostAt("raise")
       ELSE HostAt("free") /\ UNCHANGED stopRequested
    /\ UNCHANGED <<tableVars, status, started, interrupt, alive, pool, threadVars, opVars, freed,
                   ghosts>>

\* epa_kernel_destroy, which neither ends nor joins the threads of the pool.
HostFree ==
    /\ hpc = "free"
    /\ registered' = registered \ {hk}
    /\ process' = process \ {hk}
    /\ freed' = freed \union {hk}
    /\ IF hk < N THEN hpc' = "test" /\ hk' = hk + 1 ELSE hpc' = "gone" /\ UNCHANGED hk
    /\ UNCHANGED <<status, entryVars, interrupt, alive, pool, threadVars, opVars, destroying,
                   ghosts>>

HostProceeds == \/ HostCreate \/ HostNote \/ HostRaise \/ HostJoin \/ HostSettle \/ HostTest
                \/ HostFree

Host == (\E k \in Kernels : HostStart(k) \/ HostStop(k)) \/ HostDestroy \/ HostProceeds

Next == \/ \E k \in Kernels : Thread(k) \/ RunFail(k)
        \/ \E t \in Threads : PoolThread(t)
        \/ Host

Spec == Init /\ [][Next]_vars

\* All threads keep running and finish what they have begun.  A program whose every instruction
\* is one of these does not keep its pool thread from the look it takes between two ticks: hence
\* strong fairness.  Nothing makes a program execute an instruction of interest or park, nor the
\* host begin anything.
FairSpec ==
    /\ Spec
    /\ WF_vars(HostProceeds)
    /\ \A k \in Kernels : WF_vars(Thread(k))
    /\ \A t \in Threads : WF_vars(Finish(t)) /\ SF_vars(Look(t))

----------------------------------------------------------------------------
(* Properties                                                              *)

\* A thread that runs a kernel is known to the entry: thread_started, which the host and the
\* thread both store and no lock guards, is 0 only when there is none, or when its creator is
\* about to set it.  So a kernel is never given a second thread, and a join is always of a
\* thread that was created and not joined before.  And whoever retires or resets it, a kernel
\* says that it is running only inside its run: the correction stop_kernel has for a status
\* left behind by a thread that has ended is never needed.
ThreadKnown ==
    /\ \A k \in Kernels :
        ~started[k] => Over(k) \/ (hpc \in {"note", "settle"} /\ hk = k)
    /\ hpc = "create" => Over(hk)
    /\ hpc = "join" => pc[hk] # "none"
    /\ \A k \in Kernels :
        status[k] = "running" => pc[k] \in {"entry", "loop", "barrier", "relook", "final"}

\* A kernel is destroyed only after its thread has ended, and if every kernel of the module had
\* been stopped when the destruction began, nothing goes on in a destroyed one or reaches it: a
\* run that yields has all its pool threads back.  Not so if another kernel is still running, a
\* run has failed or a boot reset has stopped a pool; module_free_entries sees to none of these.
FreedUnused ==
    /\ \A k \in freed : Over(k)
    /\ orderly => /\ ~misused
                  /\ \A k \in freed : AllIdle(k) /\ k \notin registered \union process

\* What module_free_entries and epa_kernel_destroy rely on: nobody uses what they have freed.
NoUseAfterFree == ~misused

\* Some actor has looked at the status of k and is about to store over it, or is about to load
\* another image.
Stale(k) ==
    \/ pc[k] \in {"setrun", "final"}
    \/ \E t \in Threads : KernelOf(t) = k /\ op[t] = "commit"

\* "Unloaded" is final but for these: the unlocked distance between a look at the status and
\* the store that follows it, and the commit of a boot reset.
UnloadedFinal ==
    [][\A k \in Kernels : status[k] = "unloaded" => status'[k] = "unloaded" \/ Stale(k)]_vars

\* A retire reaches all its targets although one of them may be the kernel that executes it
\* and whose own workers, status and run it takes away first.
RetireTotal ==
    \A k \in Kernels :
        (\E t \in Threads : op[t] = "wipe" /\ k \in todo[t]) ~> (status[k] = "unloaded")

\* stop_kernel and module_destroy return, unless the run was entered after they had raised
\* the interrupt and has forgotten it.
StopReturns == (hpc = "join") ~> (hpc # "join" \/ lost[hk])

\* "its runtime status becomes unloaded", and stays so, when retire_kernel is over.
Retired(k) == k \notin registered /\ ~alive[k] /\ \A t \in Threads : k \notin todo[t]

RetiredUnloaded == \A k \in Kernels \ freed : Retired(k) => status[k] = "unloaded"
=============================================================================
