--------------------------- MODULE CpuThreadSched ---------------------------
(***************************************************************************)
(* The cpu_thread scheduler of an EPA kernel (epa_sched_cpu_thread.c): the *)
(* management loop cpu_run binds runnable workers to pool threads, each    *)
(* pool thread ticks the worker it is bound to until the worker parks or   *)
(* an interrupt is raised, and unbinds it.  The thread that calls cpu_run  *)
(* (module_kernel_thread_main), the hosts that push ingress and request    *)
(* interrupts, and the one that stops, restarts and destroys are modelled  *)
(* with it.                                                                *)
(*                                                                         *)
(* One action is one critical section of st->mu, or one access to the      *)
(* state the code shares without it: interrupt, interrupt_requested, the   *)
(* worker flags and the ingress queues.  cpu_run holds st->mu over several *)
(* steps, every other holder for one, so "mu is free" is a condition on    *)
(* the program counter of cpu_run.                                         *)
(***************************************************************************)
EXTENDS KernelHooks, FiniteSets

CONSTANTS
    NWorkers,     \* workers of the loaded program; worker 0 is the kernel
    CapThreads,   \* cap_threads, the most pool threads there can be
    QMax,         \* EPA_INGRESS_QMAX
    MaxTicks,     \* the max_ticks argument of every run; 0 is no budget
    IgnoreMax,    \* the workers with ignore_max_ticks
    Producers,    \* host threads calling epa_kernel_ingress_push
    Interrupters, \* callers of epa_kernel_request_interrupt
    Ops           \* the kinds of instruction the program contains

\* "threads" lets the pool grow, "nospawn" lets pthread_create fail as it does.
OpKind == {"step", "park", "wait", "end", "fault", "exec", "halt", "retire",
           "sync", "reset", "threads", "nospawn"}

ASSUME ConstantsOK ==
    /\ NWorkers \in Nat \ {0}
    /\ CapThreads \in Nat \ {0}
    /\ QMax \in Nat \ {0}
    /\ MaxTicks \in Nat
    /\ Ops \subseteq OpKind

Workers == 0 .. NWorkers - 1
Tids    == 0 .. CapThreads - 1
None    == -1
RunLoop == -2          \* the thread in cpu_run, where a set of waiters needs a name for it

VARIABLES
    flags,             \* wid -> the flags of the worker that are up
    ingress,           \* wid -> messages in ingress.inq[wid]
    curWid,            \* k->impl.cur_wid, one for all pool threads
    interruptRequested,\* k->impl.interrupt_requested
    interrupt,         \* st->interrupt
    stop,              \* st->stop
    nThreads,          \* st->n_threads
    tidToWid,          \* st->tid_to_wid
    widToTid,          \* st->wid_to_tid
    waiters,           \* threads asleep in cond_wait on st->cv
    rpc,               \* where the thread running the kernel is
    rc,                \* what cpu_run returned last
    ticks,             \* the ticks of cpu_run, management cycles
    cursor,            \* the wid cpu_bind_runnable looks at, 0 outside it
    tpc,               \* tid -> where the pool thread is
    lwid,              \* tid -> wid, the local variable of cpu_worker_thread_main, 0 out of scope
    apc,               \* where the caller of epa_sched_cpu_thread_add_threads is
    adding,            \* the tids it still has to spawn
    ppc,               \* producer -> "idle", or "pushed" with the wake still to do
    ipc,               \* interrupter -> the next store of cpu_request_interrupt
    hpc,               \* where the host in stop_kernel, start_kernel, destroy is
    stopRequested      \* entry->stop_requested

flagVars == <<flags, ingress, curWid>>
intVars  == <<interruptRequested, interrupt>>
bindVars == <<tidToWid, widToTid>>
runVars  == <<rpc, rc, ticks, cursor>>
poolVars == <<tpc, lwid>>
addVars  == <<apc, adding>>
hostVars == <<ppc, ipc, hpc, stopRequested>>
vars == <<flagVars, intVars, stop, nThreads, bindVars, waiters, runVars, poolVars,
          addVars, hostVars>>

RunPC  == {"ready", "enter", "entered", "upfront", "top", "lock", "bind", "decide", "asleep",
           "barrier", "clear", "lower", "return", "done"}
TidPC  == {"unborn", "top", "loop", "exec", "wake", "unbind", "ended", "exit"}
HostPC == {"up", "flagged", "requested", "raised", "joining", "down", "destroying", "freed"}

\* The values of the variables; lwid and rc have values where the locals they stand for
\* are out of scope.
TypeOK ==
    /\ flags \in [Workers -> SUBSET Flag]
    /\ ingress \in [Workers -> 0 .. QMax]
    /\ curWid \in Workers
    /\ interruptRequested \in BOOLEAN
    /\ interrupt \in BOOLEAN
    /\ stop \in BOOLEAN
    /\ nThreads \in 0 .. CapThreads
    /\ tidToWid \in [Tids -> Workers \union {None}]
    /\ widToTid \in [Workers -> Tids \union {None}]
    /\ waiters \subseteq Tids \union {RunLoop}
    /\ rpc \in RunPC
    /\ rc \in 0 .. 2
    /\ ticks \in 0 .. MaxTicks
    /\ cursor \in 0 .. NWorkers
    /\ tpc \in [Tids -> TidPC]
    /\ lwid \in [Tids -> Workers]
    /\ apc \in {"idle", "spawn"}
    /\ adding \subseteq Tids
    /\ ppc \in [Producers -> {"idle", "pushed"}]
    /\ ipc \in [Interrupters -> {"idle", "raise", "broadcast"}]
    /\ hpc \in HostPC
    /\ stopRequested \in BOOLEAN

----------------------------------------------------------------------------
(* Helpers                                                                 *)

\* cpu_run holds st->mu from cpu_bind_runnable to its cond_wait or return, and from a cond_wait
\* of the barrier to its return.
MuFree == rpc \notin {"bind", "decide", "clear", "lower"}

\* Mutants of Broadcast and unbind_locked: a signal wakes one sleeper; the worker keeps
\* its thread.
SignalOne ==
    IF waiters = {} THEN waiters' = {} ELSE \E x \in waiters : waiters' = waiters \ {x}
UnbindTidOnly(t) ==
    /\ UNCHANGED widToTid
    /\ tidToWid' = [tidToWid EXCEPT ![t] = None]

Broadcast == waiters' = {}

\* unbind_locked.
Unbind(t) ==
    /\ widToTid' = IF tidToWid[t] = None THEN widToTid
                   ELSE [widToTid EXCEPT ![tidToWid[t]] = None]
    /\ tidToWid' = [tidToWid EXCEPT ![t] = None]

\* Mutants: the scan stops one thread early; a bound worker is bound again.
AllIdleButLast == \A t \in Tids : t < nThreads - 1 => tidToWid[t] = None
AnyWorker(w) == TRUE

\* The worker has no thread: "already bound" workers are passed over.
Unbound(w) == widToTid[w] = None

\* all_threads_idle_locked looks at the first n_threads only.
AllIdle == \A t \in Tids : t < nThreads => tidToWid[t] = None

FreeTids == {t \in Tids : t < nThreads /\ tidToWid[t] = None}

IgnoringRunnable == \E w \in IgnoreMax : Runnable(flags, w)
\* The lowest of a set of tids, the one the scans of tid_to_wid find first.
First(S) == CHOOSE t \in S : \A u \in S : t <= u

----------------------------------------------------------------------------
(* cpu_init, then module_kernel_thread_main about to run the kernel        *)

Init ==
    /\ flags = BootFlags(Workers)
    /\ ingress = [w \in Workers |-> 0]
    /\ curWid = 0
    /\ interruptRequested = FALSE
    /\ interrupt = FALSE
    /\ stop = FALSE
    /\ nThreads = 1
    /\ tidToWid = [t \in Tids |-> None]
    /\ widToTid = [w \in Workers |-> None]
    /\ waiters = {}
    /\ rpc = "ready"
    /\ rc = 2
    /\ ticks = 0
    /\ cursor = 0
    /\ tpc = [t \in Tids |-> IF t = 0 THEN "top" ELSE "unborn"]
    /\ lwid = [t \in Tids |-> 0]
    /\ apc = "idle"
    /\ adding = {}
    /\ ppc = [p \in Producers |-> "idle"]
    /\ ipc = [i \in Interrupters |-> "idle"]
    /\ hpc = "up"
    /\ stopRequested = FALSE

----------------------------------------------------------------------------
(* epa_kernel_drain_ingress, outside st->mu.  A delivery that fails - the  *)
(* input ring of the worker is full - faults the worker, keeps its message *)
(* and those of the workers after it, and ends the run with an error.      *)

Pending == {w \in Workers : ingress[w] > 0}

DrainAll ==
    /\ flags' = Deliver(flags, Pending)
    /\ ingress' = [w \in Workers |-> 0]
    /\ IF Pending = {} THEN UNCHANGED waiters ELSE Broadcast

\* The workers served before the delivery to w fails with `left` messages still queued.
Served(w, left) == {v \in Pending : v < w \/ (v = w /\ left < ingress[w])}

DrainStuck ==
    \E w \in Pending : \E left \in 1 .. ingress[w] :
        /\ flags' = Raise(Deliver(flags, Served(w, left)), w, {"faulted"})
        /\ ingress' = [v \in Workers |-> IF v < w THEN 0 ELSE IF v = w THEN left ELSE ingress[v]]
        /\ IF Served(w, left) = {} THEN UNCHANGED waiters ELSE Broadcast

----------------------------------------------------------------------------
(* module_kernel_thread_main and cpu_run                                   *)

\* The top of the loop of module_kernel_thread_main.
RunReady ==
    /\ rpc = "ready"
    /\ rpc' = IF stopRequested THEN "done" ELSE "enter"
    /\ UNCHANGED <<flagVars, intVars, stop, nThreads, bindVars, waiters, rc, ticks, cursor,
                   poolVars, addVars, hostVars>>

\* "Clear interrupt pause at the start of a run invocation": two stores.
RunEnter ==
    /\ rpc = "enter"
    /\ rpc' = "entered"
    /\ interrupt' = FALSE
    /\ UNCHANGED <<flagVars, interruptRequested, stop, nThreads, bindVars, waiters, rc, ticks,
                   cursor, poolVars, addVars, hostVars>>

RunEntered ==
    /\ rpc = "entered"
    /\ rpc' = "upfront"
    /\ interruptRequested' = FALSE
    /\ UNCHANGED <<flagVars, interrupt, stop, nThreads, bindVars, waiters, rc, ticks, cursor,
                   poolVars, addVars, hostVars>>

Return(code) == rc' = code /\ rpc' = "return"

\* The drain in front of the management loop.
RunUpfront ==
    /\ rpc = "upfront"
    /\ \/ DrainAll /\ rpc' = "top" /\ ticks' = 0 /\ UNCHANGED rc
       \/ DrainStuck /\ Return(0) /\ UNCHANGED ticks
    /\ UNCHANGED <<curWid, intVars, stop, nThreads, bindVars, cursor, poolVars, addVars, hostVars>>

\* The management cycle up to pthread_mutex_lock: budget, worker 0, drain, ticks.
\* ticks is only compared with max_ticks, so it stays there once it is reached.
RunTop ==
    /\ rpc = "top"
    /\ \/ /\ \/ MaxTicks > 0 /\ ticks >= MaxTicks /\ ~IgnoringRunnable
             \/ "faulted" \in flags[0]
          /\ Return(0)
          /\ UNCHANGED <<flagVars, waiters, ticks>>
       \/ /\ ~(MaxTicks > 0 /\ ticks >= MaxTicks /\ ~IgnoringRunnable)
          /\ "faulted" \notin flags[0]
          /\ \/ /\ DrainAll
                /\ ticks' = LET seen == IF Pending = {} THEN ticks ELSE 0 IN
                            IF seen = MaxTicks \/ IgnoringRunnable' THEN seen ELSE seen + 1
                /\ rpc' = "lock"
                /\ UNCHANGED rc
             \/ DrainStuck /\ Return(0) /\ UNCHANGED ticks
    /\ UNCHANGED <<curWid, intVars, stop, nThreads, bindVars, cursor, poolVars, addVars, hostVars>>

\* pthread_mutex_lock, and the flags cpu_bind_runnable looks at first.
RunLock ==
    /\ rpc = "lock"
    /\ rpc' = IF interrupt \/ interruptRequested THEN "decide" ELSE "bind"
    /\ UNCHANGED <<flagVars, intVars, stop, nThreads, bindVars, waiters, rc, ticks, cursor,
                   poolVars, addVars, hostVars>>

\* One iteration of cpu_bind_runnable, or its end.
RunBind ==
    /\ rpc = "bind"
    /\ \/ /\ cursor = NWorkers
          /\ rpc' = "decide"
          /\ cursor' = 0
          /\ Broadcast
          /\ UNCHANGED bindVars
       \/ /\ cursor < NWorkers
          /\ ~(Runnable(flags, cursor) /\ Unbound(cursor))
          /\ cursor' = cursor + 1
          /\ UNCHANGED <<bindVars, waiters, rpc>>
       \/ /\ cursor < NWorkers
          /\ Runnable(flags, cursor) /\ Unbound(cursor)
          /\ IF FreeTids = {}
             THEN rpc' = "decide" /\ cursor' = 0 /\ UNCHANGED <<bindVars, waiters>>
             ELSE /\ tidToWid' = [tidToWid EXCEPT ![First(FreeTids)] = cursor]
                  /\ widToTid' = [widToTid EXCEPT ![cursor] = First(FreeTids)]
                  /\ Broadcast
                  /\ cursor' = cursor + 1
                  /\ UNCHANGED rpc
    /\ UNCHANGED <<flagVars, intVars, stop, nThreads, rc, ticks, poolVars, addVars, hostVars>>

Unassigned == {w \in Workers : Runnable(flags, w) /\ Unbound(w)}

\* The rest of the management cycle: raise the barrier, give up, or sleep.
RunDecide ==
    /\ rpc = "decide"
    /\ \/ /\ interruptRequested
          /\ interrupt' = TRUE
          /\ IF stop \/ AllIdle THEN Broadcast /\ rpc' = "clear"
                                ELSE waiters' = {RunLoop} /\ rpc' = "barrier"
          /\ UNCHANGED <<interruptRequested, rc>>
       \/ /\ ~interruptRequested
          /\ IF Unassigned = {} /\ MaxTicks > 0 /\ AllIdle
             THEN Return(1) /\ UNCHANGED waiters
             ELSE waiters' = waiters \union {RunLoop} /\ rpc' = "asleep" /\ UNCHANGED rc
          /\ UNCHANGED intVars
    /\ UNCHANGED <<flagVars, stop, nThreads, bindVars, ticks, cursor, poolVars, addVars, hostVars>>

RunAwake ==
    /\ rpc = "asleep"
    /\ RunLoop \notin waiters
    /\ rpc' = "top"
    /\ UNCHANGED <<flagVars, intVars, stop, nThreads, bindVars, waiters, rc, ticks, cursor,
                   poolVars, addVars, hostVars>>

\* The while loop of the interrupt barrier, each time cond_wait returns.
RunBarrier ==
    /\ rpc = "barrier"
    /\ RunLoop \notin waiters
    /\ IF stop \/ AllIdle
       THEN rpc' = "clear" /\ UNCHANGED waiters
       ELSE waiters' = waiters \union {RunLoop} /\ UNCHANGED rpc
    /\ UNCHANGED <<flagVars, intVars, stop, nThreads, bindVars, rc, ticks, cursor, poolVars, addVars,
                   hostVars>>

\* "Clear and yield": two stores under st->mu, which does not keep cpu_request_interrupt from
\* its own.
RunClear ==
    /\ rpc = "clear"
    /\ rpc' = "lower"
    /\ interruptRequested' = FALSE
    /\ UNCHANGED <<flagVars, interrupt, stop, nThreads, bindVars, waiters, rc, ticks, cursor,
                   poolVars, addVars, hostVars>>

RunLower ==
    /\ rpc = "lower"
    /\ interrupt' = FALSE
    /\ Return(2)
    /\ UNCHANGED <<flagVars, interruptRequested, stop, nThreads, bindVars, waiters, ticks, cursor,
                   poolVars, addVars, hostVars>>

\* Back in the caller: module_kernel_thread_main runs without a budget and again
\* after a yield only; a host that steps with a budget may call again at any time.
RunReturn ==
    /\ rpc = "return"
    /\ IF MaxTicks = 0
       THEN rpc' = IF rc = 2 /\ ~stopRequested THEN "ready" ELSE "done"
       ELSE rpc' \in {"ready", "done"}
    /\ UNCHANGED <<flagVars, intVars, stop, nThreads, bindVars, waiters, rc, ticks, cursor,
                   poolVars, addVars, hostVars>>

RunNext ==
    \/ RunReady \/ RunEnter \/ RunEntered \/ RunUpfront \/ RunTop \/ RunLock \/ RunBind
    \/ RunDecide \/ RunAwake \/ RunBarrier \/ RunClear \/ RunLower \/ RunReturn

----------------------------------------------------------------------------
(* cpu_worker_thread_main                                                  *)

Goto(t, pc) == tpc' = [tpc EXCEPT ![t] = pc]

\* The critical section at the top of the outer loop.  Under an interrupt a thread
\* without a worker goes round it without sleeping: that step changes nothing.
TidTop(t) ==
    /\ tpc[t] = "top"
    /\ t \notin waiters
    /\ MuFree
    /\ \/ /\ stop
          /\ Goto(t, "exit")
          /\ UNCHANGED <<bindVars, waiters, lwid>>
       \/ /\ ~stop
          /\ interrupt
          /\ tidToWid[t] # None
          /\ Unbind(t)
          /\ Broadcast
          /\ UNCHANGED poolVars
       \/ /\ ~stop
          /\ ~interrupt
          /\ tidToWid[t] = None
          /\ waiters' = waiters \union {t}
          /\ UNCHANGED <<bindVars, poolVars>>
       \/ /\ ~stop
          /\ ~interrupt
          /\ tidToWid[t] # None
          /\ lwid' = [lwid EXCEPT ![t] = tidToWid[t]]
          /\ Goto(t, "loop")
          /\ UNCHANGED <<bindVars, waiters>>
    /\ UNCHANGED <<flagVars, intVars, stop, nThreads, runVars, addVars, hostVars>>

\* The checks in front of every tick, made without st->mu.
TidLoop(t) ==
    /\ tpc[t] = "loop"
    /\ IF interrupt \/ interruptRequested \/ ~Runnable(flags, lwid[t])
       THEN Goto(t, "unbind") /\ UNCHANGED curWid
       ELSE Goto(t, "exec") /\ curWid' = lwid[t]
    /\ UNCHANGED <<flags, ingress, intVars, stop, nThreads, bindVars, waiters, runVars, lwid,
                   addVars, hostVars>>

\* The three places that return the thread to the pool.
TidUnbind(t) ==
    /\ tpc[t] = "unbind"
    /\ MuFree
    /\ IF tidToWid[t] = lwid[t] THEN Unbind(t) /\ Broadcast ELSE UNCHANGED <<bindVars, waiters>>
    /\ Goto(t, "top")
    /\ lwid' = [lwid EXCEPT ![t] = 0]
    /\ UNCHANGED <<flagVars, intVars, stop, nThreads, runVars, addVars, hostVars>>

\* exec_one_tick, as far as the scheduler can see: an instruction of the worker's program
\* goes on, parks the worker, ends or faults it, or has a hook act on the flags.  The
\* wake of hook_entry_exec and the unbinding after a fault are steps of their own; hook_sync
\* acts on cur_wid, which is the worker whose tick was begun last by any thread.  A pending
\* boot reset is committed by whichever tick ends next, so by a tick of any worker.
TidTick(t) ==
    /\ tpc[t] = "exec"
    /\ LET w == lwid[t] IN
       \/ "step" \in Ops /\ flags' = flags /\ Goto(t, "loop")
       \/ "park" \in Ops /\ flags' = Raise(flags, w, {"blocked"}) /\ Goto(t, "loop")
       \/ "wait" \in Ops /\ w # 0 /\ flags' = Raise(flags, w, {"blocked", "waiting"}) /\ Goto(t, "loop")
       \/ "end" \in Ops /\ flags' = Raise(flags, w, {"halted"}) /\ Goto(t, "loop")
       \/ "fault" \in Ops /\ flags' = Raise(flags, w, {"faulted"}) /\ Goto(t, "unbind")
       \/ "exec" \in Ops /\ \E v \in Workers : flags' = EntryExec(flags, v) /\ Goto(t, "wake")
       \/ "halt" \in Ops /\ \E v \in Workers : flags' = EntryHalt(flags, v) /\ Goto(t, "loop")
       \/ "retire" \in Ops /\ \E v \in Workers : flags' = EntryRetire(flags, v) /\ Goto(t, "loop")
       \/ "sync" \in Ops /\ flags' = SyncFlags(flags, curWid) /\ Goto(t, "loop")
       \/ "reset" \in Ops /\ flags' = BootFlags(Workers) /\ Goto(t, "ended")
    /\ UNCHANGED <<ingress, curWid, intVars, stop, nThreads, bindVars, waiters, runVars, lwid,
                   addVars, hostVars>>

\* cpu_wake, called from hook_entry_exec.
TidWake(t) ==
    /\ tpc[t] = "wake"
    /\ MuFree
    /\ Broadcast
    /\ Goto(t, "loop")
    /\ UNCHANGED <<flagVars, intVars, stop, nThreads, bindVars, runVars, lwid, addVars, hostVars>>

\* rc 2 of exec_one_tick: the thread stops the pool and keeps its binding.
TidEnded(t) ==
    /\ tpc[t] = "ended"
    /\ MuFree
    /\ stop' = TRUE
    /\ Broadcast
    /\ Goto(t, "top")
    /\ lwid' = [lwid EXCEPT ![t] = 0]
    /\ UNCHANGED <<flagVars, intVars, nThreads, bindVars, runVars, addVars, hostVars>>

TidNext(t) ==
    TidTop(t) \/ TidLoop(t) \/ TidUnbind(t) \/ TidTick(t) \/ TidWake(t) \/ TidEnded(t)

----------------------------------------------------------------------------
(* epa_sched_cpu_thread_add_threads, called by a host or by REQUEST_THREADS *)

\* Mutant: the capacity test lets one thread too many pass.
AddReserveOver ==
    /\ "threads" \in Ops
    /\ apc = "idle"
    /\ nThreads <= CapThreads
    /\ nThreads' = nThreads + 1
    /\ adding' = {nThreads}
    /\ apc' = "spawn"
    /\ MuFree
    /\ UNCHANGED <<flagVars, intVars, stop, bindVars, waiters, runVars, poolVars, hostVars>>

AddReserve ==
    /\ "threads" \in Ops
    /\ apc = "idle"
    /\ hpc \notin {"destroying", "freed"}
    /\ \E n \in nThreads + 1 .. CapThreads :
          /\ adding' = nThreads .. n - 1
          /\ nThreads' = n
    /\ apc' = "spawn"
    /\ MuFree
    /\ UNCHANGED <<flagVars, intVars, stop, bindVars, waiters, runVars, poolVars, hostVars>>

AddSpawn ==
    /\ apc = "spawn"
    /\ adding # {}
    /\ Goto(First(adding), "top")
    /\ adding' = adding \ {First(adding)}
    /\ UNCHANGED <<flagVars, intVars, stop, nThreads, bindVars, waiters, runVars, lwid, apc,
                   hostVars>>

\* pthread_create fails: the count goes back, and nobody is told.
AddSpawnFails ==
    /\ "nospawn" \in Ops
    /\ apc = "spawn"
    /\ adding # {}
    /\ MuFree
    /\ nThreads' = First(adding)
    /\ adding' = {}
    /\ apc' = "idle"
    /\ UNCHANGED <<flagVars, intVars, stop, bindVars, waiters, runVars, poolVars, hostVars>>

AddDone ==
    /\ apc = "spawn"
    /\ adding = {}
    /\ MuFree
    /\ Broadcast
    /\ apc' = "idle"
    /\ UNCHANGED <<flagVars, intVars, stop, nThreads, bindVars, runVars, poolVars, adding,
                   hostVars>>

AddNext == AddReserve \/ AddSpawn \/ AddSpawnFails \/ AddDone

----------------------------------------------------------------------------
(* Host threads                                                            *)

\* epa_kernel_ingress_push_framed: the message first, the wake later.
Push(p) ==
    /\ ppc[p] = "idle"
    /\ hpc # "freed"
    /\ \E w \in Workers : ingress[w] < QMax /\ ingress' = [ingress EXCEPT ![w] = @ + 1]
    /\ ppc' = [ppc EXCEPT ![p] = "pushed"]
    /\ UNCHANGED <<flags, curWid, intVars, stop, nThreads, bindVars, waiters, runVars, poolVars,
                   addVars, ipc, hpc, stopRequested>>

PushWake(p) ==
    /\ ppc[p] = "pushed"
    /\ MuFree
    /\ Broadcast
    /\ ppc' = [ppc EXCEPT ![p] = "idle"]
    /\ UNCHANGED <<flagVars, intVars, stop, nThreads, bindVars, runVars, poolVars, addVars,
                   ipc, hpc, stopRequested>>

\* cpu_request_interrupt: two stores without st->mu, then a broadcast under it.
Interrupt(i) ==
    /\ \/ /\ ipc[i] = "idle"
          /\ hpc # "freed"
          /\ interruptRequested' = TRUE
          /\ ipc' = [ipc EXCEPT ![i] = "raise"]
          /\ UNCHANGED <<interrupt, waiters>>
       \/ /\ ipc[i] = "raise"
          /\ interrupt' = TRUE
          /\ ipc' = [ipc EXCEPT ![i] = "broadcast"]
          /\ UNCHANGED <<interruptRequested, waiters>>
       \/ /\ ipc[i] = "broadcast"
          /\ MuFree
          /\ Broadcast
          /\ ipc' = [ipc EXCEPT ![i] = "idle"]
          /\ UNCHANGED intVars
    /\ UNCHANGED <<flagVars, stop, nThreads, bindVars, runVars, poolVars, addVars,
                   ppc, hpc, stopRequested>>

\* epa_kernel_module_stop_kernel.  thread_started is down once the thread is done, and
\* was never up where a host steps the kernel with a budget.
StopKernel ==
    /\ hpc = "up"
    /\ \/ rpc = "done" /\ hpc' = "down" /\ UNCHANGED stopRequested
       \/ rpc # "done" /\ MaxTicks = 0 /\ hpc' = "flagged" /\ stopRequested' = TRUE
    /\ UNCHANGED <<flagVars, intVars, stop, nThreads, bindVars, waiters, runVars, poolVars, addVars,
                   ppc, ipc>>

\* Its call of epa_kernel_request_interrupt, and its pthread_join.
StopProceeds ==
    /\ \/ /\ hpc = "flagged"
          /\ hpc' = "requested"
          /\ interruptRequested' = TRUE
          /\ UNCHANGED <<interrupt, waiters>>
       \/ /\ hpc = "requested"
          /\ hpc' = "raised"
          /\ interrupt' = TRUE
          /\ UNCHANGED <<interruptRequested, waiters>>
       \/ /\ hpc = "raised"
          /\ MuFree
          /\ hpc' = "joining"
          /\ Broadcast
          /\ UNCHANGED intVars
       \/ /\ hpc = "joining"
          /\ rpc = "done"
          /\ hpc' = "down"
          /\ UNCHANGED <<intVars, waiters>>
    /\ UNCHANGED <<flagVars, stop, nThreads, bindVars, runVars, poolVars, addVars, ppc, ipc,
                   stopRequested>>

\* epa_kernel_module_start_kernel, which refuses a kernel whose run ended with 1 or 0.
StartKernel ==
    /\ hpc = "down"
    /\ MaxTicks = 0
    /\ rc = 2
    /\ hpc' = "up"
    /\ stopRequested' = FALSE
    /\ rpc' = "ready"
    /\ UNCHANGED <<flagVars, intVars, stop, nThreads, bindVars, waiters, rc, ticks, cursor, poolVars,
                   addVars, ppc, ipc>>

\* cpu_destroy, by epa_kernel_set_scheduler: stop the pool, then join it.
Destroy ==
    /\ hpc = "down"
    /\ apc = "idle"
    /\ hpc' = "destroying"
    /\ stop' = TRUE
    /\ Broadcast
    /\ UNCHANGED <<flagVars, intVars, nThreads, bindVars, runVars, poolVars, addVars, ppc, ipc,
                   stopRequested>>

Destroyed ==
    /\ hpc = "destroying"
    /\ \A t \in Tids : t < nThreads => tpc[t] \in {"unborn", "exit"}
    /\ hpc' = "freed"
    /\ UNCHANGED <<flagVars, intVars, stop, nThreads, bindVars, waiters, runVars, poolVars, addVars,
                   ppc, ipc, stopRequested>>

HostNext == StopKernel \/ StopProceeds \/ StartKernel \/ Destroy \/ Destroyed

\* POSIX lets cond_wait return without a broadcast.
SpuriousWake ==
    /\ \E x \in waiters : waiters' = waiters \ {x}
    /\ UNCHANGED <<flagVars, intVars, stop, nThreads, bindVars, runVars, poolVars, addVars, hostVars>>

----------------------------------------------------------------------------

Next ==
    \/ RunNext
    \/ \E t \in Tids : TidNext(t)
    \/ AddNext
    \/ \E p \in Producers : Push(p) \/ PushWake(p)
    \/ \E i \in Interrupters : Interrupt(i)
    \/ HostNext
    \/ SpuriousWake

Spec == Init /\ [][Next]_vars

\* Every thread keeps running, and whoever waits for st->mu gets it in the end: strong
\* fairness, because cpu_run may take the mutex again and again.  Nothing makes a host push,
\* stop, start or destroy, and nothing makes cond_wait return by itself.
FairSpec ==
    /\ Spec
    /\ WF_vars(RunNext)
    /\ \A t \in Tids : SF_vars(TidNext(t))
    /\ SF_vars(AddSpawn) /\ SF_vars(AddDone)
    /\ \A p \in Producers : SF_vars(PushWake(p))
    /\ \A i \in Interrupters : SF_vars(Interrupt(i) /\ ipc[i] # "idle")
    /\ SF_vars(StopProceeds) /\ WF_vars(Destroyed)

----------------------------------------------------------------------------
(* Properties                                                              *)

\* The thread is between picking its worker up and giving it back.
Serving(t) == tpc[t] \in {"loop", "exec", "wake", "unbind", "ended"}

\* "One OS thread is bound to at most one worker at a time" and back: the two maps of
\* CpuThreadState are inverse to each other whenever no critical section is open.
BindingsInverse ==
    \A t \in Tids, w \in Workers : (tidToWid[t] = w) <=> (widToTid[w] = t)

\* A worker's program is never run by two pool threads at once, although a thread reads
\* its worker once, under the mutex, and ticks it from its own copy without the mutex
\* while the management loop hands out workers.
OneThreadPerWorker ==
    \A t, u \in Tids : Serving(t) /\ Serving(u) /\ lwid[t] = lwid[u] => t = u

\* cpu_run has returned 2 or 1, and no management cycle has begun since.
Yielded ==
    rc \in {1, 2} /\ rpc \in {"return", "ready", "enter", "entered", "upfront", "done"}

\* "scheduler returns 2 once all threads are idle": from a yield to the next management
\* cycle no pool thread is inside a tick, unless the pool was stopped by a boot reset.
Quiescent == Yielded /\ ~stop => \A t \in Tids : ~Serving(t)

\* A pool thread that is asleep has nothing to do: whenever it has a worker, the pool is
\* stopped or an interrupt is up, the broadcast that says so has been or will be made.
NoSleepOnWork ==
    \A t \in waiters \ {RunLoop} : tidToWid[t] = None /\ ~stop

\* What makes the above inductive.  A thread that serves a worker is still bound to it:
\* RunBind takes unbound threads only, and a thread unbinds itself alone.
ServingBound == \A t \in Tids : Serving(t) => tidToWid[t] = lwid[t]

\* The threads that are bound are among those all_threads_idle_locked looks at, and they
\* are idle from a yield on.  Both rest on pthread_create never failing.
BoundBelow == \A t \in Tids : tidToWid[t] # None => t < nThreads
Yielding   == rpc \in {"clear", "lower"} \/ Yielded
SpawnInv   == "nospawn" \notin Ops => BoundBelow /\ (Yielding /\ ~stop => AllIdle)

\* The host has joined the thread in module_kernel_thread_main.
HostJoined == hpc \in {"down", "destroying", "freed"} => rpc = "done"

IInv ==
    /\ TypeOK
    /\ BindingsInverse
    /\ ServingBound
    /\ NoSleepOnWork
    /\ HostJoined
    /\ SpawnInv

\* "worker threads finish at most one tick and then park (unbind); scheduler returns 2":
\* an interrupt that the management loop has seen the flag of makes cpu_run return.
Managing == rpc \in {"top", "lock", "bind", "decide", "asleep", "barrier", "clear", "lower"}

InterruptReturns == (interruptRequested /\ Managing) ~> (rpc = "return")

\* The same for the flag of the pool, whenever it was raised: this is what the comment on
\* `interrupt` says of the scheduler and what stop_kernel, which then joins, relies on.
InterruptHonoured == interrupt ~> (rpc \in {"return", "done"})

\* hook_sync makes worker 0 runnable and wakes nobody.  The unbinding of its caller does,
\* unless cur_wid was not the caller (SyncCaller) and the caller goes on.
Overlooked == IF "sync" \in Ops THEN {0} ELSE {}

\* A runnable worker without a thread and a thread without a worker do not stay that way while
\* the kernel runs uninterrupted: whenever entry_exec makes a worker runnable, a worker that
\* parks, halts or faults frees its thread, or the pool grows, cpu_run is woken and
\* looks again.  Worker 0 is left out of this for programs with SYNC.
Stranded ==
    /\ Managing
    /\ ~stop /\ ~interrupt
    /\ Unassigned \ Overlooked # {}
    /\ \E t \in FreeTids : tpc[t] = "top"

WorkConserving == Stranded ~> ~Stranded

\* "Unblock kernel slot 0 immediately so it can service syncs": the same for worker 0.
Unserved == /\ Managing /\ ~stop /\ ~interrupt
            /\ 0 \in Unassigned
            /\ \E t \in FreeTids : tpc[t] = "top"

SyncServed == Unserved ~> ~Unserved

\* "sleep until woken by ingress": a message pushed while cpu_run manages the kernel is
\* delivered, or the run ends.
IngressDelivered == \A w \in Workers : (ingress[w] > 0 /\ Managing) ~> (ingress[w] = 0 \/ ~Managing)

\* "Barrier notification only: record which worker hit SYNC": what hook_sync records and
\* parks, cur_wid, is the worker in whose tick it is called.
SyncCaller == \A t \in Tids : tpc[t] = "exec" => curWid = lwid[t]

\* exec_one_tick claims "same semantics as wave scheduler", where a boot reset ends the run:
\* wave_run returns 2 and its caller runs the kernel again.
ResetEndsRun == (\E t \in Tids : tpc[t] = "ended") ~> (rpc \in {"return", "done"})

\* "stop all worker threads": after st->stop the pool threads exit.
PoolStops == stop ~> (\A t \in Tids : tpc[t] \in {"unborn", "exit"})
=============================================================================
