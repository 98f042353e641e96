----------------------------- MODULE WaveSched -----------------------------
(***************************************************************************)
(* The wave scheduler of an EPA kernel (epa_sched_wave.c): wave_run gives  *)
(* every runnable worker one tick per round, in the order of the list of   *)
(* active workers from rr_cursor on, and drains the ingress queues between *)
(* two rounds.  The thread that calls it, the hosts that push ingress and  *)
(* request interrupts, and the one that stops and restarts the kernel are  *)
(* modelled with it.                                                       *)
(*                                                                         *)
(* wave_run takes no lock: what it shares with the hosts is the ingress    *)
(* queues, interrupt_requested and stop_requested.  A tick and the look at *)
(* interrupt_requested that follows are one action, because no tick reads  *)
(* the flag: a request during the tick is one that came before it.         *)
(***************************************************************************)
EXTENDS KernelHooks, FiniteSets

CONSTANTS
    NWorkers,   \* workers of the loaded program; worker 0 is the kernel
    QMax,       \* EPA_INGRESS_QMAX
    Budgets,    \* the values max_ticks may have; 0 is no budget
    IgnoreMax,  \* the workers with ignore_max_ticks
    Ops         \* the kinds of instruction the program contains

OpKind == {"step", "yield", "park", "wait", "end", "fault", "except", "exec", "halt",
           "retire", "sync", "reset"}

ASSUME ConstantsOK ==
    /\ NWorkers \in Nat \ {0}
    /\ QMax \in Nat \ {0}
    /\ Budgets \subseteq Nat
    /\ Ops \subseteq OpKind

Workers == 0 .. NWorkers - 1

\* The ticks a worker is seen to wait for are counted up to one more than WaitBound.
WaitMax == 2 * NWorkers - 1

VARIABLES
    flags,              \* wid -> the flags of the worker that are up
    ingress,            \* wid -> messages in ingress.inq[wid]
    active,             \* the wids in the list from worker_head over worker_next, ascending
    rrCursor,           \* k->impl.rr_cursor
    interruptRequested, \* k->impl.interrupt_requested
    budget,             \* max_ticks of the runs of this kernel
    pc,                 \* where the thread running the kernel is
    rc,                 \* what wave_run returned last
    ticks,              \* ticks of wave_run; only compared with max_ticks, so it stays there
    start,              \* rr_cursor when the round began: with todo, the array order
    todo,               \* the wids of order not yet visited
    anyRan,             \* any_ran
    waited,             \* history: wid -> the ticks of others it waits for while it can run;
                        \* a run that fails and a boot reset start it anew
    hpc,                \* where the host in stop_kernel, start_kernel is
    stopRequested       \* entry->stop_requested

listVars  == <<active, rrCursor>>
roundVars == <<start, todo, anyRan>>
hostVars  == <<hpc, stopRequested>>
vars == <<flags, ingress, listVars, interruptRequested, budget, pc, rc, ticks, roundVars,
          waited, hostVars>>

RunPC == {"ready", "enter", "upfront", "round", "turn", "drain", "return", "done"}

\* The values of the variables; start, todo and anyRan have those of Init where the locals they
\* stand for are out of scope.
TypeOK ==
    /\ flags \in [Workers -> SUBSET Flag]
    /\ ingress \in [Workers -> 0 .. QMax]
    /\ active \subseteq Workers
    /\ rrCursor \in Workers
    /\ interruptRequested \in BOOLEAN
    /\ budget \in Budgets
    /\ pc \in RunPC
    /\ rc \in 0 .. 2
    /\ ticks \in 0 .. budget
    /\ start \in Workers
    /\ todo \subseteq Workers
    /\ anyRan \in BOOLEAN
    /\ waited \in [Workers -> 0 .. WaitMax]
    /\ hpc \in {"up", "flagged", "joining", "down"}
    /\ stopRequested \in BOOLEAN

----------------------------------------------------------------------------
(* Helpers                                                                 *)

Least(S) == CHOOSE w \in S : \A v \in S : w <= v

\* The first member of S that a walk over the list from wid c on meets, wrapping to the head.
From(S, c) == Least(IF \E w \in S : w >= c THEN {w \in S : w >= c} ELSE S)

\* Mutant: behind the last worker the cursor is not put back to the head.
NextWid(w) == w + 1

\* next_cursor: worker_next of w, or the head behind the last.
NextCursor(w) == From(active, w + 1)

\* What is left of order behind w.
Behind(w) ==
    IF w >= start THEN {v \in todo : v > w \/ v < start} ELSE {v \in todo : w < v /\ v < start}

IgnoringRunnable == \E w \in IgnoreMax : Runnable(flags, w)

Pending == {w \in Workers : ingress[w] > 0}

\* The workers that can take a tick in what is left of the round.
Ready == {w \in todo : Runnable(flags, w)}

Return(code) == rc' = code /\ pc' = "return"
OutOfScope == start' = 0 /\ todo' = {} /\ anyRan' = FALSE

\* Mutant: the boot keeps the list it finds.
Kept == active

\* init_workers_from_prog links every entry of the program.
Relisted == Workers

NoWait == [w \in Workers |-> 0]

----------------------------------------------------------------------------
(* init_workers_from_prog, then module_kernel_thread_main or a host about  *)
(* to run the kernel                                                       *)

Init ==
    /\ flags = BootFlags(Workers)
    /\ ingress = [w \in Workers |-> 0]
    /\ active = Workers
    /\ rrCursor = 0
    /\ interruptRequested = FALSE
    /\ budget \in Budgets
    /\ pc = "ready"
    /\ rc = 2
    /\ ticks = 0
    /\ start = 0
    /\ todo = {}
    /\ anyRan = FALSE
    /\ waited = NoWait
    /\ hpc = "up"
    /\ stopRequested = FALSE

----------------------------------------------------------------------------
(* The loop of the caller, and wave_run                                    *)

RunReady ==
    /\ pc = "ready"
    /\ pc' = IF stopRequested THEN "done" ELSE "enter"
    /\ UNCHANGED <<flags, ingress, listVars, interruptRequested, budget, rc, ticks, roundVars,
                   waited, hostVars>>

\* An interrupt that was requested before the run is entered is lost here.
RunEnter ==
    /\ pc = "enter"
    /\ pc' = "upfront"
    /\ ticks' = 0
    /\ interruptRequested' = FALSE
    /\ UNCHANGED <<flags, ingress, listVars, budget, rc, roundVars, waited, hostVars>>

\* epa_kernel_drain_ingress.  A delivery that fails - the input ring of the worker is full -
\* faults the worker, keeps its message and those of the workers after it, and ends the run.
DrainAll ==
    /\ flags' = Deliver(flags, Pending)
    /\ ingress' = [w \in Workers |-> 0]
    /\ UNCHANGED waited

DrainStuck ==
    \E w \in Pending : \E left \in 1 .. ingress[w] :
        /\ flags' = LET served == {v \in Pending : v < w \/ (v = w /\ left < ingress[w])}
                    IN  Raise(Deliver(flags, served), w, {"faulted"})
        /\ ingress' = [v \in Workers |-> IF v < w THEN 0 ELSE IF v = w THEN left ELSE ingress[v]]
        /\ waited' = NoWait

RunUpfront ==
    /\ pc = "upfront"
    /\ \/ DrainAll /\ pc' = "round" /\ UNCHANGED rc
       \/ DrainStuck /\ Return(0)
    /\ UNCHANGED <<listVars, interruptRequested, budget, ticks, roundVars, hostVars>>

\* The top of the loop: the budget is looked at between two rounds only, and not while a
\* worker with ignore_max_ticks can run.
RunRound ==
    /\ pc = "round"
    /\ IF budget > 0 /\ ticks >= budget /\ ~IgnoringRunnable
       THEN Return(0) /\ UNCHANGED roundVars
       ELSE /\ pc' = "turn"
            /\ start' = rrCursor
            /\ todo' = active
            /\ anyRan' = FALSE
            /\ UNCHANGED rc
    /\ UNCHANGED <<flags, ingress, listVars, interruptRequested, budget, ticks, waited, hostVars>>

\* Mutants: an interrupted run resumes at the worker that had its tick; a tick is not followed
\* by a look at the flag.
BoundaryStays(next, cursor) ==
    IF interruptRequested
    THEN UNCHANGED rrCursor /\ interruptRequested' = FALSE /\ Return(2)
    ELSE rrCursor' = cursor /\ UNCHANGED <<interruptRequested, pc, rc>>
BoundaryDeaf(next, cursor) ==
    rrCursor' = cursor /\ UNCHANGED <<interruptRequested, pc, rc>>

\* "Safe interrupt boundary": after a tick that leaves the cursor at `cursor`.
Boundary(next, cursor) ==
    IF interruptRequested
    THEN rrCursor' = next /\ interruptRequested' = FALSE /\ Return(2)
    ELSE rrCursor' = cursor /\ UNCHANGED <<interruptRequested, pc, rc>>

\* A tick that ends the run without a look at the interrupt flag.
Leave(cursor, code) == rrCursor' = cursor /\ UNCHANGED interruptRequested /\ Return(code)

\* History: worker w has had its tick, and whoever could and still can run waits for one more.
Waits(w) ==
    waited' = [v \in Workers |->
                 IF v = w \/ ~Runnable(flags, v) \/ ~Runnable(flags', v) THEN 0
                 ELSE IF waited[v] < WaitMax THEN waited[v] + 1 ELSE WaitMax]

\* One instruction of worker w.  Every flow instruction yields, and so the cursor moves on;
\* it is computed before the instruction acts on the list.  A plain instruction ("step")
\* leaves it alone, like the returns for an error and for a boot reset.
Tick(w) ==
    LET next == NextCursor(w) IN
    \/ /\ \/ "yield" \in Ops /\ flags' = flags
          \/ "park" \in Ops /\ flags' = Raise(flags, w, {"blocked"})
          \/ "wait" \in Ops /\ w # 0 /\ flags' = Raise(flags, w, {"blocked", "waiting"})
          \/ "except" \in Ops /\ flags' = Trap(flags, w)
          \/ "sync" \in Ops /\ flags' = SyncFlags(flags, w)
          \/ "exec" \in Ops /\ \E v \in Workers : flags' = EntryExec(flags, v)
          \/ "halt" \in Ops /\ \E v \in Workers : flags' = EntryHalt(flags, v)
       /\ UNCHANGED active
       /\ Boundary(next, next)
       /\ Waits(w)
    \/ /\ "retire" \in Ops
       /\ \E v \in Workers : flags' = EntryRetire(flags, v) /\ active' = active \ {v}
       /\ Boundary(next, next)
       /\ Waits(w)
    \/ /\ "step" \in Ops
       /\ UNCHANGED <<flags, active>>
       /\ Boundary(next, rrCursor)
       /\ Waits(w)
    \/ /\ "end" \in Ops
       /\ flags' = Raise(flags, w, {"halted"})
       /\ UNCHANGED active
       /\ IF w = 0 THEN Leave(next, 1) ELSE Boundary(next, next)
       /\ Waits(w)
    \/ /\ "fault" \in Ops
       /\ flags' \in {Raise(flags, w, {"faulted"}), Trap(flags, w)}
       /\ UNCHANGED active
       /\ Leave(rrCursor, 0)
       /\ waited' = NoWait
    \/ /\ "reset" \in Ops
       /\ flags' = BootFlags(Workers)
       /\ active' = Relisted
       /\ Leave(rrCursor, 2)
       /\ waited' = NoWait

\* The next worker of the round that can run has its tick.
RunTurn ==
    /\ pc = "turn"
    /\ Ready # {}
    /\ LET w == From(Ready, start) IN
       /\ Tick(w)
       /\ IF pc' = "return" THEN OutOfScope
          ELSE todo' = Behind(w) /\ anyRan' = TRUE /\ UNCHANGED start
       /\ ticks' = IF w \in IgnoreMax \/ ticks = budget THEN ticks ELSE ticks + 1
    /\ UNCHANGED <<ingress, budget, hostVars>>

RunTurnsOver ==
    /\ pc = "turn"
    /\ Ready = {}
    /\ pc' = "drain"
    /\ start' = 0 /\ todo' = {}
    /\ UNCHANGED <<flags, ingress, listVars, interruptRequested, budget, rc, ticks, anyRan,
                   waited, hostVars>>

\* Mutant: ingress is served by idle rounds only.
RunDrainIdle ==
    /\ pc = "drain"
    /\ \/ /\ ~anyRan
          /\ DrainAll
          /\ Return(1)
       \/ anyRan /\ pc' = "round" /\ UNCHANGED <<flags, ingress, rc, waited>>
    /\ OutOfScope
    /\ UNCHANGED <<listVars, interruptRequested, budget, ticks, hostVars>>

\* The end of the round: what arrived gives the workers a new budget, and a round in which
\* nobody ran ends the run, even if the drain has just made somebody runnable.
RunDrain ==
    /\ pc = "drain"
    /\ \/ /\ DrainAll
          /\ ticks' = IF Pending = {} THEN ticks ELSE 0
          /\ IF anyRan THEN pc' = "round" /\ UNCHANGED rc ELSE Return(1)
       \/ DrainStuck /\ Return(0) /\ UNCHANGED ticks
    /\ OutOfScope
    /\ UNCHANGED <<listVars, interruptRequested, budget, hostVars>>

\* module_kernel_thread_main runs without a budget and again after a yield only; a host
\* that steps a kernel with a budget may call epa_kernel_run again at any time.
RunReturn ==
    /\ pc = "return"
    /\ pc' \in IF budget = 0 THEN {IF rc = 2 /\ ~stopRequested THEN "ready" ELSE "done"}
               ELSE {"ready", "done"}
    /\ UNCHANGED <<flags, ingress, listVars, interruptRequested, budget, rc, ticks, roundVars,
                   waited, hostVars>>

RunNext ==
    \/ RunReady \/ RunEnter \/ RunUpfront \/ RunRound \/ RunTurn \/ RunTurnsOver \/ RunDrain
    \/ RunReturn

----------------------------------------------------------------------------
(* Host threads                                                            *)

\* epa_kernel_ingress_push_framed; the wave scheduler has no wake.
Push ==
    /\ \E w \in Workers : ingress[w] < QMax /\ ingress' = [ingress EXCEPT ![w] = @ + 1]
    /\ UNCHANGED <<flags, listVars, interruptRequested, budget, pc, rc, ticks, roundVars, waited,
                   hostVars>>

\* wave_request_interrupt.
Interrupt ==
    /\ interruptRequested' = TRUE
    /\ UNCHANGED <<flags, ingress, listVars, budget, pc, rc, ticks, roundVars, waited, hostVars>>

\* epa_kernel_module_stop_kernel: the flag, the interrupt, the pthread_join.  It has nothing
\* to do once the thread is done, and there is no thread where a host steps the kernel.
StopKernel ==
    \/ /\ hpc = "up" /\ budget = 0 /\ pc # "done"
       /\ stopRequested' = TRUE
       /\ hpc' = "flagged"
       /\ UNCHANGED interruptRequested
    \/ /\ hpc = "flagged"
       /\ interruptRequested' = TRUE
       /\ hpc' = "joining"
       /\ UNCHANGED stopRequested
    \/ /\ hpc = "joining" /\ pc = "done"
       /\ hpc' = "down"
       /\ UNCHANGED <<interruptRequested, stopRequested>>

\* epa_kernel_module_start_kernel, which has nothing to do while the thread is there and
\* refuses a kernel whose run ended with 1 or 0.
StartKernel ==
    /\ hpc = "down" /\ pc = "done" /\ rc = 2
    /\ hpc' = "up"
    /\ stopRequested' = FALSE
    /\ pc' = "ready"

HostNext ==
    \/ Push
    \/ Interrupt
    \/ /\ StopKernel
       /\ UNCHANGED <<flags, ingress, listVars, budget, pc, rc, ticks, roundVars, waited>>
    \/ /\ StartKernel
       /\ UNCHANGED <<flags, ingress, listVars, interruptRequested, budget, rc, ticks, roundVars,
                      waited>>

Next == RunNext \/ HostNext

Spec == Init /\ [][Next]_vars

\* The thread in wave_run keeps running; nothing makes a host do anything.
FairSpec == Spec /\ WF_vars(RunNext)

----------------------------------------------------------------------------
(* Properties                                                              *)

\* The list the rounds walk over holds exactly the workers that are not retired: the worker a
\* tick retires, be it the one that ticks, the next or the last, goes for good, nobody goes
\* with it, and a boot reset brings all back.  A runnable worker outside the list would
\* never have a tick.
ListExact == active = {w \in Workers : "retired" \notin flags[w]}

\* Round robin: whatever is yielded, parked, retired, interrupted, reset or delivered in
\* between, a worker that can run waits for at most two ticks of every other worker.
WaitBound == \A w \in Workers : waited[w] < WaitMax

\* What makes WaitBound inductive.  The distance from wid c to wid w in a walk that wraps:
Dist(c, w) == IF w >= c THEN w - c ELSE w - c + NWorkers

\* Nobody waits who cannot run.
OnlyRunnableWait == \A w \in Workers : ~Runnable(flags, w) => waited[w] = 0

\* Between two rounds the wait of a worker and the workers the next round may put before it
\* stay within the bound.
RestWait ==
    pc # "turn" => \A w \in Workers : waited[w] + Dist(rrCursor, w) <= 2 * (NWorkers - 1)

\* In a round that has come to position q: who lies ahead is still in order, and waits for
\* those before it only; who lies behind has waited for the ticks since it was passed.
Passed(q) ==
    /\ \A w \in todo : Dist(start, w) >= q
    /\ \A w \in active : Dist(start, w) >= q => w \in todo
    /\ \A w \in Workers :
          IF Dist(start, w) >= q
          THEN waited[w] + (Dist(start, w) - q) <= 2 * (NWorkers - 1)
          ELSE waited[w] <= q - 1 - Dist(start, w)

TurnWait == pc = "turn" => \E q \in 0 .. NWorkers : Passed(q)

IInv == TypeOK /\ ListExact /\ OnlyRunnableWait /\ RestWait /\ TurnWait

Running == pc \in {"upfront", "round", "turn", "drain"}

\* An interrupt that is requested while wave_run runs ends the run, with 2 if a worker had a
\* tick since: programs that never stop do not keep it going.
InterruptEnds == (interruptRequested /\ Running) ~> (pc = "return")

\* Ingress is not starved by workers that never stop: a message pushed while wave_run runs is
\* delivered, or the run ends.
IngressServed == \A w \in Workers : (ingress[w] > 0 /\ Running) ~> (ingress[w] = 0 \/ ~Running)
=============================================================================
