----------------------------- MODULE AtBatchPool -----------------------------
(***************************************************************************)
(* The thread pool of the atomic tasks (threads/epa_thread_pool.c) and the *)
(* batches it works on (atomic_tasks/epa_atomic_tasks.c).  A thread pops a *)
(* batch from the ring under the mutex of the pool, claims one of its      *)
(* blocks, executes and completes it with atomic accesses to the batch     *)
(* only, and puts the batch back while blocks remain.  A batch that is     *)
(* submitted several times is worked on by several threads at once.        *)
(*                                                                         *)
(* One action is one critical section of p->mu or one access to an atomic  *)
(* field of a batch.                                                       *)
(***************************************************************************)
EXTENDS Integers, Sequences, FiniteSets

CONSTANTS
    Tids,      \* the threads of the pool
    Batches,   \* the batches the program creates
    NoBatch,   \* b == NULL
    NBlocks,   \* block_count of every batch
    RingCap,   \* EPA_TP_MAX_BATCHES
    Copies,    \* how often a batch may be submitted
    MayFault,  \* whether a block handler may return 0
    MayFailVm  \* the threads whose epa_vm_init_with_lbytes may fail

ASSUME ConstantsOK ==
    /\ IsFiniteSet(Tids) /\ IsFiniteSet(Batches)
    /\ NoBatch \notin Batches
    /\ NBlocks \in Nat \ {0}
    /\ RingCap \in Nat \ {0}
    /\ Copies \in Nat
    /\ MayFault \in BOOLEAN
    /\ MayFailVm \subseteq Tids

Blocks == 0 .. NBlocks - 1
Nobody == "nobody"      \* owner_tid -1

VARIABLES
    q,         \* p->q, the ring of batches, as the sequence of its items
    stop,      \* p->stop
    waiters,   \* threads asleep in cond_wait on p->cv
    tpc,       \* where each thread is in tp_thread_main
    held,      \* the batch b of each thread
    idx,       \* the block each thread probes, and v once it has claimed it
    left,      \* probes each thread still has to make in epa_at_batch_claim
    ok,        \* what the handler of the block returned
    state,     \* b->state
    owner,     \* b->owner_tid
    done,      \* b->done_count
    fault,     \* b->fault_count
    cursor,    \* b->scan_cursor, modulo block_count
    submitted, \* how often each batch was submitted so far
    execs,     \* history: how often each block was executed
    finishes,  \* history: how often on_finish was called, 2 for more
    dropped    \* history: the batches whose last submission a full ring did not take back

poolVars  == <<q, stop, waiters>>
tidVars   == <<tpc, held, idx, left, ok>>
batchVars == <<state, owner, done, fault, cursor>>
histVars  == <<submitted, execs, finishes, dropped>>
vars == <<poolVars, tidVars, batchVars, histVars>>

BlockState == {"todo", "inflight", "done", "fault"}
TidPC == {"born", "idle", "check", "claim", "probe", "own", "exec", "mark", "count", "release",
          "finish", "requeue", "failed", "putback", "exit"}

TypeOK ==
    /\ q \in Seq(Batches)
    /\ stop \in BOOLEAN
    /\ waiters \subseteq Tids
    /\ tpc \in [Tids -> TidPC]
    /\ held \in [Tids -> Batches \union {NoBatch}]
    /\ idx \in [Tids -> Blocks]
    /\ left \in [Tids -> 0 .. NBlocks]
    /\ ok \in [Tids -> BOOLEAN]
    /\ state \in [Batches -> [Blocks -> BlockState]]
    /\ owner \in [Batches -> [Blocks -> Tids \union {Nobody}]]
    /\ done \in [Batches -> Nat]
    /\ fault \in [Batches -> Nat]
    /\ cursor \in [Batches -> Blocks]
    /\ submitted \in [Batches -> 0 .. Copies]
    /\ execs \in [Batches -> [Blocks -> 0 .. 2]]
    /\ finishes \in [Batches -> 0 .. 2]
    /\ dropped \subseteq Batches

\* epa_at_batch_create for every batch, and epa_thread_pool_init.
Init ==
    /\ q = <<>>
    /\ stop = FALSE
    /\ waiters = {}
    /\ tpc = [t \in Tids |-> "born"]
    /\ held = [t \in Tids |-> NoBatch]
    /\ idx = [t \in Tids |-> 0]
    /\ left = [t \in Tids |-> 0]
    /\ ok = [t \in Tids |-> FALSE]
    /\ state = [b \in Batches |-> [i \in Blocks |-> "todo"]]
    /\ owner = [b \in Batches |-> [i \in Blocks |-> Nobody]]
    /\ done = [b \in Batches |-> 0]
    /\ fault = [b \in Batches |-> 0]
    /\ cursor = [b \in Batches |-> 0]
    /\ submitted = [b \in Batches |-> 0]
    /\ execs = [b \in Batches |-> [i \in Blocks |-> 0]]
    /\ finishes = [b \in Batches |-> 0]
    /\ dropped = {}

----------------------------------------------------------------------------
(* Helpers                                                                 *)

\* Mutants: only done_count is compared, or one block too few; a claim takes any block that
\* is not finished; the batch is not put back.
IsDone(b)          == done[b] = NBlocks
AlmostFinished(b)  == done[b] + fault[b] >= NBlocks - 1
ClaimableAny(b, i) == state[b][i] \in {"todo", "inflight"}
PushNever(b)       == UNCHANGED <<q, dropped>>

\* epa_at_batch_all_finished.  Both counters only grow and their sum stays within
\* block_count, so its two loads answer as if they were one.
AllFinished(b) == done[b] + fault[b] = NBlocks

\* What the compare-exchange of epa_at_batch_claim tests.
Claimable(b, i) == state[b][i] = "todo"

\* Another submission of a batch that a thread holds is in the ring or with another thread.
Elsewhere(b) ==
    \/ \E i \in 1 .. Len(q) : q[i] = b
    \/ \E t, u \in Tids : t # u /\ held[t] = b /\ held[u] = b

\* ring_push with its result ignored: a full ring does not take the batch back.
Push(b) ==
    \/ /\ Len(q) < RingCap
       /\ q' = Append(q, b)
       /\ UNCHANGED dropped
    \/ /\ Len(q) >= RingCap
       /\ dropped' = IF Elsewhere(b) THEN dropped ELSE dropped \union {b}
       /\ UNCHANGED q

Goto(t, pc) == tpc' = [tpc EXCEPT ![t] = pc]

\* More than once is as good as twice: a bound on the histories.
Saturate(n) == IF n < 2 THEN n + 1 ELSE n

\* The thread lets go of its batch: the end of an iteration of tp_thread_main.
NextIteration(t) ==
    /\ Goto(t, "idle")
    /\ held' = [held EXCEPT ![t] = NoBatch]
    /\ idx' = [idx EXCEPT ![t] = 0]
    /\ left' = [left EXCEPT ![t] = 0]
    /\ ok' = [ok EXCEPT ![t] = FALSE]

----------------------------------------------------------------------------
(* tp_thread_main                                                          *)

\* The VM of the thread; without one the thread is lost to the pool.
Born(t) ==
    /\ tpc[t] = "born"
    /\ Goto(t, "idle") \/ (t \in MayFailVm /\ Goto(t, "exit"))
    /\ UNCHANGED <<poolVars, held, idx, left, ok, batchVars, histVars>>

Take(t) ==
    /\ tpc[t] = "idle"
    /\ t \notin waiters
    /\ \/ /\ stop
          /\ Goto(t, "exit")
          /\ UNCHANGED <<q, waiters, held>>
       \/ /\ ~stop
          /\ q = <<>>
          /\ waiters' = waiters \union {t}
          /\ UNCHANGED <<q, tpc, held>>
       \/ /\ ~stop
          /\ q # <<>>
          /\ held' = [held EXCEPT ![t] = Head(q)]
          /\ q' = Tail(q)
          /\ Goto(t, "check")
          /\ UNCHANGED waiters
    /\ UNCHANGED <<stop, idx, left, ok, batchVars, histVars>>

\* "Drop completed batches".
Check(t) ==
    /\ tpc[t] = "check"
    /\ IF AllFinished(held[t])
       THEN NextIteration(t)
       ELSE Goto(t, "claim") /\ UNCHANGED <<held, idx, left, ok>>
    /\ UNCHANGED <<poolVars, batchVars, histVars>>

\* epa_at_batch_claim up to the moving cursor.
ClaimStart(t) ==
    /\ tpc[t] = "claim"
    /\ LET b == held[t] IN
       IF done[b] >= NBlocks
       THEN Goto(t, "failed") /\ UNCHANGED <<idx, left, cursor>>
       ELSE /\ idx' = [idx EXCEPT ![t] = cursor[b]]
            /\ left' = [left EXCEPT ![t] = NBlocks]
            /\ cursor' = [cursor EXCEPT ![b] = (@ + 1) % NBlocks]
            /\ Goto(t, "probe")
    /\ UNCHANGED <<poolVars, held, ok, state, owner, done, fault, histVars>>

\* One compare-exchange of the scan, or its end.
Probe(t) ==
    /\ tpc[t] = "probe"
    /\ LET b == held[t] IN
       \/ /\ left[t] = 0
          /\ Goto(t, "failed")
          /\ UNCHANGED <<idx, left, state>>
       \/ /\ left[t] > 0
          /\ Claimable(b, idx[t])
          /\ state' = [state EXCEPT ![b][idx[t]] = "inflight"]
          /\ left' = [left EXCEPT ![t] = 0]
          /\ Goto(t, "own")
          /\ UNCHANGED idx
       \/ /\ left[t] > 0
          /\ ~Claimable(b, idx[t])
          /\ idx' = [idx EXCEPT ![t] = (@ + 1) % NBlocks]
          /\ left' = [left EXCEPT ![t] = @ - 1]
          /\ UNCHANGED <<tpc, state>>
    /\ UNCHANGED <<poolVars, held, ok, owner, done, fault, cursor, histVars>>

Own(t) ==
    /\ tpc[t] = "own"
    /\ owner' = [owner EXCEPT ![held[t]][idx[t]] = t]
    /\ Goto(t, "exec")
    /\ UNCHANGED <<poolVars, held, idx, left, ok, state, done, fault, cursor, histVars>>

\* epa_at_batch_exec_block: the handler of the batch, which succeeds or not.
Exec(t) ==
    /\ tpc[t] = "exec"
    /\ \E r \in IF MayFault THEN BOOLEAN ELSE {TRUE} : ok' = [ok EXCEPT ![t] = r]
    /\ execs' = [execs EXCEPT ![held[t]][idx[t]] = Saturate(@)]
    /\ Goto(t, "mark")
    /\ UNCHANGED <<poolVars, held, idx, left, batchVars, submitted, finishes, dropped>>

\* epa_at_batch_complete: its two tests and the new state of the block.  A refusal is
\* ignored by the caller.
Mark(t) ==
    /\ tpc[t] = "mark"
    /\ LET b == held[t] IN
       IF owner[b][idx[t]] = t /\ state[b][idx[t]] = "inflight"
       THEN /\ state' = [state EXCEPT ![b][idx[t]] = IF ok[t] THEN "done" ELSE "fault"]
            /\ Goto(t, "count")
       ELSE Goto(t, "finish") /\ UNCHANGED state
    /\ UNCHANGED <<poolVars, held, idx, left, ok, owner, done, fault, cursor, histVars>>

Count(t) ==
    /\ tpc[t] = "count"
    /\ IF ok[t]
       THEN done' = [done EXCEPT ![held[t]] = @ + 1] /\ UNCHANGED fault
       ELSE fault' = [fault EXCEPT ![held[t]] = @ + 1] /\ UNCHANGED done
    /\ Goto(t, "release")
    /\ UNCHANGED <<poolVars, held, idx, left, ok, state, owner, cursor, histVars>>

Release(t) ==
    /\ tpc[t] = "release"
    /\ owner' = [owner EXCEPT ![held[t]][idx[t]] = Nobody]
    /\ Goto(t, "finish")
    /\ UNCHANGED <<poolVars, held, idx, left, ok, state, done, fault, cursor, histVars>>

\* The callback of the batch, by any thread that finds it finished.
Finish(t) ==
    /\ tpc[t] = "finish"
    /\ finishes' = IF AllFinished(held[t]) THEN [finishes EXCEPT ![held[t]] = Saturate(@)]
                   ELSE finishes
    /\ Goto(t, "requeue")
    /\ UNCHANGED <<poolVars, held, idx, left, ok, batchVars, submitted, execs, dropped>>

\* "Requeue if more work remains".
Requeue(t) ==
    /\ tpc[t] = "requeue"
    /\ IF AllFinished(held[t]) THEN UNCHANGED <<q, dropped>> ELSE Push(held[t])
    /\ waiters' = {}
    /\ NextIteration(t)
    /\ UNCHANGED <<stop, batchVars, submitted, execs, finishes>>

\* "No claimable blocks right now; requeue if not done": the test is made without the
\* mutex, and nobody is woken.
Failed(t) ==
    /\ tpc[t] = "failed"
    /\ IF AllFinished(held[t])
       THEN NextIteration(t)
       ELSE Goto(t, "putback") /\ UNCHANGED <<held, idx, left, ok>>
    /\ UNCHANGED <<poolVars, batchVars, histVars>>

PutBack(t) ==
    /\ tpc[t] = "putback"
    /\ Push(held[t])
    /\ NextIteration(t)
    /\ UNCHANGED <<stop, waiters, batchVars, submitted, execs, finishes>>

TidNext(t) ==
    \/ Born(t) \/ Take(t) \/ Check(t) \/ ClaimStart(t) \/ Probe(t) \/ Own(t) \/ Exec(t)
    \/ Mark(t) \/ Count(t) \/ Release(t) \/ Finish(t) \/ Requeue(t) \/ Failed(t) \/ PutBack(t)

----------------------------------------------------------------------------
(* The users of the pool                                                   *)

\* epa_thread_pool_submit_batch; a full ring refuses the batch.
Submit(b) ==
    /\ submitted[b] < Copies
    /\ ~stop
    /\ Len(q) < RingCap
    /\ q' = Append(q, b)
    /\ waiters' = {}
    /\ submitted' = [submitted EXCEPT ![b] = @ + 1]
    /\ UNCHANGED <<stop, tidVars, batchVars, execs, finishes, dropped>>

\* epa_thread_pool_wake.
Wake ==
    /\ waiters' = {}
    /\ UNCHANGED <<q, stop, tidVars, batchVars, histVars>>

\* Mutant: the sleepers are not told.
ShutdownQuiet ==
    /\ stop' = TRUE
    /\ UNCHANGED <<q, waiters, tidVars, batchVars, histVars>>

\* epa_thread_pool_shutdown up to its joins.
Shutdown ==
    /\ stop' = TRUE
    /\ waiters' = {}
    /\ UNCHANGED <<q, tidVars, batchVars, histVars>>

\* POSIX lets cond_wait return without a broadcast.
SpuriousWake ==
    /\ \E t \in waiters : waiters' = waiters \ {t}
    /\ UNCHANGED <<q, stop, tidVars, batchVars, histVars>>

Next ==
    \/ \E t \in Tids : TidNext(t)
    \/ \E b \in Batches : Submit(b)
    \/ Wake \/ Shutdown \/ SpuriousWake

Spec == Init /\ [][Next]_vars

\* Every thread keeps running and gets the mutex in the end.
FairSpec == Spec /\ \A t \in Tids : WF_vars(TidNext(t))

----------------------------------------------------------------------------
(* Properties                                                              *)

\* The thread has claimed a block and is not done with it.
Working(t) == tpc[t] \in {"own", "exec", "mark", "count", "release"}

Terminal == {"done", "fault"}

\* "Thread IDs are stable, VTID is the sub-task index currently executed": no two threads
\* work on the same block, although the owner is stored after the block is claimed.
OneOwner ==
    \A t, u \in Tids :
        Working(t) /\ Working(u) /\ held[t] = held[u] /\ idx[t] = idx[u] => t = u

\* epa_at_batch_complete never refuses the thread that executed the block.  The pool
\* ignores its result, so a refusal would leave the batch unfinished for ever.
CompleteAccepted ==
    \A t \in Tids :
        tpc[t] = "mark" =>
            owner[held[t]][idx[t]] = t /\ state[held[t]][idx[t]] = "inflight"

\* on_finish is never called before all blocks of the batch have been executed.
FinishMeansDone ==
    \A b \in Batches :
        finishes[b] > 0 => \A i \in Blocks : state[b][i] \in Terminal /\ execs[b][i] = 1

\* The submissions that were accepted so far, numbered for each batch.
Accepted == {s \in Batches \X (1 .. Copies) : s[2] <= submitted[s[1]]}

\* "Requeue if more work remains": a batch that was accepted and is not finished is in the
\* ring or in the hands of a thread, but for one way to lose it: its thread finds the ring full
\* when it puts the last submission of the batch back.  It is not found full before more
\* submissions were accepted than the ring has room for.
NothingDropped ==
    /\ \A b \in Batches :
           submitted[b] > 0 /\ ~AllFinished(b) =>
               \/ \E i \in 1 .. Len(q) : q[i] = b
               \/ \E t \in Tids : held[t] = b
               \/ b \in dropped
    /\ dropped # {} => Cardinality(Accepted) > RingCap

\* "Requeue if more work remains" without that exception.
Requeued ==
    \A b \in dropped :
        AllFinished(b) \/ (\E i \in 1 .. Len(q) : q[i] = b) \/ (\E t \in Tids : held[t] = b)

\* A batch that was accepted ends in on_finish, unless the pool is shut down or a full ring
\* loses it: whatever two threads that complete its last blocks together see of its two counters.
FinishReported ==
    \A b \in Batches : submitted[b] > 0 ~> (finishes[b] > 0 \/ stop \/ b \in dropped)

\* The joins of epa_thread_pool_shutdown return.
ShutdownJoins == stop ~> \A t \in Tids : tpc[t] = "exit"

\* The pool implements what a batch promises.
Promise == INSTANCE BatchTasks WITH
    status   <- state,
    ran      <- execs,
    reported <- [b \in Batches |-> finishes[b] > 0]

ImplementsBatchTasks == Promise!Spec

\* Why OneOwner and CompleteAccepted are invariant: what the phase of a thread says about the
\* block it works on.
PhaseOK(t) ==
    /\ tpc[t] \notin {"born", "idle", "exit"} => held[t] \in Batches
    /\ tpc[t] \in {"own", "exec", "mark"} => state[held[t]][idx[t]] = "inflight"
    /\ tpc[t] \in {"own", "exec"} => execs[held[t]][idx[t]] = 0
    /\ tpc[t] = "mark" => execs[held[t]][idx[t]] = 1
    /\ tpc[t] \in {"exec", "mark"} => owner[held[t]][idx[t]] = t
    /\ tpc[t] \in {"count", "release"} => state[held[t]][idx[t]] \in Terminal

BlockOK(b, i) ==
    /\ state[b][i] = "todo" => execs[b][i] = 0
    /\ state[b][i] \in Terminal => execs[b][i] = 1
    /\ execs[b][i] <= 1

OwnershipInv == \A t \in Tids : PhaseOK(t)
BlockInv     == \A b \in Batches, i \in Blocks : BlockOK(b, i)

\* Why AllFinished means what it says: done_count and fault_count have counted the
\* finished blocks but those whose thread is about to count them.
Counted(b) ==
    {i \in Blocks : /\ state[b][i] \in Terminal
                    /\ \A t \in Tids : tpc[t] = "count" => held[t] # b \/ idx[t] # i}

CountInv == \A b \in Batches : done[b] + fault[b] = Cardinality(Counted(b))

\* Where the submissions are: each in the ring, with a thread, or over.
Holders  == {t \in Tids : held[t] # NoBatch}
HeldInv  == \A t \in Tids : tpc[t] \in {"born", "idle", "exit"} => held[t] = NoBatch
RoomInv  == Len(q) + Cardinality(Holders) <= Cardinality(Accepted)

IInv ==
    /\ TypeOK /\ OneOwner /\ OwnershipInv /\ BlockInv /\ CountInv /\ FinishMeansDone
    /\ HeldInv /\ RoomInv
=============================================================================
