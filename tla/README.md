# Formal models of the Elara parallel assembly runtime

`libElaraParallelAssembly` runs programs of *workers* inside *kernels*; the other libraries of the
repository store files, call other processes and serve the tools around it. This directory holds TLA+
models of the concurrent core and of the parts of the libraries that must survive crashes, time-outs and
other threads, the TLC runs that check them on small instances, and TLAPS proofs of
the properties that matter most. Paths below are relative to
`src/libElaraParallelAssembly/src/` unless they start with `src/`.

## The system

| Part | State | Operations | Talks to |
|---|---|---|---|
| cpu_thread scheduler (`epa_sched_cpu_thread.c`) | `tid_to_wid`, `wid_to_tid`, `n_threads`, `stop`, `interrupt`, one mutex and one condition variable | `init`, `run`, `request_interrupt`, `wake`, `destroy`, `add_threads`; pool threads | worker flags and ingress queues of the kernel, without the mutex |
| wave and debug schedulers (`epa_sched_wave.c`, `epa_sched_debug.c`) | `rr_cursor`, the list of active workers | `run`, `request_interrupt` | the same flags and queues, in the calling thread |
| kernel core (`epa_kernel_so.c`) | workers, ingress queues, status, pending boot reset, module entries with their threads, AT and memory requests, access control lists | load, run, push and deliver ingress, start, stop, retire, boot reset, far signals, requests | schedulers, hosts, other kernels |
| kernel hooks (`epa_kernel_hooks.c`) | worker flags, sync queue, `cur_wid` | one hook per flow instruction | called by a scheduler's tick |
| memory (`memory/`) | ring buffers, dynamic pools, the shared heap of handles (GHS), the global region (RGM) | allocate, free, transfer, publish, push, pop | worker programs, ingress delivery |
| worker and VM (`vm/`) | registers, stacks, mailboxes, rings of one worker | reset, mailbox push and pop | hooks, instructions |
| AT thread pool (`threads/epa_thread_pool.c`) | ring of batches, `stop`, mutex, condition variable | `init`, `submit_batch`, `wake`, `shutdown`; pool threads | batches |
| AT batches (`atomic_tasks/epa_atomic_tasks.c`, `.h`) | per block a state and an owner, two counters, a cursor, all atomic | create, claim, complete, execute | the pool's threads |
| AT dispatch (`epa_at_cpu_dispatch.c`) | one request and its threads | dispatch | kernel requests |
| program loader, assembler, instruction set, AT kernels, weights, server | sequential | | |
| E compiler (`src/libElaraParallelAssembly/e/`), epavm (`src/epavm/`) | sequential compiler; host process with a debug service | | kernels |
| indexed data store (`src/libElaraIO`) | on disk: index descriptors, bank maps in several copies, file descriptors, chains of blocks | `getOrCreateFile`, `convertToBankMap`, `writeToFile`, `readFromFile`, `set` | the programs that keep data |
| RPC peer (`src/libElaraUiRpc`) | a socket, the next request id, the list of pending calls, a receiving thread | `call`, `close`, the receiving thread | the peer at the other end, callers of either end |
| other libraries (`src/libElaraThreads`, `Sockets`, `Event`, `Core`, ...) | threads and tasks, codecs, strings, text | | epavm, tools, demos |

What makes the core hard, and what correctness means for each part:

- **cpu_thread scheduler.** One mutex guards the bindings, but the worker flags, the two interrupt
  flags and the ingress queues are shared without it, every wait uses one condition variable, and
  pool threads tick from a copy of their binding. Correct means: no worker is run by two threads; no
  wakeup is lost; an interrupt ends the run; a yielded kernel is quiet; stopping stops.
- **wave and debug schedulers.** Ticks change the list and the cursor they are driven by. Correct
  means: round robin whatever the ticks do, interrupts and budgets honoured.
- **ingress.** Hosts push, the run drains, delivery allocates, transfers, notifies and may fail in
  between. Correct means: messages arrive once and in order, and a failure leaks nothing.
- **kernel lifecycle.** Start, stop, retire, reset and the thread that ends by itself race. Correct
  means: a stopped kernel has no thread, a retired one stays retired.
- **AT pool and batches.** Claims and counters are lock-free, batches travel through a bounded ring
  and may be in it several times. Correct means: every block is executed once, the end is reported
  after the last block, nothing is dropped, shutdown returns.
- **memory.** Handles carry generations, pools grow and shrink, the region is read without locks.
  Correct means: a freed handle is dead, ownership is exclusive, nothing is reachable after free.
- **indexed data store.** One call makes several writes to its file, the process may die between any two of
  them, and a program writes through a descriptor it loaded earlier. Correct means: whatever is cut off, the structure
  can be walked, and what other calls stored is still there.
- **RPC peer.** Threads of both ends call through one connection, the receiver of each end also serves and
  answers, calls time out and an end may close. Correct means: an answer goes to its own call, every call returns.

## The modules

| Module | Models | Uses |
|---|---|---|
| `KernelHooks` | what flow hooks, boot and delivery do to worker flags | |
| `CpuThreadSched` | the cpu_thread scheduler with the kernel thread and the hosts around it | `KernelHooks` |
| `WaveSched` | the wave scheduler, its list of active workers and the threads around it | `KernelHooks` |
| `Ingress` | a message from the push to the worker that reads it: queues, drain, shared heap, input ring | |
| `KernelLifecycle` | the kernels of a module with their threads and pool threads: start, stop, destroy, retire, far signals, boot reset | |
| `BatchTasks` | abstract: what a batch promises its users | |
| `AtBatchPool` | the thread pool and its batches | instantiates `BatchTasks` |
| `StoreFile` | one file of the indexed data store: its descriptor and its chain of blocks | |
| `StoreIndex` | one level of the index of the store: list, conversion, bank map in copies | |
| `RpcPeer` | two RPC peers on one connection | |
| `*_proofs` | theorems about the module they are named after | that module, `TLAPS` |

The schedulers are seen from three sides. `CpuThreadSched` and `WaveSched` contain all of a run, with a queue that has
a length and no contents; `Ingress` contains the contents, with a scheduler reduced to who may run beside whom
(`profile`); `KernelLifecycle` contains several kernels, with a run reduced to its entry, its returns, its pool threads and the
instructions that reach other kernels. They share the meaning of flags, queues and interrupts, not variables: a product of
them is out of TLC's reach.

### CpuThreadSched

State. `tidToWid`, `widToTid`, `nThreads`, `stop`, `interrupt` are the fields of `CpuThreadState`;
`interruptRequested`, `curWid`, `flags` and `ingress` those of the kernel (a worker's flags are the set of
its nonzero flags, an ingress queue its length). `waiters` is the set of threads asleep on `st->cv`;
`RunLoop` is the member that stands for the thread in `cpu_run`. `rpc`, `tpc`, `apc`, `ppc`, `ipc`
and `hpc` are the positions of the kernel thread, the pool threads, a caller of `add_threads`, the
producers, the interrupters and the host that stops, restarts and destroys.

Actions. An action is one critical section of `st->mu` or one access to what is shared without it.
`cpu_run` holds the mutex through `cpu_bind_runnable`, whose reads of worker flags interleave
with ticks; so that scan is one step per worker (`RunBind`), and `MuFree` says whether another
thread can enter. `cond_wait` puts its caller into `waiters` and releases the mutex in the same step; a
broadcast empties the set; `SpuriousWake` removes any member, as POSIX allows.
`RunEnter` and `RunEntered` are the two stores that clear the interrupt at the start of a run, `Interrupt` and
`StopProceeds` the two stores and the broadcast of `cpu_request_interrupt`. A tick (`TidTick`) is
seen by what it does to the worker flags; the constant `Ops` says which kinds of instruction the program of
a run contains. `DrainAll` and `DrainStuck` are the drain of the ingress queues; which message
finds its worker's input ring full is left open, because the rings are not in this module.

Left out: what the instructions compute, the text of errors, the contents and order of messages, and the
two-step check of a pool thread's inner loop (the interrupt flags and the worker flags are read, and
`cur_wid` written, in one step). `add_threads` has one caller at a time.

### WaveSched

State. `active` is the list from `worker_head` over `worker_next`. It is a set because the list is always
ascending: `init_workers_from_prog` appends in ascending order, `unlink_active_worker` only takes out, and
no code inserts. `rrCursor`, `interruptRequested`, `flags`, `ingress` are those of the kernel; `budget` is
`max_ticks`, `ticks` the local of `wave_run`, cut off at the budget it is compared with. The array `order` of a round is
`start` (the cursor when it was built) with `todo` (its entries not yet visited). `waited` is a history
variable: the ticks other workers had while a worker could run and did not; it changes nothing. A run that
ends with an error and a boot reset start it anew, because they leave the cursor where it was.

Actions. `RunReady` and `RunReturn` are the loop of `module_kernel_thread_main`, or a host that
steps the kernel with a budget. `RunEnter`, `RunUpfront`, `RunRound`, `RunTurn`, `RunTurnsOver` and `RunDrain` are `wave_run` in
the order of its lines. `RunTurn` is one iteration of the inner loop that does not `continue`: a whole tick (`Tick`) with
the change it makes to flags and list, the boot reset, the error and END returns, and the interrupt boundary.
Tick and boundary are one action because no instruction reads `interrupt_requested`, so that a request during the
tick has the effect of one just before it. `NextCursor` is evaluated on the list before the tick, as in
line 82; the cursor that `unlink_active_worker` stores at `epa_kernel_hooks.c:95` is overwritten at line 131, for every
flow instruction yields. A plain instruction leaves the cursor alone.

Left out: a retire by another kernel, which changes the list of a kernel that may be running
(`KernelLifecycle` has it), a boot reset whose commit fails, and the `debug` argument, which only
chooses an error text.

### Ingress

State. `slot`, `qhead`, `qtail`, `qcount` are the array, head, tail and count of `ingress.inq[wid]`; `rbuf`, `rhead`,
`rtail`, `rcount` the input ring of a worker; `obj` the entries of the shared heap with flags, generation, owner and
the message copied into them. `d*` are the locals of the drain, `p*` those of a push, `w*` those of the
instruction a worker is in; `cur` is `current_ghs`, `parked` the pair `waiting_for_data` and `blocked`. A message is a
number. The histories are `log` (accepted), `framed` (its words pushed), `read` (found behind a
handle), `orphans` (objects given up) and `raced`.

Actions. Nothing here takes a lock, so `count++` and `count--` are a load and a store in two actions: `PushTail` loads what
`PushCount` stores, `DrainWord` what `DrainWordStore` stores, and so on. `raced` names the structure on which two such
updates have overlapped. The properties use it to say both what an overlap can break and what holds in spite of
it. `PushCheck` to `PushCount` are `epa_kernel_ingress_push_framed`; `DrainStart` to the last `Drain` action
`epa_kernel_drain_ingress` with `epa_kernel_deliver_ingress_msg`: take, allocate, copy and transfer, test the room of the ring, push four
words, wake, consume; each of its failures ends the drain with the message at the head. `WaitData`, `WaitRelease`,
`WaitPark`, `WaitRecheck` are WAIT_FOR_DATA, `Pop` and `PopStore` WORKER_TRX_IN_R, `Body` the G_META by which
a worker reads, `BodyFree` and `FreeGeneration` the two halves of `epa_ghs_free`. Under `"wave"` the drain and the workers
alternate in one thread; under `"cpu_thread"` they overlap.

Left out: the copy's bytes, message tags, the wrap of a generation, and a pool growth in the middle of an allocation.

### KernelLifecycle

State. `registered` and `process` are the registry and the process table; `status`, `started`, `stopRequested` the fields
of an entry and its kernel, `interrupt` one flag for the two of the cpu_thread scheduler, `pool` whether `st->stop` is not
set, `alive` whether the workers are not retired. `pc` is the place of the module thread of a kernel, `rc` what its last run
returned. `op` is the place of a pool thread in its tick loop (`free`: it is not in it), `todo` the remaining targets of the
instruction it is in, `KernelOf` the kernel it belongs to. `hpc` and `hk` are the place of the host. `orderly`, `lost` and
`misused` are histories.

Actions. `ThreadTop` to `ThreadClear` are `module_kernel_thread_main` around `epa_kernel_run`: each look at the status and
each store of it is an action of its own, since a retire stores `UNLOADED` from another thread. A run ends in one of the two
ways `cpu_run` has without a budget: `RunYield` returns 2 behind the barrier that waits for the pool threads, unless a boot reset has
stopped the pool; `RunFail` returns 0 (worker 0 faulted, the ingress not drained) and leaves the pool threads in their ticks.
`Bind` puts a thread to work, `Look` and `Park` let it go between two ticks. `Signal*`, `Retire*`,
`PidRetire`, `Reset` and `Commit` are the instructions that reach other kernels, executed by any number of pool threads at
once: the lookup under `g_kernel_registry_mu` is one action, and each store through the pointer it found another; each of
them, and each look of the tick loop, uses the own kernel of the thread too (`Use`). `Host*` are `start_kernel`,
`stop_kernel` and `module_destroy`, whose `epa_kernel_destroy` neither ends nor joins pool threads (`HostFree`); `pthread_create`
may fail, and the thread may run, and end, before `thread_started` is set (`HostCreate`, `HostNote`).

Left out: two hosts at once (the module API has no lock for them), the tables' capacity, and the contents of signals.

### AtBatchPool and BatchTasks

State. `q` is the ring as the sequence of its items; `state`, `owner`, `done`, `fault`, `cursor` are
the atomic fields of each batch, the cursor modulo the number of blocks; `held`, `idx`, `left`, `ok` the
locals of a thread; `submitted`, `execs`, `finishes` and `dropped` are histories, `dropped` of the batches whose last
submission met a full ring when a thread put it back. Actions are one critical section of `p->mu` or one
atomic access each: claiming a block (`Probe`) and storing its owner (`Own`), marking it (`Mark`),
counting it (`Count`) and releasing it (`Release`) are separate. `AllFinished` reads two counters in one step; both
only grow and their sum is at most `block_count`, so the two loads of the code give an answer that
was true at one of them.

`BatchTasks` is the promise of `epa_atomic_tasks.h`: blocks go TODO, INFLIGHT, DONE or FAULT, are run once
in between, and the end is reported when all are DONE or FAULT. `ImplementsBatchTasks` is the
refinement.

### StoreFile

State. `desc` is the file descriptor on disk, `blocks` the blocks of the file in the order they were appended, `kept` the
descriptor the program holds. `fd`, `at`, `mem`, `boff`, `written` are the locals of `writeToFile`. `content` is a history of what
the file should hold; `misled` and `stale` record that a call took the last block for that of the end although it was not,
or used a descriptor that was not that on disk.

Actions. `WriteToFile` is a call through the kept descriptor, `Set` one through a descriptor loaded for it; `Proceed`
has one action per write to disk (`FirstBlock`, `FirstPayload`, `Create`, `Payload`, `Link`, `Describe`, `Fill`, `UsedBytes`, `Data`,
`Finish`) with the reads before it (`Find`, `Walk`). `Crash` may come between any two: the
disk stays, the program is gone, and `content` is what can be read.

Left out: writes the disk reorders or tears (`File` neither syncs nor checks), other files in the same
store, which only move the offsets, and `B = 0`: `set` of an empty value under a new key makes a file with
`block_size` 0, by which `writeToFile` divides at `src/libElaraIO/libelaraio/IndexedDataStore.cpp:226`.

### StoreIndex

State. `index` are the descriptors of one list on disk, `maps` the copies of each bank map, `child` and `files` what
slots and children name. A copy that is torn or was never written is `Invalid`, as its CRC is wrong. `made` is the
history of keys returned to the program; `cut` and `uneven` record two situations of the code that lose keys.

Actions. `GetOrCreateFile` looks a key up and creates what is missing, through the list (`ThroughList`, `NewSibling`,
`LinkSibling`) or the map (`ThroughMap`, `NewBank`, `TearCopy`, `WriteCopy`); `Convert`, `ConvertHead`, `ConvertSibling`
turn the one into the other. `TearCopy` is the first half of a write of a copy, so that a crash may leave it
torn. Each is one write to disk.

`IndexSound` is less than the integrity walk of the tests asks for, which would not hold at every instant: between the change of the
head and the first copy there is a map without a valid copy (`RuntimeTests.cpp:234`), and between the append of a descriptor and its link
one that nothing leads to (`RuntimeTests.cpp:418-420`).

Left out: the other bytes of a key (each has a level like this one) and the repair of copies, which the code does not have.

### RpcPeer

State. `fd`, `running` and `shut` are what a peer knows of its socket, `chan` the frames on their way, `pending_calls` the list,
`call` the record of a calling thread, `receiver` and `frame` the receiving thread, `host` the place of `close`. `raced`
records that two threads were between the load and the store of `next_request_id`, which has no lock.

Actions. A call takes an id, lists itself, sends under `send_lock`, waits for completion or time-out, and removes itself; a receiver takes a
frame, completes the first listed call with its id, or serves the request and sends the answer itself;
`Close`, `Shutdown`, `Join`, `CompleteAll` are `close`. A time-out may come at any moment of the wait.

Left out: a connection that breaks or is attached again; the remote end of a closed connection only clears `running`
(line 417), so its own pending calls wait for their time-out, which the model has. Calls are bounded by `MaxCalls`, so that a thread that always
loses `send_lock` to others is not seen. `sendAll` reads the descriptor again for each `send` (line 156), which the model does
once per frame. It calls `send` without `MSG_NOSIGNAL`: in a process that does not ignore `SIGPIPE` a shut socket may end the
process instead of failing the call (`SendFails`). Line numbers are those of `src/libElaraUiRpc/libelarauirpc/ElaraUiRpcPeer.cpp`.

## The runs

| Run | Instance | Shows |
|---|---|---|
| `cpu_safety` | 2 workers, 2 threads, a producer, an interrupter, budget of one cycle, worker 0 ignores it; exec, wait, fault, SYNC, boot reset, growth that may fail | inverse bindings, one thread per worker, no thread asleep on work, the inductive invariant |
| `cpu_live` | 2 workers, 2 threads, the host that starts, stops and destroys; step, exec, park, halt, fault, growth | quiescence after a yield; an interrupt that is seen ends the run; no runnable worker stays beside a free thread |
| `cpu_lost_wake` | 2 workers, 2 threads, a producer | **violation**: ingress pushed before `cond_wait` is not delivered |
| `wave` | worker 0 and another that ignores the budget, budgets 0 and 2, every kind of instruction | the list is exact; a runnable worker waits for at most two ticks of each other worker; an interrupt during a run ends it; ingress is not starved |
| `at_pool` | 2 threads, 2 batches of 2 blocks, each submitted up to twice, ring of 1, faults, a thread without a VM | ownership, accepted completions, nothing lost but by a full ring, refinement of `BatchTasks`, the end is reported, shutdown returns |
| `ingress` | 2 producers, 1 worker, queue of 1, ring of 5 words, 2 objects, 3 messages, both profiles | what the queue, the ring and the heap keep while nothing overlaps, and what they keep always |
| `ingress_live` | 2 producers, 2 ids of which the program has one, 2 messages, both profiles | accepted messages are read |
| `lifecycle` | 2 kernels with 2 and 1 pool threads; the run of one may fail, the program of the other has every instruction | an entry knows its thread; what is freed after an orderly stop is unused; unloaded is final; a retire is total; a stop returns |
| `store_file` | blocks of 2 bytes, values of up to 3, 5 calls or crashes | chains end, files can be walked, content is kept |
| `store_read_back` | the same with 4 calls or crashes | **violation**: a value is not read back |
| `store_index` | 4 keys in 3 banks of 2, a map of 2 copies, 5 calls | the index is sound, keys are kept |
| `rpc` | 2 callers and 1 caller, 2 calls through each peer, sockets of one frame, one peer closes | own answers, a list that is exact and cleared by close, calls return |

Bounds and why they suffice. Two pool threads and two workers give the conflicts of the cpu_thread
scheduler: a free thread and a busy one, a worker that waits for a thread to return, and a stale local `wid` on a thread that
is free again. `QMax = 1` distinguishes an empty from a full ingress queue, which is all the schedulers look
at. `ticks` is capped at `MaxTicks`: it is only compared with it. One interrupter beside the host
gives two overlapping requests. In the wave run a wait of `2 * NWorkers - 2` occurs, by a round that passes a worker
just before it is started, followed by one in which it comes last; the bound for every number of workers is the theorem.
A budget of 2 ends rounds in the middle of the workers' work, and 0 never. For the
pool, a batch that was submitted twice is worked on by two
threads at once, two blocks are the first number at which two threads can complete the
last blocks together, and a second batch fills the ring of one while a thread has the first. `execs` and `finishes` saturate at two: more than once is
as good as twice. In `ingress` the queue holds one message and there are two producers, so that two pass its check
together; a ring of five words holds a frame and not a second, and its head wraps in the middle of a
frame; two objects are exhausted by three messages. In `lifecycle` two kernels are enough for a retire of another, of
oneself and of both, and two pool threads of one kernel for a run that ends while one of them is back and the other is not. Values of three bytes in blocks of two end inside a block, at its end and behind
it; five calls allow two crashes, a short `set` over a long value and an append. Three banks give a list with a
middle, two copies one that is trusted and one that is stale. One frame per direction is what makes both
receivers wait. `CHECK_DEADLOCK FALSE`: a destroyed or finished kernel, a
pool that was shut down, a closed peer, and a program that makes no more calls really stop.

Fairness. In `CpuThreadSched` threads keep running (weak fairness of `RunNext`), and whoever waits for a mutex gets it in the
end (strong fairness of the steps that need it). Nothing makes a host push, stop or destroy, nothing
makes `cond_wait` return by itself, and nothing makes a program park; `WorkConserving` and
`InterruptReturns` rest on broadcasts alone. `WorkConserving` leaves out worker 0 in programs with SYNC (see the table below). In `WaveSched` it is `WF_vars(RunNext)` alone: `wave_run`
takes no lock and waits for nobody. In `Ingress` the scheduler keeps calling the drain and a push ends (weak fairness), and a worker
that is runnable again and again is ticked (strong fairness): a wave round ticks each between two drains, a
pool thread keeps ticking the one it has; nothing makes a producer push. In `KernelLifecycle` the host, the module
threads and what an instruction has begun go on (weak fairness), and a pool thread has its look at the interrupt between two ticks although the
program always has another instruction (strong fairness: the look is in the loop of `cpu_worker_thread_main`). In `RpcPeer`
threads go on, a call at the latest to its time-out. `StoreFile` and `StoreIndex` state no liveness. The counterexamples
of the runs that expect a violation are not threads that stop running.

## Findings

1. *Lost ingress wake* (`epa_sched_cpu_thread.c:558-607`, run `cpu_lost_wake`). The queues are drained before the mutex is
   taken and not looked at again before `cond_wait`.
2. *Value not read back* (`src/libElaraIO/libelaraio/IndexedDataStore.cpp:226`, run `store_read_back`). A write at 0 to a file of
   size 0 that has several blocks goes to the last one, while reading starts at the first.

The modules state other disagreements between the code and what is said of it. No run checks them; TLC violates each
under the constants given here (those not named are empty or as in the run named).

| Property | Constants | What happens |
|---|---|---|
| `InterruptHonoured` (`CpuThreadSched`) | `NWorkers = 2`, `CapThreads = 1`, `MaxTicks = 0`, `Ops = {"park", "step"}`, `FairSpec` | The two interrupt flags are set and cleared in opposite orders (`epa_sched_cpu_thread.c:532-533`, `459-464`): one is left up alone and `stop_kernel` joins for ever. |
| `PoolStops` (`CpuThreadSched`) | `NWorkers = 2`, `CapThreads = 2`, `MaxTicks = 1`, `Ops = {"step"}`, `FairSpec` | `cpu_destroy` joins a thread whose tick loop does not look at `stop` (`epa_sched_cpu_thread.c:245-318`, `436-443`). |
| `Quiescent` (`CpuThreadSched`) | as `cpu_live` with `Ops = {"exec", "threads", "nospawn"}` | A `pthread_create` that fails puts `n_threads` back below a thread that was bound in between, and the barrier does not wait for it (`epa_sched_cpu_thread.c:407`). |
| `SyncServed` (`CpuThreadSched`) | as `cpu_live` with `"sync"` in `Ops` | `hook_sync` makes worker 0 runnable and wakes nobody (`epa_kernel_hooks.c:196`): with `cur_wid` of another worker the caller goes on, and `cpu_run` sleeps beside a runnable worker 0 and a free thread. |
| `SyncCaller` (`CpuThreadSched`) | `NWorkers = 2`, `CapThreads = 2`, `MaxTicks = 0`, `Ops = {"exec", "sync", "threads"}` | `hook_sync` takes its caller from `cur_wid`, which pool threads share (`epa_kernel_hooks.c:187`). |
| `ResetEndsRun` (`CpuThreadSched`) | `NWorkers = 2`, `CapThreads = 2`, `MaxTicks = 0`, `Ops = {"step", "reset"}`, `FairSpec` | The code takes the 2 that `exec_one_tick` returns after a boot reset for the end of the kernel and stops the pool (`epa_sched_cpu_thread.c:308-315`); nothing starts it again. |
| `Requeued` (`AtBatchPool`) | as `at_pool` | The result of `ring_push` is ignored and a full ring drops an unfinished batch (`threads/epa_thread_pool.c:121`, `132`). |
| `WakeCarriesHandle` (`Ingress`) | as `ingress` | Under cpu_thread a worker that has seen the first word of a frame pops words that are not yet there (`epa_kernel_so.c:1432`). |
| `NoUseAfterFree` (`KernelLifecycle`) | as `lifecycle` | `module_free_entries` frees a kernel while another still runs and holds its pointer, and `epa_kernel_destroy` frees one whose pool threads still tick, because its run has failed or a boot reset has stopped the pool (`epa_kernel_so.c:498-565`, `1702-1719`, `epa_sched_cpu_thread.c:536`, `552-558`, `575`). |
| `RetiredUnloaded` (`KernelLifecycle`) | as `lifecycle` | A run that has looked at the status stores over the `UNLOADED` of a retire (`epa_kernel_so.c:1640`); a boot reset loads a retired kernel (`1281`). |
| `IndexReadable` (`StoreIndex`) | as `store_index` | A crash in a conversion, or in an update of copies that differ, loses keys (`IndexedDataStore.cpp:588`, `549`). |
| `DuplexReturns` (`RpcPeer`) | one caller each, `Cap = 1`, `Closers = {}`, `MaxCalls = 3`, `FairSpec` | Both receivers wait for room that the other would have to make (`ElaraUiRpcPeer.cpp:156`). |

## The proofs

All theorems hold for all values of the constants that satisfy the named assumptions of the modules (`ConstantsOK`,
`IngressConstants`, `LifecycleConstants`, `StoreFileConstants`, `RpcPeerConstants`, ...), which say that bounds are
numbers and sets finite. The bounds on calls, messages and crashes are constants too, so that they hold for
behaviours of every length. Each module of proofs has an inductive invariant `IInv`; a second one, where
there is one (`ExactInv`, `HeapInv`, `HeldInv`), says what holds only until something named in it has happened.

`CpuThreadSched_proofs`:

- `TypeCorrect`: `Spec => []TypeOK`.
- `Invariance`: `Spec => []IInv`. That the two maps are inverse is not inductive by itself, for a thread
  ticks the worker in its local `wid`; `ServingBound` says that a thread inside its tick loop is still bound to
  it, since the loop binds unbound threads only and every thread unbinds itself alone. With
  `BindingsInverse` it gives `OneThreadPerWorkerTheorem`. `NoSleepOnWork` is inductive because each
  binding and each `stop` broadcasts in the same critical section.
- `QuiescentTheorem` needs that threads can be created (`"nospawn" \notin Ops`): when a creation fails,
  `n_threads` may fall below a thread that is bound, and `all_threads_idle_locked` does not look there.
  `SpawnInv` and `HostJoined` carry it.

`WaveSched_proofs`:

- `Invariance`: `Spec => []IInv`. `WaitBound` speaks of the ticks a worker has waited, so its invariant must say where
  in the order the worker is. `RestWait`: between two rounds, `waited` plus the distance `Dist` from the cursor to the worker
  is at most `2 * (NWorkers - 1)`. `TurnWait`: in a round there is a position `q` such that everything at or behind `q` is
  still in `todo` and has its remaining distance within the bound, and everything before `q` has waited only for the ticks since
  `q` passed it. A tick moves `q` to just behind its worker; the end of a round gives `RestWait` back for any cursor, and an interrupt
  for the cursor behind `q`, which is why the cursor must move at the boundary. `OnlyRunnableWait` covers workers that start in between.
- `ListTheorem` and `WaitTheorem` follow. The bound is proved for every number of workers, every
  budget and every program.

`AtBatchPool_proofs`:

- `Invariance`: `Spec => []IInv`. `OwnershipInv` says what the position of a thread implies for its block,
  `BlockInv` what the state of a block implies for its execution, and `CountInv` that the two counters
  together count the finished blocks whose thread is not about to count them. The lemma
  `FinishedBlocks` turns `done + fault = NBlocks` into "every block is DONE or FAULT".
- `OneOwnerTheorem`, `CompleteAcceptedTheorem`, and `Implementation`: `Spec => ImplementsBatchTasks`, step by step.
- `NothingDroppedTheorem`, for rings of every length: only a put-back that meets a full ring loses an unfinished batch, and it
  meets one only after more submissions were accepted than the ring holds. The second part is `RoomInv`, which counts: what is in the
  ring and what threads hold is together at most what was submitted. A batch that is finished stays
  so (`FinishedStays`), since a block to be counted is one that is not counted yet.

`Ingress_proofs`:

- `NoUnderflowTheorem` holds although two stores of `count` may overlap, because only the drain lowers `count` and it
  does so from a value it has seen to be positive; a lost update of a push stores a higher value.
- `FramedOnceTheorem` needs to know where a message is at each moment. `PlaceInv`: it is in at most one place of one queue,
  and in one after its words were pushed only where the drain is about to take it out (between `wake` and `consume`). `PushInv`: while
  its producer has not stored it, it is nowhere else. `CarryInv`: the one the drain carries was not framed. A push that
  overwrites another's message, which the race allows, keeps all three. No theorem says that a message arrives: a race loses messages.
- `QueueExactTheorem` has a second invariant (`ExactInv`), which holds until two updates of a queue overlap. `RingOf`: head,
  tail, count and places agree with the accepted messages, `tail` being one ahead of `count` between the two last stores of a push and
  `count` one ahead between the two of the drain. `PushOf`: a push has its queue to itself, room for its message, and what it has
  loaded is still true. `DrainOf`: what the drain has in hand is the first message. `Positions` are the facts about places modulo `QMax`.
- `ObjectsAccountedTheorem` and `HandleLiveTheorem` follow from `HeapInvariance`: `HeapInv` gives the rings, the handle space and the
  workers their types always, and their contents until two updates of a ring, or an allocation and a free, overlap (`Calm`). `RingFits`: counted in
  words since the beginning, what a worker has popped (`Base`) plus what its ring holds is what the drain has pushed, four words for a frame,
  and `tail` is that far ahead of `head` modulo `Cap`. So the handle of a frame can be named while its words wander: the index word of frame `f` is
  at `4 * f - 3 - Base` behind the head, or just popped in `r0`, or in the current object (`IndexOf`, `GenOf`). `FramesOf`: each complete frame that
  was not read has a live object of its own with its message; `PartOf` and `DeliveryOf` say it of the frame the drain is pushing; `CurOf` of the object a worker has at hand,
  which may be stale, but then by its generation; `Covered` and `OrphansOf`: the live objects are those, and the orphans apart from them. A step that
  touches neither a worker nor its ring leaves all its clauses as they were, which `WorkerSame` and `RingSame` say once for all.
- `ReadInOrderTheorem` joins three results: what is read are the first messages framed (`ReadOf`), what is framed are the first accepted (`FramedLog`), which the
  drain keeps because the message it carries is the first of the queue (`ExactInv`).
- `WaveCarriesHandleTheorem`: in the wave profile a drain and an instruction never overlap (`Between`), so only pushes race. A worker past `WAIT_FOR_DATA` has the rest of
  a frame in its ring (`WaveOf`), because the drain wakes it only behind four words and a worker that finds some words finds a multiple of four.

`KernelLifecycle_proofs`:

- `ThreadKnownTheorem`. The invariant is a statement for each place of the host (`HostInv`): at `create` the last thread is
  over, at `note` it was created, from `raise` to `settle` it was created and is joined exactly once. The thread itself
  clears `thread_started` only in its last store, behind which it does nothing.
  And whoever retires or resets it, a kernel says `RUNNING` only inside its run (`RunningInv`): what `stop_kernel` does about
  a status left behind by an ended thread (`epa_kernel_so.c:2274`) is never needed, and `HostSettle` leaves it out.
- `FreedUnusedTheorem`. That a kernel's thread has ended says nothing of its pool threads. `QuietInv`: they are back if the last run yielded
  and the pool was not stopped, since the barrier waits for all of them and only a run binds them. So if that holds of all kernels at the beginning of a destruction
  (`orderly`), nobody is at work in any of them, none comes to life, and no pointer is held into what is freed (`FreedInv`).
- `UnloadedFinalTheorem`: the only actions that take a kernel out of `unloaded` are those of an actor in `Stale`.

`StoreFile_proofs`:

- `ChainEndsTheorem`. `Links` alone is not inductive, for a call writes back copies it has loaded: `CallInv` says that the copy in
  `mem` links forward from where it was loaded and is whole, and that behind `create` the new block is the last. `Sound` holds for all three descriptors, the
  one the program kept included, since blocks are only appended. The proof needs no assumption about crashes: a crash leaves the disk as it is.
- `WalkableTheorem` and `ContentKeptTheorem` follow from `HeldInvariance`. `HeldInv` says that, while nothing misled a call (`Sane`: neither `misled` nor
  `stale`), there is a chain `c` that leads from the first block by its links and ends (`IsChain`), whose blocks but the last are full (`Full`), which has room
  for the size (`Covered`) and whose bytes are the content, but for those the call under way writes (`But`). The chain is named once, so that each action says what becomes of it: an append
  makes it longer (`FileExtended`), every other write leaves it and changes bytes of one block (`FileRewritten`). One conjunct for each place of the call
  says which block of `c` it is at and what its copy has in it (`InWalk`, `InFill`, `InCopy`, `InCreate`, `InDescribe`, `InFinish`). A crash ends the call: what can be read then becomes the content, and
  `ReadIs` says that it is what `c` holds.
- That `Read` computes what such a chain holds rests on lemmas about the operators: the function of the steps along the links exists and satisfies its equation
  (`StepsAre`), a chain of links that lead forward is the only one and the one `Chain` chooses (`ChainIs`, `ChainOnly`); in `FlattenSeq` of sequences of which
  all but the last have length `B`, element `o` of part `j` is at `B * (j - 1) + o` (`FlattenBytes`); and every place has one block and one offset (`PlaceOf`).

`StoreIndex_proofs`:

- The way along a list is a recursive function (`Steps`). `WayExists` shows that the function exists, by the least length for which there would be
  none, so that `Steps` satisfies its equation (`StepsAre`). From that `ListMembers` and `ListLeast`: the list is the least set that contains its first
  descriptor and goes on at every link. No later proof speaks of the steps: what a write does to a list follows from this
  (`ListHead`, `ListSame`, `ListExtended`).
- `IndexSoundTheorem`. That the ranges of a list are distinct is not inductive: a call appends a descriptor because it has gone through the list and
  not found its range, so `InNode` says that what it has passed is not what it looks for, and `InNewSibling` and `InLinkSibling` that the list still has none.
  That a map names the right descriptors needs what the bank map in memory names (`AtMap`), and that there is no second map once the head tells of one (`HeadTells`).
- `KeysKeptTheorem`. Between the change of the head and the first copy a key is in the bank map in memory, or in the part of the list still to
  come, whose ranges the bank map does not have yet (`InSiblings`): a crash there loses it, which is `cut`. In an update, what is trusted is the old bank
  map until the first copy is written and the new one from then on (`InCopies`, `Updating`); while the first is torn, the second stands in for it, if it was
  like the first (`FirstLost`), which is what `uneven` is about. A slot that a call fills was empty, so that it takes no other key away.

`RpcPeer_proofs`:

- `OwnAnswerTheorem`. `IdInv` and `StoreInv`: unless two threads raced, calls under way have different ids, all below the next one. `ChanInv`
  and `FrameInv`: a request on its way carries the call it was made for, an answer the call of its request; a late answer to a
  call that has timed out has an id that no listed call has. So the first listed call with the id of an answer is its own (`AnswerInv`).
- `ClosedToldTheorem`. `ListInv` and `OwnerInv` tie the list to the places of the callers; `ShutInv` and `ToldInv` say what is so behind `close`: the
  socket is shut down before the list is cleared, so that a call that lists itself later fails to send and does not come to wait.

Model-checked only:

- liveness, which needs fairness: `InterruptReturns`, `WorkConserving`, `InterruptEnds`, `IngressServed`, `FinishReported`, `ShutdownJoins`,
  `AcceptedRead`, `RetireTotal`, `StopReturns`, `CallsReturn`;
- `ReadBack`, which the code violates (a finding).

## Not modelled

`PROJECT.json` lists every part with its status. Most of the repository's lines are vendored code (an embedded web server),
generated or repetitive code (compilers, instruction bodies, tests), user interface, tools and demos; the models cover the parts
whose correctness depends on interleavings, failures and orders, and those are a small share of the lines.
Left out for good:

- what TLC cannot reach or what is only input and output: instruction arithmetic, AT kernels on tensors, compilers and loaders,
  weights, cryptography, user interface, tools and demos;
- what is sequential in one caller: access control and requests of a kernel, the dispatch of one AT request (fork and join), the
  debug scheduler (one wave round at a time), the codecs, the serializer, strings, SQL and JSON;
- `src/libElaraThreads`: wrappers of threads and locks whose hazards (a wait without a predicate at
  `libelarathreads/Thread.cpp:146`, a list of threads without a lock at 126 and 225-231) depend on how hosts call them; no modelled part does.

Hazards seen in the code of modelled parts and not in the list of `PROJECT.json`, because the models leave out what they are about:
the wrap of a handle's generation (`memory/epa_ghs.c:151`), the region, which is reset while it is read
(`memory/epa_rgm.c:52`), the doubling of a dynamic pool (`memory/epa_dynamic_pool.c:18`), a boot reset that
clears workers under running ticks (`epa_kernel_so.c:938`), delivery that unblocks a worker parked by SYNC (`epa_kernel_so.c:1441`), the
ownership flags tested at a transfer (`epa_kernel_so.c:1479`), `ingress_source` overwritten by the next delivery
(`epa_kernel_so.c:1419`), and the handshake of one AT dispatch (`epa_at_cpu_dispatch.c:205`).

## Plan

1. *(done)* cpu_thread scheduler, kernel thread and hosts; worker flags.
2. *(done)* AT pool and batches, with the abstract batch.
3. *(done)* Wave scheduler: list, cursor, budget, interrupt.
4. *(done)* Ingress: queue, delivery, handles and the input ring of a worker.
5. *(done)* Kernel lifecycle: start, stop, destroy, retire, far signals, boot reset.
6. *(done)* Indexed data store: one file, one level of the index.
7. *(done)* RPC peers.
8. *(done)* Proofs of the invariants of 1 to 5, of `StoreFile`, `StoreIndex` and `RpcPeer`.

What could come next, in this order: the region and the dynamic pools beside the workers that read them, two hosts at one
module, reconnection of an RPC peer, the debug scheduler as a variant of `WaveSched`, and the tasks of `libElaraThreads`.
