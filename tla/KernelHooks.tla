---------------------------- MODULE KernelHooks ----------------------------
(***************************************************************************)
(* What the flow hooks and the boot code of an EPA kernel do to the flags  *)
(* of its workers (epa_kernel_hooks.c, epa_kernel_so.c).  The flags of a   *)
(* worker are the set of those of EpaWorkerState that are nonzero; every   *)
(* operator maps the flags of all workers to their new flags, so that the  *)
(* scheduler modules share one translation of the hooks.                   *)
(***************************************************************************)
EXTENDS Integers

Flag == {"halted", "blocked", "waiting", "faulted", "retired"}

\* worker_runnable: an initialised worker none of whose flags is up.
Runnable(flags, w) == flags[w] = {}

\* init_workers_from_prog: only the kernel entry, worker 0, starts active.
BootFlags(Workers) == [w \in Workers |-> IF w = 0 THEN {} ELSE {"halted", "blocked"}]

Raise(flags, w, fs) == [flags EXCEPT ![w] = @ \union fs]
Clear(flags, w, fs) == [flags EXCEPT ![w] = @ \ fs]

\* hook_entry_exec: a retired worker is ignored; waiting_for_data survives.
EntryExec(flags, v) ==
    IF "retired" \in flags[v] THEN flags ELSE Clear(flags, v, {"halted", "blocked"})

\* hook_entry_halt.
EntryHalt(flags, v) == Raise(flags, v, {"halted", "blocked"})

\* hook_entry_retire.
EntryRetire(flags, v) == Raise(flags, v, {"retired", "halted", "blocked"})

\* hook_sync: the worker parks unless it is the kernel, whose slot is unblocked.
SyncFlags(flags, cur) ==
    Clear(IF cur # 0 THEN Raise(flags, cur, {"blocked"}) ELSE flags, 0, {"blocked"})

\* hook_trap and hook_except.
Trap(flags, w) == Raise(flags, w, {"faulted", "blocked"})

\* The end of epa_kernel_deliver_ingress_msg, for every worker of ws.
Deliver(flags, ws) ==
    [w \in DOMAIN flags |-> IF w \in ws THEN flags[w] \ {"waiting", "blocked"} ELSE flags[w]]
=============================================================================
