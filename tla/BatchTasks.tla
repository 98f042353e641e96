----------------------------- MODULE BatchTasks -----------------------------
(***************************************************************************)
(* What a batch of atomic tasks promises its users (epa_atomic_tasks.h):   *)
(* each of its blocks is claimed once, run once by whoever claimed it, and *)
(* completed once, and the end of the batch is reported when every block   *)
(* is DONE or FAULT.  Threads, rings, counters and owners are left out.    *)
(***************************************************************************)
EXTENDS Naturals

CONSTANTS Batches, Blocks

VARIABLES
    status,  \* the state of every block
    ran,     \* whether its handler was called
    reported \* whether on_finish was called

vars == <<status, ran, reported>>

Init ==
    /\ status = [b \in Batches |-> [i \in Blocks |-> "todo"]]
    /\ ran = [b \in Batches |-> [i \in Blocks |-> 0]]
    /\ reported = [b \in Batches |-> FALSE]

Claim(b, i) ==
    /\ status[b][i] = "todo"
    /\ status' = [status EXCEPT ![b][i] = "inflight"]
    /\ UNCHANGED <<ran, reported>>

Run(b, i) ==
    /\ status[b][i] = "inflight"
    /\ ran[b][i] = 0
    /\ ran' = [ran EXCEPT ![b][i] = 1]
    /\ UNCHANGED <<status, reported>>

Complete(b, i) ==
    /\ status[b][i] = "inflight"
    /\ ran[b][i] = 1
    /\ \E s \in {"done", "fault"} : status' = [status EXCEPT ![b][i] = s]
    /\ UNCHANGED <<ran, reported>>

Report(b) ==
    /\ \A i \in Blocks : status[b][i] \in {"done", "fault"}
    /\ reported' = [reported EXCEPT ![b] = TRUE]
    /\ UNCHANGED <<status, ran>>

Next ==
    \E b \in Batches :
        Report(b) \/ \E i \in Blocks : Claim(b, i) \/ Run(b, i) \/ Complete(b, i)

Spec == Init /\ [][Next]_vars
=============================================================================
