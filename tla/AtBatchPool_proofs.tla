------------------------- MODULE AtBatchPool_proofs -------------------------
(***************************************************************************)
(* Theorems about AtBatchPool for any number of threads, batches, blocks   *)
(* and submissions.                                                        *)
(***************************************************************************)
EXTENDS AtBatchPool, FiniteSetTheorems, TLAPS

LEMMA BlocksBounds ==
    /\ 0 \in Blocks
    /\ NBlocks \in Nat \ {0}
    /\ \A i \in Blocks : (i + 1) % NBlocks \in Blocks
  BY ConstantsOK DEF Blocks

\* The update of one block of one batch.
LEMMA UpdateBlock ==
    ASSUME NEW S, NEW f \in [Batches -> [Blocks -> S]],
           NEW b \in Batches, NEW i \in Blocks, NEW x \in S
    PROVE  /\ [f EXCEPT ![b][i] = x] \in [Batches -> [Blocks -> S]]
           /\ \A c \in Batches, j \in Blocks :
                  [f EXCEPT ![b][i] = x][c][j] = IF c = b /\ j = i THEN x ELSE f[c][j]
  OBVIOUS

LEMMA TypeInit == Init => TypeOK
  <1> SUFFICES ASSUME Init PROVE TypeOK
    OBVIOUS
  <1>1. q \in Seq(Batches) /\ waiters \subseteq Tids
    BY DEF Init
  <1>9. stop \in BOOLEAN
    BY DEF Init
  <1>2. tpc \in [Tids -> TidPC] /\ held \in [Tids -> Batches \union {NoBatch}]
    BY DEF Init, TidPC
  <1>3. idx \in [Tids -> Blocks] /\ left \in [Tids -> 0 .. NBlocks] /\ ok \in [Tids -> BOOLEAN]
    BY BlocksBounds DEF Init
  <1>4. state \in [Batches -> [Blocks -> BlockState]]
    BY DEF Init, BlockState
  <1>5. owner \in [Batches -> [Blocks -> Tids \union {Nobody}]]
    BY DEF Init
  <1>6. done \in [Batches -> Nat] /\ fault \in [Batches -> Nat] /\ cursor \in [Batches -> Blocks]
    BY BlocksBounds DEF Init
  <1>7. submitted \in [Batches -> 0 .. Copies] /\ finishes \in [Batches -> 0 .. 2]
    BY ConstantsOK DEF Init
  <1>8. execs \in [Batches -> [Blocks -> 0 .. 2]] /\ dropped \subseteq Batches
    BY DEF Init
  <1> QED
    BY <1>1, <1>2, <1>3, <1>4, <1>5, <1>6, <1>7, <1>8, <1>9 DEF TypeOK

LEMMA PushType ==
    ASSUME TypeOK, NEW b \in Batches, Push(b)
    PROVE  q' \in Seq(Batches) /\ dropped' \subseteq Batches
  <1>1. (q' = q \/ q' = Append(q, b)) /\ dropped' \subseteq dropped \union {b}
    BY DEF Push
  <1>2. q \in Seq(Batches) /\ dropped \subseteq Batches
    BY DEF TypeOK
  <1>3. q' \in Seq(Batches)
    BY <1>1, <1>2
  <1>4. dropped' \subseteq Batches
    BY <1>1, <1>2
  <1> QED
    BY <1>3, <1>4

LEMMA NextIterationType ==
    ASSUME TypeOK, NEW t \in Tids, NextIteration(t)
    PROVE  /\ tpc' \in [Tids -> TidPC]
           /\ held' \in [Tids -> Batches \union {NoBatch}]
           /\ idx' \in [Tids -> Blocks]
           /\ left' \in [Tids -> 0 .. NBlocks]
           /\ ok' \in [Tids -> BOOLEAN]
  <1>1. tpc' \in [Tids -> TidPC] /\ held' \in [Tids -> Batches \union {NoBatch}]
    BY DEF NextIteration, Goto, TypeOK, TidPC
  <1>2. idx' \in [Tids -> Blocks]
    BY BlocksBounds DEF NextIteration, TypeOK
  <1>3. left' \in [Tids -> 0 .. NBlocks]
    BY BlocksBounds DEF NextIteration, TypeOK
  <1>4. ok' \in [Tids -> BOOLEAN]
    BY Zenon DEF NextIteration, TypeOK
  <1> QED
    BY <1>1, <1>2, <1>3, <1>4

\* A thread past Take holds a batch.
HoldsInv == \A t \in Tids : tpc[t] \notin {"born", "idle", "exit"} => held[t] \in Batches

LEMMA TypeStep == TypeOK /\ HoldsInv /\ [Next]_vars => TypeOK'
  <1> SUFFICES ASSUME TypeOK, HoldsInv, [Next]_vars PROVE TypeOK'
    OBVIOUS
  <1> USE BlocksBounds
  <1>1. ASSUME NEW t \in Tids, Born(t) PROVE TypeOK'
    BY <1>1 DEF Born, Goto, TypeOK, TidPC, poolVars, batchVars, histVars
  <1>2. ASSUME NEW t \in Tids, Take(t) PROVE TypeOK'
    <2>1. \/ q' = q /\ held' = held
          \/ q # <<>> /\ q' = Tail(q) /\ held' = [held EXCEPT ![t] = Head(q)]
      BY <1>2, Zenon DEF Take
    <2>2. q' \in Seq(Batches) /\ held' \in [Tids -> Batches \union {NoBatch}]
      <3>1. q # <<>> => Tail(q) \in Seq(Batches) /\ Head(q) \in Batches
        BY DEF TypeOK
      <3> QED
        BY <2>1, <3>1 DEF TypeOK
    <2>3. waiters' \in {waiters, waiters \union {t}}
      BY <1>2 DEF Take
    <2>4. \E pc \in {tpc[t], "exit", "check"} : tpc' = [tpc EXCEPT ![t] = pc]
      BY <1>2 DEF Take, Goto, TypeOK
    <2>5. tpc' \in [Tids -> TidPC]
      BY <2>4 DEF TypeOK, TidPC
    <2>6. UNCHANGED <<stop, idx, left, ok, batchVars, histVars>>
      BY <1>2 DEF Take
    <2> QED
      BY <2>2, <2>3, <2>5, <2>6 DEF TypeOK, batchVars, histVars
  <1>3. ASSUME NEW t \in Tids, Check(t) \/ Failed(t) PROVE TypeOK'
    <2>1. CASE NextIteration(t)
      BY <1>3, <2>1, NextIterationType DEF Check, Failed, TypeOK, poolVars, batchVars, histVars
    <2>2. CASE ~NextIteration(t)
      BY <1>3, <2>2 DEF Check, Failed, Goto, TypeOK, TidPC, poolVars, batchVars, histVars
    <2> QED
      BY <2>1, <2>2
  <1>4. ASSUME NEW t \in Tids, ClaimStart(t) PROVE TypeOK'
    <2>1. held[t] \in Batches
      BY <1>4 DEF ClaimStart, HoldsInv
    <2>2. \/ idx' = idx /\ left' = left /\ cursor' = cursor /\ Goto(t, "failed")
          \/ /\ idx' = [idx EXCEPT ![t] = cursor[held[t]]]
             /\ left' = [left EXCEPT ![t] = NBlocks]
             /\ cursor' = [cursor EXCEPT ![held[t]] = (@ + 1) % NBlocks]
             /\ Goto(t, "probe")
      BY <1>4 DEF ClaimStart
    <2>3. idx' \in [Tids -> Blocks]
      BY <2>1, <2>2 DEF TypeOK
    <2>4. left' \in [Tids -> 0 .. NBlocks]
      <3>1. NBlocks \in 0 .. NBlocks
        OBVIOUS
      <3> QED
        BY <2>2, <3>1, Zenon DEF TypeOK
    <2>5. cursor' \in [Batches -> Blocks]
      <3>1. (cursor[held[t]] + 1) % NBlocks \in Blocks
        BY <2>1 DEF TypeOK
      <3> QED
        BY <2>1, <2>2, <3>1 DEF TypeOK
    <2>6. tpc' \in [Tids -> TidPC]
      BY <2>2 DEF Goto, TypeOK, TidPC
    <2>7. UNCHANGED <<poolVars, held, ok, state, owner, done, fault, histVars>>
      BY <1>4 DEF ClaimStart
    <2> QED
      BY <2>3, <2>4, <2>5, <2>6, <2>7 DEF TypeOK, poolVars, histVars
  <1>5. ASSUME NEW t \in Tids, Probe(t) PROVE TypeOK'
    <2>1. held[t] \in Batches
      BY <1>5 DEF Probe, HoldsInv
    <2>2. \/ idx' = idx /\ left' = left /\ state' = state /\ Goto(t, "failed")
          \/ /\ idx' = idx /\ left' = [left EXCEPT ![t] = 0] /\ Goto(t, "own")
             /\ state' = [state EXCEPT ![held[t]][idx[t]] = "inflight"]
          \/ /\ idx' = [idx EXCEPT ![t] = (@ + 1) % NBlocks] /\ tpc' = tpc /\ state' = state
             /\ left[t] > 0 /\ left' = [left EXCEPT ![t] = @ - 1]
      BY <1>5 DEF Probe
    <2>3. idx' \in [Tids -> Blocks]
      BY <2>2 DEF TypeOK
    <2>4. left' \in [Tids -> 0 .. NBlocks]
      BY <2>2 DEF TypeOK
    <2>5. state' \in [Batches -> [Blocks -> BlockState]]
      <3>1. "inflight" \in BlockState
        BY DEF BlockState
      <3>2. [state EXCEPT ![held[t]][idx[t]] = "inflight"] \in [Batches -> [Blocks -> BlockState]]
        BY <2>1, <3>1, UpdateBlock DEF TypeOK
      <3> QED
        BY <2>2, <3>2 DEF TypeOK
    <2>6. tpc' \in [Tids -> TidPC]
      BY <2>2 DEF Goto, TypeOK, TidPC
    <2>7. UNCHANGED <<poolVars, held, ok, owner, done, fault, cursor, histVars>>
      BY <1>5 DEF Probe
    <2> QED
      BY <2>3, <2>4, <2>5, <2>6, <2>7 DEF TypeOK, poolVars, histVars
  <1>6. ASSUME NEW t \in Tids, Own(t) PROVE TypeOK'
    BY <1>6 DEF Own, Goto, TypeOK, TidPC, poolVars, histVars
  <1>7. ASSUME NEW t \in Tids, Exec(t) PROVE TypeOK'
    <2>1. held[t] \in Batches /\ idx[t] \in Blocks
      BY <1>7 DEF Exec, HoldsInv, TypeOK
    <2>2. ok' \in [Tids -> BOOLEAN]
      <3>1. PICK r \in BOOLEAN : ok' = [ok EXCEPT ![t] = r]
        BY <1>7, Zenon DEF Exec
      <3> QED
        BY <3>1, Zenon DEF TypeOK
    <2>3. Saturate(execs[held[t]][idx[t]]) \in 0 .. 2
      BY <2>1 DEF Saturate, TypeOK
    <2>4. execs' = [execs EXCEPT ![held[t]][idx[t]] = Saturate(execs[held[t]][idx[t]])]
      BY <1>7, <2>1 DEF Exec, TypeOK
    <2>5. execs' \in [Batches -> [Blocks -> 0 .. 2]]
      BY <2>1, <2>3, <2>4, UpdateBlock DEF TypeOK
    <2>6. tpc' \in [Tids -> TidPC]
      BY <1>7 DEF Exec, Goto, TypeOK, TidPC
    <2> QED
      BY <1>7, <2>2, <2>5, <2>6 DEF Exec, TypeOK, poolVars, batchVars
  <1>8. ASSUME NEW t \in Tids, Mark(t) PROVE TypeOK'
    <2>1. held[t] \in Batches /\ idx[t] \in Blocks
      BY <1>8 DEF Mark, HoldsInv, TypeOK
    <2>2. \/ state' = state /\ Goto(t, "finish")
          \/ /\ \E s \in {"done", "fault"} : state' = [state EXCEPT ![held[t]][idx[t]] = s]
             /\ Goto(t, "count")
      BY <1>8 DEF Mark
    <2>3. state' \in [Batches -> [Blocks -> BlockState]]
      <3>1. {"done", "fault"} \subseteq BlockState
        BY DEF BlockState
      <3>2. \A s \in BlockState :
               [state EXCEPT ![held[t]][idx[t]] = s] \in [Batches -> [Blocks -> BlockState]]
        BY <2>1, UpdateBlock DEF TypeOK
      <3>3. state \in [Batches -> [Blocks -> BlockState]]
        BY DEF TypeOK
      <3>4. CASE state' = state
        BY <3>3, <3>4
      <3>5. ASSUME NEW s \in {"done", "fault"}, state' = [state EXCEPT ![held[t]][idx[t]] = s]
            PROVE  state' \in [Batches -> [Blocks -> BlockState]]
        BY <3>1, <3>2, <3>5
      <3> QED
        BY <2>2, <3>4, <3>5, Zenon
    <2>4. tpc' \in [Tids -> TidPC]
      BY <2>2 DEF Goto, TypeOK, TidPC
    <2> QED
      BY <1>8, <2>3, <2>4 DEF Mark, TypeOK, poolVars, histVars
  <1>9. ASSUME NEW t \in Tids, Count(t) PROVE TypeOK'
    <2>1. held[t] \in Batches
      BY <1>9 DEF Count, HoldsInv
    <2>2. \/ done' = [done EXCEPT ![held[t]] = @ + 1] /\ fault' = fault
          \/ fault' = [fault EXCEPT ![held[t]] = @ + 1] /\ done' = done
      <3>1. CASE ok[t]
        BY <1>9, <3>1, Zenon DEF Count
      <3>2. CASE ~ok[t]
        BY <1>9, <3>2, Zenon DEF Count
      <3> QED
        BY <3>1, <3>2
    <2>3. done' \in [Batches -> Nat] /\ fault' \in [Batches -> Nat]
      <3>1. done \in [Batches -> Nat] /\ fault \in [Batches -> Nat]
        BY DEF TypeOK
      <3>2. [done EXCEPT ![held[t]] = @ + 1] \in [Batches -> Nat]
        BY <2>1, <3>1
      <3>3. [fault EXCEPT ![held[t]] = @ + 1] \in [Batches -> Nat]
        BY <2>1, <3>1
      <3> QED
        BY <2>2, <3>1, <3>2, <3>3, Zenon
    <2>4. tpc' \in [Tids -> TidPC]
      BY <1>9 DEF Count, Goto, TypeOK, TidPC
    <2> QED
      <3>1. UNCHANGED <<poolVars, held, idx, left, ok, state, owner, cursor, histVars>>
        BY <1>9, Zenon DEF Count
      <3> QED
        BY <3>1, <2>3, <2>4 DEF TypeOK, poolVars, histVars
  <1>10. ASSUME NEW t \in Tids, Release(t) PROVE TypeOK'
    BY <1>10 DEF Release, Goto, TypeOK, TidPC, poolVars, histVars
  <1>11. ASSUME NEW t \in Tids, Finish(t) PROVE TypeOK'
    <2>1. held[t] \in Batches
      BY <1>11 DEF Finish, HoldsInv
    <2>2. Saturate(finishes[held[t]]) \in 0 .. 2
      BY <2>1 DEF Saturate, TypeOK
    <2>3. \/ finishes' = [finishes EXCEPT ![held[t]] = Saturate(finishes[held[t]])]
          \/ finishes' = finishes
      BY <1>11, <2>1 DEF Finish, TypeOK
    <2>4. finishes' \in [Batches -> 0 .. 2]
      BY <2>1, <2>2, <2>3 DEF TypeOK
    <2>5. tpc' \in [Tids -> TidPC]
      BY <1>11 DEF Finish, Goto, TypeOK, TidPC
    <2> QED
      BY <1>11, <2>4, <2>5 DEF Finish, TypeOK, poolVars, batchVars
  <1>12. ASSUME NEW t \in Tids, Requeue(t) \/ PutBack(t) PROVE TypeOK'
    <2>1. held[t] \in Batches
      BY <1>12 DEF Requeue, PutBack, HoldsInv
    <2>2. q' \in Seq(Batches) /\ dropped' \subseteq Batches /\ waiters' \subseteq Tids
      BY <1>12, <2>1, PushType DEF Requeue, PutBack, TypeOK
    <2> QED
      BY <1>12, <2>2, NextIterationType DEF Requeue, PutBack, TypeOK, batchVars
  <1>13. ASSUME NEW b \in Batches, Submit(b) PROVE TypeOK'
    <2>1. submitted' \in [Batches -> 0 .. Copies]
      BY <1>13, ConstantsOK DEF Submit, TypeOK
    <2> QED
      BY <1>13, <2>1 DEF Submit, TypeOK, tidVars, batchVars
  <1>14. CASE Wake \/ Shutdown \/ SpuriousWake
    BY <1>14 DEF Wake, Shutdown, SpuriousWake, TypeOK, tidVars, batchVars, histVars
  <1>15. CASE UNCHANGED vars
    BY <1>15 DEF vars, TypeOK, poolVars, tidVars, batchVars, histVars
  <1> QED
    BY <1>1, <1>2, <1>3, <1>4, <1>5, <1>6, <1>7, <1>8, <1>9, <1>10, <1>11, <1>12, <1>13, <1>14,
       <1>15 DEF Next, TidNext

----------------------------------------------------------------------------
(* Who works on a block                                                    *)

Ownership == OneOwner /\ OwnershipInv /\ BlockInv

\* The step is t's: every other thread stays where it is.
OnlyThread(t) ==
    \A u \in Tids \ {t} : tpc'[u] = tpc[u] /\ held'[u] = held[u] /\ idx'[u] = idx[u]

\* A thread that has no block after the step, and changed none, disturbs nobody.
LEMMA IdleMove ==
    ASSUME Ownership, NEW t \in Tids, OnlyThread(t), UNCHANGED <<state, owner, execs>>,
           tpc'[t] \notin {"own", "exec", "mark", "count", "release"},
           tpc'[t] \notin {"born", "idle", "exit"} => held'[t] \in Batches
    PROVE  Ownership'
  <1>1. OneOwner'
    BY DEF Ownership, OneOwner, Working, OnlyThread
  <1>2. OwnershipInv'
    BY DEF Ownership, OwnershipInv, PhaseOK, OnlyThread, Terminal
  <1>3. BlockInv'
    BY DEF Ownership, BlockInv, BlockOK, Terminal
  <1> QED
    BY <1>1, <1>2, <1>3 DEF Ownership

\* A thread that goes on with its block, the only one the step changes, disturbs nobody
\* as long as no other thread has that block.
LEMMA WorkMove ==
    ASSUME TypeOK, Ownership, NEW t \in Tids, OnlyThread(t),
           NEW b \in Batches, NEW i \in Blocks, held'[t] = b, idx'[t] = i,
           \A u \in Tids \ {t} : Working(u) => held[u] # b \/ idx[u] # i,
           \A c \in Batches, j \in Blocks : c # b \/ j # i =>
               /\ state'[c][j] = state[c][j]
               /\ execs'[c][j] = execs[c][j]
               /\ owner'[c][j] = owner[c][j],
           PhaseOK(t)', BlockOK(b, i)'
    PROVE  Ownership'
  <1>1. OneOwner'
    BY DEF Ownership, OneOwner, Working, OnlyThread
  <1>2. ASSUME NEW u \in Tids \ {t} PROVE PhaseOK(u)'
    <2>1. PhaseOK(u) /\ tpc'[u] = tpc[u] /\ held'[u] = held[u] /\ idx'[u] = idx[u] /\ idx[u] \in Blocks
      BY DEF Ownership, OwnershipInv, OnlyThread, TypeOK
    <2>2. CASE Working(u)
      <3>1. held[u] \in Batches /\ (held[u] # b \/ idx[u] # i)
        BY <2>1, <2>2 DEF PhaseOK, Working
      <3> QED
        BY <2>1, <3>1 DEF PhaseOK
    <2>3. CASE ~Working(u)
      BY <2>1, <2>3 DEF PhaseOK, Working
    <2> QED
      BY <2>2, <2>3
  <1>3. BlockInv'
    BY DEF Ownership, BlockInv, BlockOK
  <1> QED
    BY <1>1, <1>2, <1>3 DEF Ownership, OwnershipInv

\* No other thread has the block of a thread that works on one.
LEMMA Alone ==
    ASSUME Ownership, NEW t \in Tids, Working(t)
    PROVE  /\ held[t] \in Batches
           /\ \A u \in Tids \ {t} : Working(u) => held[u] # held[t] \/ idx[u] # idx[t]
  BY DEF Ownership, OneOwner, OwnershipInv, PhaseOK, Working

LEMMA PutDown ==
    ASSUME TypeOK, NEW t \in Tids, NextIteration(t)
    PROVE  OnlyThread(t) /\ tpc'[t] = "idle"
  BY DEF NextIteration, Goto, TypeOK, OnlyThread

LEMMA OwnershipStep == TypeOK /\ Ownership /\ [Next]_vars => Ownership'
  <1> SUFFICES ASSUME TypeOK, Ownership, [Next]_vars PROVE Ownership'
    OBVIOUS
  <1>1. ASSUME NEW t \in Tids, Born(t) PROVE Ownership'
    <2>1. OnlyThread(t) /\ tpc'[t] \in {"idle", "exit"}
      BY <1>1 DEF Born, Goto, OnlyThread, TypeOK
    <2> QED
      BY <1>1, <2>1, IdleMove DEF Born, batchVars, histVars
  <1>2. ASSUME NEW t \in Tids, Take(t) PROVE Ownership'
    <2>1. OnlyThread(t)
      BY <1>2 DEF Take, Goto, OnlyThread, TypeOK
    <2>2. \/ tpc'[t] \in {"idle", "exit"}
          \/ tpc'[t] = "check" /\ q # <<>> /\ held'[t] = Head(q)
      BY <1>2 DEF Take, Goto, TypeOK
    <2>3. q # <<>> => Head(q) \in Batches
      BY DEF TypeOK
    <2> QED
      BY <1>2, <2>1, <2>2, <2>3, IdleMove DEF Take, batchVars, histVars
  <1>3. ASSUME NEW t \in Tids, Check(t) \/ Failed(t) PROVE Ownership'
    <2>1. OnlyThread(t)
      BY <1>3, PutDown DEF Check, Failed, Goto, OnlyThread, TypeOK
    <2>2. tpc'[t] \in {"idle", "claim", "putback"}
      BY <1>3, PutDown DEF Check, Failed, Goto, TypeOK
    <2>3. held[t] \in Batches
      BY <1>3 DEF Check, Failed, Ownership, OwnershipInv, PhaseOK
    <2>4. tpc'[t] = "idle" \/ held'[t] = held[t]
      BY <1>3, PutDown DEF Check, Failed
    <2> QED
      BY <1>3, <2>1, <2>2, <2>3, <2>4, IdleMove DEF Check, Failed, batchVars, histVars
  <1>4. ASSUME NEW t \in Tids, ClaimStart(t) PROVE Ownership'
    <2>1. held[t] \in Batches
      BY <1>4 DEF ClaimStart, Ownership, OwnershipInv, PhaseOK
    <2>2. OnlyThread(t) /\ tpc'[t] \in {"failed", "probe"} /\ held' = held
      BY <1>4 DEF ClaimStart, Goto, OnlyThread, TypeOK
    <2> QED
      BY <1>4, <2>1, <2>2, IdleMove DEF ClaimStart, histVars
  <1>5. ASSUME NEW t \in Tids, Probe(t) PROVE Ownership'
    <2>1. held[t] \in Batches /\ idx[t] \in Blocks
      BY <1>5 DEF Probe, Ownership, OwnershipInv, PhaseOK, TypeOK
    <2>2. OnlyThread(t) /\ held' = held
      BY <1>5 DEF Probe, Goto, OnlyThread, TypeOK
    <2>3. CASE state' = state
      <3>1. tpc'[t] \in {"failed", "probe"}
        BY <1>5, <2>1, <2>3 DEF Probe, Goto, TypeOK, Claimable
      <3> QED
        BY <1>5, <2>1, <2>2, <2>3, <3>1, IdleMove DEF Probe, histVars
    <2>4. CASE state' # state
      <3>1. /\ state[held[t]][idx[t]] = "todo" /\ tpc'[t] = "own" /\ idx'[t] = idx[t]
            /\ state' = [state EXCEPT ![held[t]][idx[t]] = "inflight"]
        BY <1>5, <2>4 DEF Probe, Goto, TypeOK, Claimable
      <3>2. \A u \in Tids \ {t} : Working(u) => held[u] # held[t] \/ idx[u] # idx[t]
        BY <3>1 DEF Ownership, OwnershipInv, PhaseOK, Working, Terminal
      <3>3. \A c \in Batches, j \in Blocks : c # held[t] \/ j # idx[t] => state'[c][j] = state[c][j]
        BY <2>1, <3>1 DEF TypeOK
      <3>4. state'[held[t]][idx[t]] = "inflight"
        BY <2>1, <3>1 DEF TypeOK
      <3>5. execs' = execs /\ owner' = owner
        BY <1>5 DEF Probe, histVars
      <3>6. execs[held[t]][idx[t]] = 0
        BY <2>1, <3>1 DEF Ownership, BlockInv, BlockOK
      <3>7. PhaseOK(t)' /\ BlockOK(held[t], idx[t])'
        BY <2>1, <2>2, <3>1, <3>4, <3>5, <3>6 DEF PhaseOK, BlockOK, Terminal
      <3> QED
        BY <2>1, <2>2, <3>1, <3>2, <3>3, <3>5, <3>7, WorkMove
    <2> QED
      BY <2>3, <2>4
  <1>6. ASSUME NEW t \in Tids, Own(t) PROVE Ownership'
    <2>1. /\ held[t] \in Batches /\ idx[t] \in Blocks
          /\ \A u \in Tids \ {t} : Working(u) => held[u] # held[t] \/ idx[u] # idx[t]
      BY <1>6, Alone DEF Own, Working, TypeOK
    <2>2. OnlyThread(t) /\ tpc'[t] = "exec" /\ UNCHANGED <<held, idx, state, execs>>
      BY <1>6 DEF Own, Goto, OnlyThread, TypeOK, histVars
    <2>3. \A c \in Batches, j \in Blocks :
             owner'[c][j] = IF c = held[t] /\ j = idx[t] THEN t ELSE owner[c][j]
      BY <1>6, <2>1, UpdateBlock DEF Own, TypeOK
    <2>4. PhaseOK(t) /\ BlockOK(held[t], idx[t])
      BY <2>1 DEF Ownership, OwnershipInv, BlockInv
    <2>5. PhaseOK(t)' /\ BlockOK(held[t], idx[t])'
      BY <1>6, <2>1, <2>2, <2>3, <2>4 DEF Own, PhaseOK, BlockOK
    <2> QED
      BY <2>1, <2>2, <2>3, <2>5, WorkMove
  <1>7. ASSUME NEW t \in Tids, Exec(t) PROVE Ownership'
    <2>1. /\ held[t] \in Batches /\ idx[t] \in Blocks
          /\ \A u \in Tids \ {t} : Working(u) => held[u] # held[t] \/ idx[u] # idx[t]
      BY <1>7, Alone DEF Exec, Working, TypeOK
    <2>2. OnlyThread(t) /\ tpc'[t] = "mark" /\ UNCHANGED <<held, idx, state, owner>>
      BY <1>7 DEF Exec, Goto, OnlyThread, TypeOK, batchVars
    <2>3. PhaseOK(t) /\ BlockOK(held[t], idx[t])
      BY <2>1 DEF Ownership, OwnershipInv, BlockInv
    <2>4. \A c \in Batches, j \in Blocks :
             execs'[c][j] = IF c = held[t] /\ j = idx[t] THEN 1 ELSE execs[c][j]
      BY <1>7, <2>1, <2>3 DEF Exec, TypeOK, Saturate, PhaseOK
    <2>5. PhaseOK(t)' /\ BlockOK(held[t], idx[t])'
      BY <1>7, <2>1, <2>2, <2>3, <2>4 DEF Exec, PhaseOK, BlockOK
    <2> QED
      BY <2>1, <2>2, <2>4, <2>5, WorkMove
  <1>8. ASSUME NEW t \in Tids, Mark(t) PROVE Ownership'
    <2>1. /\ held[t] \in Batches /\ idx[t] \in Blocks
          /\ \A u \in Tids \ {t} : Working(u) => held[u] # held[t] \/ idx[u] # idx[t]
      BY <1>8, Alone DEF Mark, Working, TypeOK
    <2>2. OnlyThread(t) /\ UNCHANGED <<held, idx, owner, execs>>
      BY <1>8 DEF Mark, Goto, OnlyThread, TypeOK, histVars
    <2>3. PhaseOK(t) /\ BlockOK(held[t], idx[t])
      BY <2>1 DEF Ownership, OwnershipInv, BlockInv
    <2>4. PICK s \in Terminal : state' = [state EXCEPT ![held[t]][idx[t]] = s]
      BY <1>8, <2>3 DEF Mark, PhaseOK, Terminal
    <2>5. \A c \in Batches, j \in Blocks :
             state'[c][j] = IF c = held[t] /\ j = idx[t] THEN s ELSE state[c][j]
      BY <2>1, <2>4 DEF TypeOK
    <2>6. tpc'[t] = "count"
      BY <1>8, <2>3 DEF Mark, PhaseOK, Goto, TypeOK
    <2>7. PhaseOK(t)' /\ BlockOK(held[t], idx[t])'
      BY <1>8, <2>1, <2>2, <2>3, <2>5, <2>6 DEF Mark, PhaseOK, BlockOK, Terminal
    <2> QED
      BY <2>1, <2>2, <2>5, <2>7, WorkMove
  <1>9. ASSUME NEW t \in Tids, Count(t) PROVE Ownership'
    <2>1. /\ held[t] \in Batches /\ idx[t] \in Blocks
          /\ \A u \in Tids \ {t} : Working(u) => held[u] # held[t] \/ idx[u] # idx[t]
      BY <1>9, Alone DEF Count, Working, TypeOK
    <2>2. UNCHANGED <<held, idx, state, owner, execs>>
      BY <1>9, Zenon DEF Count, histVars
    <2>3. OnlyThread(t) /\ tpc'[t] = "release"
      BY <1>9, <2>2 DEF Count, Goto, OnlyThread, TypeOK
    <2>4. PhaseOK(t) /\ BlockOK(held[t], idx[t]) /\ tpc[t] = "count"
      BY <1>9, <2>1 DEF Count, Ownership, OwnershipInv, BlockInv
    <2>5. PhaseOK(t)' /\ BlockOK(held[t], idx[t])'
      BY <2>1, <2>2, <2>3, <2>4 DEF PhaseOK, BlockOK
    <2> QED
      BY <2>1, <2>2, <2>3, <2>5, WorkMove
  <1>10. ASSUME NEW t \in Tids, Release(t) PROVE Ownership'
    <2>1. /\ held[t] \in Batches /\ idx[t] \in Blocks
          /\ \A u \in Tids \ {t} : Working(u) => held[u] # held[t] \/ idx[u] # idx[t]
      BY <1>10, Alone DEF Release, Working, TypeOK
    <2>2. OnlyThread(t) /\ tpc'[t] = "finish" /\ UNCHANGED <<held, idx, state, execs>>
      BY <1>10 DEF Release, Goto, OnlyThread, TypeOK, histVars
    <2>3. \A c \in Batches, j \in Blocks :
             owner'[c][j] = IF c = held[t] /\ j = idx[t] THEN Nobody ELSE owner[c][j]
      BY <1>10, <2>1, UpdateBlock DEF Release, TypeOK
    <2>4. PhaseOK(t)' /\ BlockOK(held[t], idx[t])'
      BY <2>1, <2>2 DEF PhaseOK, BlockOK, Ownership, BlockInv
    <2> QED
      BY <2>1, <2>2, <2>3, <2>4, WorkMove
  <1>12. ASSUME NEW t \in Tids, Finish(t) PROVE Ownership'
    <2>1. held[t] \in Batches
      BY <1>12 DEF Finish, Ownership, OwnershipInv, PhaseOK
    <2>2. OnlyThread(t) /\ tpc'[t] = "requeue" /\ held' = held
      BY <1>12 DEF Finish, Goto, OnlyThread, TypeOK
    <2> QED
      BY <1>12, <2>1, <2>2, IdleMove DEF Finish, batchVars
  <1>13. ASSUME NEW t \in Tids, Requeue(t) \/ PutBack(t) PROVE Ownership'
    <2>1. OnlyThread(t) /\ tpc'[t] = "idle"
      BY <1>13, PutDown DEF Requeue, PutBack
    <2> QED
      BY <1>13, <2>1, IdleMove DEF Requeue, PutBack, batchVars, histVars
  <1>14. CASE (\E b \in Batches : Submit(b)) \/ Wake \/ Shutdown \/ SpuriousWake \/ UNCHANGED vars
    <2>1. UNCHANGED <<tpc, held, idx, state, owner, execs>>
      BY <1>14 DEF Submit, Wake, Shutdown, SpuriousWake, vars, tidVars, batchVars, histVars
    <2> QED
      BY <2>1 DEF Ownership, OneOwner, OwnershipInv, PhaseOK, BlockInv, BlockOK, Working,
             Terminal
  <1> QED
    BY <1>1, <1>2, <1>3, <1>4, <1>5, <1>6, <1>7, <1>8, <1>9, <1>10, <1>12, <1>13, <1>14
       DEF Next, TidNext

----------------------------------------------------------------------------
(* What the two counters of a batch count                                  *)

LEMMA BlocksFinite == IsFiniteSet(Blocks) /\ Cardinality(Blocks) = NBlocks
  BY FS_Interval, BlocksBounds DEF Blocks

LEMMA CountedFinite ==
    ASSUME NEW b PROVE IsFiniteSet(Counted(b)) /\ Cardinality(Counted(b)) \in Nat
  BY BlocksFinite, FS_Subset, FS_CardinalityType DEF Counted

\* "all finished" holds only when every block is DONE or FAULT.
LEMMA FinishedBlocks ==
    ASSUME CountInv, NEW b \in Batches, AllFinished(b)
    PROVE  \A i \in Blocks : state[b][i] \in Terminal
  <1>1. Cardinality(Counted(b)) = Cardinality(Blocks) /\ Counted(b) \subseteq Blocks
    BY BlocksFinite DEF CountInv, AllFinished, Counted
  <1>2. Counted(b) = Blocks
    BY <1>1, BlocksFinite, FS_Subset
  <1> QED
    BY <1>2 DEF Counted

\* The counters stay right in a step that counts nothing.
LEMMA CountKept ==
    ASSUME CountInv, UNCHANGED <<done, fault>>, \A b \in Batches : Counted(b)' = Counted(b)
    PROVE  CountInv'
  BY DEF CountInv

LEMMA CountedKept ==
    ASSUME NEW t \in Tids, OnlyThread(t), tpc[t] # "count", tpc'[t] # "count",
           \A c \in Batches, j \in Blocks : (state'[c][j] \in Terminal) <=> (state[c][j] \in Terminal)
    PROVE  \A b \in Batches : Counted(b)' = Counted(b)
  BY DEF Counted, OnlyThread

LEMMA CountStep == TypeOK /\ Ownership /\ CountInv /\ [Next]_vars => CountInv'
  <1> SUFFICES ASSUME TypeOK, Ownership, CountInv, [Next]_vars PROVE CountInv'
    OBVIOUS
  <1>1. ASSUME NEW t \in Tids, Born(t) \/ Take(t) \/ ClaimStart(t) \/ Own(t) \/ Release(t)
        PROVE  CountInv'
    <2>1. OnlyThread(t) /\ tpc[t] # "count" /\ tpc'[t] # "count"
      BY <1>1 DEF Born, Take, ClaimStart, Own, Release, Goto, OnlyThread, TypeOK
    <2>2. UNCHANGED <<state, done, fault>>
      BY <1>1 DEF Born, Take, ClaimStart, Own, Release, batchVars
    <2> QED
      BY <2>1, <2>2, CountedKept, CountKept
  <1>2. ASSUME NEW t \in Tids, Check(t) \/ Failed(t) \/ Requeue(t) \/ PutBack(t)
        PROVE  CountInv'
    <2>1. OnlyThread(t) /\ tpc[t] # "count" /\ tpc'[t] # "count"
      BY <1>2, PutDown DEF Check, Failed, Requeue, PutBack, Goto, OnlyThread, TypeOK
    <2>2. UNCHANGED <<state, done, fault>>
      BY <1>2 DEF Check, Failed, Requeue, PutBack, batchVars
    <2> QED
      BY <2>1, <2>2, CountedKept, CountKept
  <1>3. ASSUME NEW t \in Tids, Exec(t) \/ Finish(t) PROVE CountInv'
    <2>1. OnlyThread(t) /\ tpc[t] # "count" /\ tpc'[t] # "count"
      BY <1>3 DEF Exec, Finish, Goto, OnlyThread, TypeOK
    <2>2. UNCHANGED <<state, done, fault>>
      BY <1>3 DEF Exec, Finish, batchVars
    <2> QED
      BY <2>1, <2>2, CountedKept, CountKept
  <1>4. ASSUME NEW t \in Tids, Probe(t) PROVE CountInv'
    <2>1. OnlyThread(t) /\ tpc[t] # "count" /\ tpc'[t] # "count"
      BY <1>4 DEF Probe, Goto, OnlyThread, TypeOK
    <2>2. held[t] \in Batches /\ idx[t] \in Blocks
      BY <1>4 DEF Probe, Ownership, OwnershipInv, PhaseOK, TypeOK
    <2>3. \/ state' = state
          \/ /\ state[held[t]][idx[t]] = "todo"
             /\ state' = [state EXCEPT ![held[t]][idx[t]] = "inflight"]
      BY <1>4 DEF Probe, Claimable
    <2>4. \A c \in Batches, j \in Blocks :
             (state'[c][j] \in Terminal) <=> (state[c][j] \in Terminal)
      <3>1. CASE state' = state
        BY <3>1
      <3>2. CASE state' # state
        <4>1. \A c \in Batches, j \in Blocks :
                 state'[c][j] = IF c = held[t] /\ j = idx[t] THEN "inflight" ELSE state[c][j]
          BY <2>2, <2>3, <3>2 DEF TypeOK
        <4> QED
          BY <2>2, <2>3, <3>2, <4>1 DEF Terminal
      <3> QED
        BY <3>1, <3>2
    <2>5. UNCHANGED <<done, fault>>
      BY <1>4 DEF Probe
    <2> QED
      BY <2>1, <2>4, <2>5, CountedKept, CountKept
  <1>5. ASSUME NEW t \in Tids, Mark(t) PROVE CountInv'
    <2>1. held[t] \in Batches /\ idx[t] \in Blocks /\ PhaseOK(t)
      BY <1>5 DEF Mark, Ownership, OwnershipInv, PhaseOK, TypeOK
    <2>2. /\ state[held[t]][idx[t]] \notin Terminal /\ tpc[t] # "count" /\ tpc'[t] = "count"
          /\ held' = held /\ idx' = idx /\ OnlyThread(t)
      BY <1>5, <2>1 DEF Mark, PhaseOK, Goto, TypeOK, OnlyThread, Terminal
    <2>3. PICK s \in Terminal : state' = [state EXCEPT ![held[t]][idx[t]] = s]
      BY <1>5, <2>1 DEF Mark, PhaseOK, Terminal
    <2>4. \A c \in Batches, j \in Blocks :
             state'[c][j] = IF c = held[t] /\ j = idx[t] THEN s ELSE state[c][j]
      BY <2>1, <2>3 DEF TypeOK
    <2>5. ASSUME NEW b \in Batches PROVE Counted(b)' = Counted(b)
      <3>1. ASSUME NEW i \in Blocks PROVE i \in Counted(b)' <=> i \in Counted(b)
        BY <2>2, <2>4 DEF Counted, OnlyThread
      <3> QED
        BY <3>1 DEF Counted
    <2>6. UNCHANGED <<done, fault>>
      BY <1>5 DEF Mark
    <2> QED
      BY <2>5, <2>6, CountKept
  <1>6. ASSUME NEW t \in Tids, Count(t) PROVE CountInv'
    <2>1. /\ held[t] \in Batches /\ idx[t] \in Blocks
          /\ \A u \in Tids \ {t} : Working(u) => held[u] # held[t] \/ idx[u] # idx[t]
      BY <1>6, Alone DEF Count, Working, TypeOK
    <2>2. UNCHANGED <<held, idx, state>>
      BY <1>6, Zenon DEF Count
    <2>3. OnlyThread(t) /\ tpc[t] = "count" /\ tpc'[t] # "count" /\ PhaseOK(t)
      BY <1>6, <2>2 DEF Count, Goto, OnlyThread, TypeOK, Ownership, OwnershipInv
    <2>4. ASSUME NEW b \in Batches, b # held[t] PROVE Counted(b)' = Counted(b)
      BY <2>2, <2>3, <2>4 DEF Counted, OnlyThread
    <2>5. ASSUME NEW b \in Batches, b = held[t]
          PROVE  /\ idx[t] \notin Counted(b)
                 /\ Counted(b)' = Counted(b) \union {idx[t]}
      <3>1. idx[t] \notin Counted(b)
        BY <2>3, <2>5 DEF Counted
      <3>2. ASSUME NEW i \in Blocks
            PROVE  i \in Counted(b)' <=> i \in Counted(b) \/ i = idx[t]
        BY <2>1, <2>2, <2>3, <2>5 DEF Counted, OnlyThread, PhaseOK, Working
      <3> QED
        BY <2>1, <3>1, <3>2 DEF Counted
    <2>6. ASSUME NEW b \in Batches, b = held[t]
          PROVE  Cardinality(Counted(b)') = Cardinality(Counted(b)) + 1
      BY <2>5, <2>6, CountedFinite, FS_AddElement
    <2>7. /\ \/ done'[held[t]] = done[held[t]] + 1 /\ fault'[held[t]] = fault[held[t]]
             \/ fault'[held[t]] = fault[held[t]] + 1 /\ done'[held[t]] = done[held[t]]
          /\ \A b \in Batches : b # held[t] => done'[b] = done[b] /\ fault'[b] = fault[b]
      <3>1. CASE ok[t]
        <4>1. done' = [done EXCEPT ![held[t]] = @ + 1] /\ fault' = fault
          BY <1>6, <3>1, Zenon DEF Count
        <4> QED
          BY <2>1, <4>1 DEF TypeOK
      <3>2. CASE ~ok[t]
        <4>1. fault' = [fault EXCEPT ![held[t]] = @ + 1] /\ done' = done
          BY <1>6, <3>2, Zenon DEF Count
        <4> QED
          BY <2>1, <4>1 DEF TypeOK
      <3> QED
        BY <3>1, <3>2
    <2>8. ASSUME NEW b \in Batches PROVE (done[b] + fault[b] = Cardinality(Counted(b)))'
      <3>1. done[b] \in Nat /\ fault[b] \in Nat /\ done[b] + fault[b] = Cardinality(Counted(b))
        BY DEF TypeOK, CountInv
      <3>2. CASE b = held[t]
        <4>1. done'[b] + fault'[b] = done[b] + fault[b] + 1
          BY <2>7, <3>1, <3>2
        <4> QED
          BY <2>6, <3>1, <3>2, <4>1
      <3>3. CASE b # held[t]
        <4>1. done'[b] = done[b] /\ fault'[b] = fault[b]
          BY <2>7, <3>3
        <4> QED
          BY <2>4, <3>1, <3>3, <4>1
      <3> QED
        BY <3>2, <3>3
    <2> QED
      BY <2>8 DEF CountInv
  <1>7. CASE (\E b \in Batches : Submit(b)) \/ Wake \/ Shutdown \/ SpuriousWake \/ UNCHANGED vars
    <2>1. UNCHANGED <<tpc, held, idx, state, done, fault>>
      BY <1>7 DEF Submit, Wake, Shutdown, SpuriousWake, vars, tidVars, batchVars
    <2> QED
      BY <2>1, CountKept DEF Counted
  <1> QED
    BY <1>1, <1>2, <1>3, <1>4, <1>5, <1>6, <1>7 DEF Next, TidNext

----------------------------------------------------------------------------
(* The end of a batch                                                      *)

\* A block that is DONE or FAULT stays so.
LEMMA TerminalStays ==
    ASSUME TypeOK, Ownership, [Next]_vars, NEW c \in Batches, NEW j \in Blocks,
           state[c][j] \in Terminal
    PROVE  state'[c][j] \in Terminal
  <1>1. ASSUME NEW t \in Tids, Probe(t) PROVE state'[c][j] \in Terminal
    <2>1. held[t] \in Batches /\ idx[t] \in Blocks
      BY <1>1 DEF Probe, Ownership, OwnershipInv, PhaseOK, TypeOK
    <2>2. \/ state' = state
          \/ /\ state[held[t]][idx[t]] = "todo"
             /\ state' = [state EXCEPT ![held[t]][idx[t]] = "inflight"]
      BY <1>1 DEF Probe, Claimable
    <2>3. CASE state' = state
      BY <2>3
    <2>4. CASE state' # state
      <3>1. state'[c][j] = IF c = held[t] /\ j = idx[t] THEN "inflight" ELSE state[c][j]
        BY <2>1, <2>2, <2>4 DEF TypeOK
      <3>2. c # held[t] \/ j # idx[t]
        BY <2>2, <2>4 DEF Terminal
      <3> QED
        BY <3>1, <3>2
    <2> QED
      BY <2>3, <2>4
  <1>2. ASSUME NEW t \in Tids, Mark(t) PROVE state'[c][j] \in Terminal
    <2>1. held[t] \in Batches /\ idx[t] \in Blocks /\ PhaseOK(t)
      BY <1>2 DEF Mark, Ownership, OwnershipInv, PhaseOK, TypeOK
    <2>2. PICK s \in Terminal : state' = [state EXCEPT ![held[t]][idx[t]] = s]
      BY <1>2, <2>1 DEF Mark, PhaseOK, Terminal
    <2> QED
      BY <2>1, <2>2 DEF TypeOK
  <1>3. CASE ~\E t \in Tids : Probe(t) \/ Mark(t)
    <2>1. state' = state
      BY <1>3 DEF Next, TidNext, Born, Take, Check, ClaimStart, Own, Exec, Count, Release, Finish,
                  Requeue, Failed, PutBack, Submit, Wake, Shutdown, SpuriousWake, vars, batchVars
    <2> QED
      BY <2>1
  <1> QED
    BY <1>1, <1>2, <1>3

\* on_finish is called by Finish only.
LEMMA FinishesKept ==
    [Next]_vars /\ ~(\E t \in Tids : Finish(t)) => finishes' = finishes
  BY DEF Next, TidNext, Born, Take, Check, ClaimStart, Probe, Own, Exec, Mark, Count, Release,
         Requeue, Failed, PutBack, Submit, Wake, Shutdown, SpuriousWake, vars, histVars

LEMMA FinishStep ==
    ASSUME TypeOK, Ownership, CountInv, FinishMeansDone, [Next]_vars, Ownership'
    PROVE  FinishMeansDone'
  <1> SUFFICES ASSUME NEW b \in Batches, finishes'[b] > 0, NEW i \in Blocks
               PROVE  state'[b][i] \in Terminal /\ execs'[b][i] = 1
    BY DEF FinishMeansDone
  <1>1. state[b][i] \in Terminal
    <2>1. CASE finishes[b] > 0
      BY <2>1 DEF FinishMeansDone
    <2>2. CASE ~(finishes[b] > 0)
      <3>1. PICK t \in Tids : Finish(t)
        BY <2>2, FinishesKept
      <3>2. AllFinished(held[t]) /\ held[t] = b
        BY <2>2, <3>1 DEF Finish, TypeOK
      <3> QED
        BY <3>2, FinishedBlocks
    <2> QED
      BY <2>1, <2>2
  <1>2. state'[b][i] \in Terminal
    BY <1>1, TerminalStays
  <1> QED
    BY <1>2 DEF Ownership, BlockInv, BlockOK

----------------------------------------------------------------------------
(* Where the batches are                                                   *)

LEMMA Submissions ==
    /\ IsFiniteSet(Accepted) /\ Cardinality(Accepted) \in Nat
    /\ Cardinality(Accepted) <= Cardinality(Batches) * Copies
    /\ IsFiniteSet(Holders) /\ Cardinality(Holders) \in Nat
  <1>1. IsFiniteSet(1 .. Copies)
    BY ConstantsOK, FS_Interval
  <1>2. /\ IsFiniteSet(Batches \X (1 .. Copies))
        /\ Cardinality(Batches \X (1 .. Copies)) = Cardinality(Batches) * Cardinality(1 .. Copies)
    BY <1>1, ConstantsOK, FS_Product
  <1>3. Cardinality(1 .. Copies) = Copies
    BY ConstantsOK, FS_Interval
  <1>4. Accepted \in SUBSET (Batches \X (1 .. Copies)) /\ Holders \in SUBSET Tids
    BY DEF Accepted, Holders
  <1> QED
    BY <1>2, <1>3, <1>4, ConstantsOK, FS_Subset, FS_CardinalityType

\* A thread that takes a batch, and one that lets go of its own.
LEMMA HoldersStep ==
    ASSUME TypeOK, NEW t \in Tids, OnlyThread(t)
    PROVE  /\ held[t] = NoBatch /\ held'[t] # NoBatch =>
                Cardinality(Holders') = Cardinality(Holders) + 1
           /\ held[t] # NoBatch /\ held'[t] = NoBatch =>
                Cardinality(Holders') = Cardinality(Holders) - 1 /\ Cardinality(Holders) >= 1
  <1>1. \A u \in Tids : u # t => held'[u] = held[u]
    BY DEF OnlyThread
  <1>2. ASSUME held[t] = NoBatch, held'[t] # NoBatch
        PROVE  Cardinality(Holders') = Cardinality(Holders) + 1
    <2>1. t \notin Holders /\ Holders' = Holders \union {t}
      BY <1>1, <1>2 DEF Holders
    <2> QED
      BY <2>1, Submissions, FS_AddElement
  <1>3. ASSUME held[t] # NoBatch, held'[t] = NoBatch
        PROVE  Cardinality(Holders') = Cardinality(Holders) - 1 /\ Cardinality(Holders) >= 1
    <2>1. t \in Holders /\ Holders' = Holders \ {t}
      BY <1>1, <1>3 DEF Holders
    <2>2. Cardinality(Holders') = Cardinality(Holders) - 1
      BY <2>1, Submissions, FS_RemoveElement
    <2>3. Cardinality(Holders) # 0
      BY <2>1, Submissions, FS_EmptySet
    <2> QED
      BY <2>2, <2>3, Submissions
  <1> QED
    BY <1>2, <1>3

\* The ring and the threads together have no more batches than before.
LEMMA RoomKept ==
    ASSUME TypeOK, RoomInv, submitted' = submitted,
           Len(q') + Cardinality(Holders') <= Len(q) + Cardinality(Holders),
           Len(q') \in Nat, Cardinality(Holders') \in Nat
    PROVE  RoomInv'
  <1>1. Accepted' = Accepted
    BY DEF Accepted
  <1>2. Len(q) \in Nat
    BY DEF TypeOK
  <1> QED
    BY <1>1, <1>2, Submissions DEF RoomInv

\* ring_push appends if there is room, and never removes.
LEMMA PushLength ==
    ASSUME TypeOK, NEW b \in Batches, Push(b)
    PROVE  /\ Len(q') \in Nat /\ Len(q') <= Len(q) + 1 /\ Len(q) \in Nat
           /\ \A i \in 1 .. Len(q) : i \in 1 .. Len(q') /\ q'[i] = q[i]
           /\ Len(q) < RingCap =>
                  Len(q') \in 1 .. Len(q') /\ q'[Len(q')] = b /\ dropped' = dropped
  <1>1. \/ q' = Append(q, b) /\ dropped' = dropped
        \/ q' = q /\ ~(Len(q) < RingCap)
    BY ConstantsOK DEF Push, TypeOK
  <1>2. q \in Seq(Batches)
    BY DEF TypeOK
  <1>3. CASE q' = Append(q, b) /\ dropped' = dropped
    BY <1>2, <1>3
  <1>4. CASE q' = q /\ ~(Len(q) < RingCap)
    BY <1>2, <1>4
  <1> QED
    BY <1>1, <1>3, <1>4

LEMMA TakeShortens ==
    ASSUME q \in Seq(Batches), q # <<>>, q' = Tail(q)
    PROVE  /\ Len(q) \in Nat /\ Len(q') \in Nat /\ Len(q') = Len(q) - 1 /\ Head(q) \in Batches
           /\ \A i \in 1 .. Len(q) : q[i] = Head(q) \/ (i - 1 \in 1 .. Len(q') /\ q'[i - 1] = q[i])
  <1>1. /\ Len(q) \in Nat /\ Len(q) >= 1 /\ Len(q') = Len(q) - 1 /\ Head(q) = q[1]
        /\ Head(q) \in Batches
    OBVIOUS
  <1>2. \A i \in 1 .. Len(q') : q'[i] = q[i + 1]
    OBVIOUS
  <1>3. ASSUME NEW i \in 1 .. Len(q), i # 1 PROVE i - 1 \in 1 .. Len(q') /\ q'[i - 1] = q[i]
    <2>1. i - 1 \in 1 .. Len(q') /\ (i - 1) + 1 = i
      BY <1>1, <1>3
    <2> QED
      BY <1>2, <2>1
  <1> QED
    BY <1>1, <1>3

LEMMA RoomStep ==
    ASSUME TypeOK, Ownership, HeldInv, RoomInv, [Next]_vars
    PROVE  HeldInv' /\ RoomInv'
  <1>0. Len(q) \in Nat /\ q \in Seq(Batches) /\ NoBatch \notin Batches
    BY ConstantsOK DEF TypeOK
  <1>1. ASSUME NEW t \in Tids, Born(t) PROVE HeldInv' /\ RoomInv'
    <2>1. OnlyThread(t) /\ tpc[t] = "born" /\ UNCHANGED <<held, q, submitted>>
      BY <1>1 DEF Born, Goto, OnlyThread, TypeOK, poolVars, histVars
    <2>2. Holders' = Holders
      BY <2>1 DEF Holders
    <2> QED
      BY <1>0, <2>1, <2>2, RoomKept, Submissions DEF HeldInv, OnlyThread
  <1>2. ASSUME NEW t \in Tids, Take(t) PROVE HeldInv' /\ RoomInv'
    <2>1. OnlyThread(t) /\ tpc[t] = "idle" /\ held[t] = NoBatch /\ submitted' = submitted
      BY <1>2 DEF Take, Goto, OnlyThread, TypeOK, histVars, HeldInv
    <2>2. \/ tpc'[t] \in {"idle", "exit"} /\ held' = held /\ q' = q
          \/ tpc'[t] = "check" /\ q # <<>> /\ q' = Tail(q) /\ held'[t] = Head(q)
      BY <1>2 DEF Take, Goto, TypeOK
    <2>3. CASE held' = held /\ q' = q
      <3>1. Holders' = Holders
        BY <2>3 DEF Holders
      <3>2. RoomInv'
        BY <1>0, <2>1, <2>3, <3>1, RoomKept, Submissions
      <3> QED
        BY <2>1, <2>3, <3>2 DEF HeldInv, OnlyThread
    <2>4. CASE tpc'[t] = "check" /\ q # <<>> /\ q' = Tail(q) /\ held'[t] = Head(q)
      <3>1. Len(q') \in Nat /\ Len(q') = Len(q) - 1 /\ Head(q) \in Batches
        BY <1>0, <2>4, TakeShortens
      <3>2. Cardinality(Holders') = Cardinality(Holders) + 1
        BY <1>0, <2>1, <2>4, <3>1, HoldersStep
      <3>3. RoomInv'
        BY <1>0, <2>1, <3>1, <3>2, RoomKept, Submissions
      <3> QED
        BY <2>1, <2>4, <3>3 DEF HeldInv, OnlyThread
    <2> QED
      BY <2>2, <2>3, <2>4
  <1>3. ASSUME NEW t \in Tids, Check(t) \/ Failed(t) PROVE HeldInv' /\ RoomInv'
    <2>1. held[t] \in Batches /\ tpc[t] \in {"check", "failed"} /\ UNCHANGED <<q, submitted>>
      BY <1>3 DEF Check, Failed, Ownership, OwnershipInv, PhaseOK, poolVars, histVars
    <2>2. CASE NextIteration(t)
      <3>1. OnlyThread(t) /\ tpc'[t] = "idle" /\ held'[t] = NoBatch
        BY <2>2, PutDown DEF NextIteration, TypeOK
      <3>2. Cardinality(Holders') = Cardinality(Holders) - 1 /\ Cardinality(Holders) >= 1
        BY <1>0, <2>1, <3>1, HoldersStep
      <3>3. RoomInv'
        BY <1>0, <2>1, <3>2, RoomKept, Submissions
      <3> QED
        BY <3>1, <3>3 DEF HeldInv, OnlyThread
    <2>3. CASE ~NextIteration(t)
      <3>1. OnlyThread(t) /\ tpc'[t] \in {"claim", "putback"} /\ held' = held
        BY <1>3, <2>3 DEF Check, Failed, Goto, OnlyThread, TypeOK
      <3>2. Holders' = Holders
        BY <3>1 DEF Holders
      <3> QED
        BY <1>0, <2>1, <3>1, <3>2, RoomKept, Submissions DEF HeldInv, OnlyThread
    <2> QED
      BY <2>2, <2>3
  <1>4. ASSUME NEW t \in Tids,
               \/ ClaimStart(t) \/ Probe(t) \/ Own(t) \/ Exec(t) \/ Mark(t) \/ Count(t)
               \/ Release(t) \/ Finish(t)
        PROVE  HeldInv' /\ RoomInv'
    <2>1. UNCHANGED <<held, q, submitted>>
      BY <1>4, Zenon DEF ClaimStart, Probe, Own, Exec, Mark, Count, Release, Finish, poolVars, histVars
    <2>2. OnlyThread(t)
      BY <1>4 DEF ClaimStart, Probe, Own, Exec, Mark, Count, Release, Finish, Goto, OnlyThread, TypeOK
    <2>3. tpc'[t] \notin {"born", "idle", "exit"}
      BY <1>4 DEF ClaimStart, Probe, Own, Exec, Mark, Count, Release, Finish, Goto, TypeOK
    <2>4. Holders' = Holders
      BY <2>1 DEF Holders
    <2>5. RoomInv'
      BY <1>0, <2>1, <2>4, RoomKept, Submissions
    <2> QED
      BY <2>1, <2>2, <2>3, <2>5 DEF HeldInv, OnlyThread
  <1>5. ASSUME NEW t \in Tids, Requeue(t) \/ PutBack(t) PROVE HeldInv' /\ RoomInv'
    <2>1. /\ held[t] \in Batches /\ submitted' = submitted /\ NextIteration(t)
          /\ q' = q \/ Push(held[t])
      BY <1>5 DEF Requeue, PutBack, Ownership, OwnershipInv, PhaseOK
    <2>2. OnlyThread(t) /\ tpc'[t] = "idle" /\ held'[t] = NoBatch
      BY <2>1, PutDown DEF NextIteration, TypeOK
    <2>3. Cardinality(Holders') = Cardinality(Holders) - 1 /\ Cardinality(Holders) >= 1
      BY <1>0, <2>1, <2>2, HoldersStep
    <2>4. Len(q') \in Nat /\ Len(q') <= Len(q) + 1
      BY <1>0, <2>1, PushLength
    <2>5. RoomInv'
      BY <1>0, <2>1, <2>3, <2>4, RoomKept, Submissions
    <2> QED
      BY <2>2, <2>5 DEF HeldInv, OnlyThread
  <1>6. ASSUME NEW b \in Batches, Submit(b) PROVE HeldInv' /\ RoomInv'
    <2>1. /\ submitted[b] < Copies /\ q' = Append(q, b)
          /\ submitted' = [submitted EXCEPT ![b] = @ + 1] /\ UNCHANGED <<tpc, held>>
      BY <1>6 DEF Submit, tidVars
    <2>2. Len(q') = Len(q) + 1 /\ Holders' = Holders
      BY <1>0, <2>1 DEF Holders
    <2>3. PICK n \in Nat : n = submitted[b] /\ n + 1 <= Copies
      BY <2>1, ConstantsOK DEF TypeOK
    <2>4. /\ submitted'[b] = n + 1 /\ \A c \in Batches : c # b => submitted'[c] = submitted[c]
          /\ \A c \in Batches : submitted[c] \in Nat
      BY <2>1, <2>3, ConstantsOK DEF TypeOK
    <2>5. <<b, n + 1>> \notin Accepted /\ Accepted' = Accepted \union {<<b, n + 1>>}
      <3>1. <<b, n + 1>> \in Batches \X (1 .. Copies) /\ ~(n + 1 <= n)
        BY <2>3, ConstantsOK
      <3>2. ASSUME NEW s \in Batches \X (1 .. Copies)
            PROVE  s[2] <= submitted'[s[1]] <=> (s[2] <= submitted[s[1]] \/ s = <<b, n + 1>>)
        <4>1. PICK c \in Batches, k \in 1 .. Copies : s = <<c, k>>
          OBVIOUS
        <4>2. k \in Nat
          BY ConstantsOK
        <4>3. CASE c = b
          BY <2>3, <2>4, <4>1, <4>2, <4>3
        <4>4. CASE c # b
          BY <2>4, <4>1, <4>4
        <4> QED
          BY <4>3, <4>4
      <3> QED
        BY <2>3, <3>1, <3>2 DEF Accepted
    <2>6. Cardinality(Accepted') = Cardinality(Accepted) + 1
      BY <2>5, Submissions, FS_AddElement
    <2> QED
      BY <1>0, <2>1, <2>2, <2>6, Submissions DEF HeldInv, RoomInv
  <1>7. CASE Wake \/ Shutdown \/ SpuriousWake \/ UNCHANGED vars
    <2>1. UNCHANGED <<tpc, held, q, submitted>>
      BY <1>7 DEF Wake, Shutdown, SpuriousWake, vars, poolVars, tidVars, histVars
    <2>2. Holders' = Holders
      BY <2>1 DEF Holders
    <2> QED
      BY <1>0, <2>1, <2>2, RoomKept, Submissions DEF HeldInv
  <1> QED
    BY <1>1, <1>2, <1>3, <1>4, <1>5, <1>6, <1>7 DEF Next, TidNext

\* A batch that is finished stays so: there is no block left to count.
LEMMA FinishedStays ==
    ASSUME TypeOK, Ownership, CountInv, [Next]_vars, NEW b \in Batches, AllFinished(b)
    PROVE  AllFinished(b)'
  <1>1. CASE ~\E t \in Tids : Count(t)
    <2>1. UNCHANGED <<done, fault>>
      BY <1>1 DEF Next, TidNext, Born, Take, Check, ClaimStart, Probe, Own, Exec, Mark, Release,
                  Finish, Requeue, Failed, PutBack, Submit, Wake, Shutdown, SpuriousWake, vars, batchVars
    <2> QED
      BY <2>1 DEF AllFinished
  <1>2. ASSUME NEW t \in Tids, Count(t) PROVE AllFinished(b)'
    <2>1. held[t] \in Batches /\ idx[t] \in Blocks /\ tpc[t] = "count"
      BY <1>2, Alone DEF Count, Working, TypeOK
    <2>2. Counted(b) = Blocks
      <3>1. Cardinality(Counted(b)) = Cardinality(Blocks) /\ Counted(b) \subseteq Blocks
        BY BlocksFinite DEF CountInv, AllFinished, Counted
      <3> QED
        BY <3>1, BlocksFinite, FS_Subset
    <2>3. held[t] # b
      BY <2>1, <2>2 DEF Counted
    <2>4. done'[b] = done[b] /\ fault'[b] = fault[b]
      <3>1. done' = done \/ done' = [done EXCEPT ![held[t]] = @ + 1]
        BY <1>2, Zenon DEF Count
      <3>2. fault' = fault \/ fault' = [fault EXCEPT ![held[t]] = @ + 1]
        BY <1>2, Zenon DEF Count
      <3> QED
        BY <2>3, <3>1, <3>2 DEF TypeOK
    <2> QED
      BY <2>4 DEF AllFinished
  <1> QED
    BY <1>1, <1>2

Listed(b) == (\E i \in 1 .. Len(q) : q[i] = b) \/ (\E t \in Tids : held[t] = b)

\* A step that loses sight of no batch but a finished one drops none.
LEMMA ListedKept ==
    ASSUME TypeOK, Ownership, CountInv, NothingDropped, [Next]_vars, submitted' = submitted,
           dropped \subseteq dropped',
           dropped' # {} => dropped # {} \/ Cardinality(Accepted) > RingCap,
           \A b \in Batches : Listed(b) /\ ~AllFinished(b) => Listed(b)' \/ b \in dropped'
    PROVE  NothingDropped'
  <1>1. ASSUME NEW b \in Batches, submitted'[b] > 0, ~AllFinished(b)'
        PROVE  Listed(b)' \/ b \in dropped'
    <2>1. ~AllFinished(b)
      BY <1>1, FinishedStays
    <2> QED
      BY <1>1, <2>1 DEF NothingDropped, Listed
  <1>2. Accepted' = Accepted
    BY DEF Accepted
  <1>3. dropped' # {} => Cardinality(Accepted') > RingCap
    BY <1>2 DEF NothingDropped
  <1> QED
    BY <1>1, <1>3 DEF NothingDropped, Listed

LEMMA DroppedStep == IInv /\ NothingDropped /\ [Next]_vars => NothingDropped'
  <1> SUFFICES ASSUME IInv, NothingDropped, [Next]_vars PROVE NothingDropped'
    OBVIOUS
  <1>0. /\ TypeOK /\ Ownership /\ CountInv /\ HeldInv /\ RoomInv
        /\ Len(q) \in Nat /\ q \in Seq(Batches) /\ NoBatch \notin Batches
    BY ConstantsOK DEF IInv, Ownership, TypeOK
  <1>1. ASSUME UNCHANGED <<q, held, submitted, dropped>> PROVE NothingDropped'
    BY <1>0, <1>1, ListedKept DEF Listed
  <1>2. ASSUME NEW t \in Tids, Take(t) PROVE NothingDropped'
    <2>1. OnlyThread(t) /\ held[t] = NoBatch /\ submitted' = submitted /\ dropped' = dropped
      BY <1>0, <1>2 DEF Take, Goto, OnlyThread, TypeOK, histVars, HeldInv
    <2>2. \/ held' = held /\ q' = q
          \/ q # <<>> /\ q' = Tail(q) /\ held'[t] = Head(q)
      BY <1>0, <1>2 DEF Take, TypeOK
    <2>3. CASE held' = held /\ q' = q
      BY <1>1, <2>1, <2>3
    <2>4. CASE q # <<>> /\ q' = Tail(q) /\ held'[t] = Head(q)
      <3>1. \A i \in 1 .. Len(q) : q[i] = Head(q) \/ (i - 1 \in 1 .. Len(q') /\ q'[i - 1] = q[i])
        BY <1>0, <2>4, TakeShortens
      <3>2. ASSUME NEW b \in Batches, Listed(b) PROVE Listed(b)'
        <4>1. CASE \E i \in 1 .. Len(q) : q[i] = b
          BY <2>4, <3>1, <4>1 DEF Listed
        <4>2. CASE \E u \in Tids : held[u] = b
          <5>1. PICK u \in Tids : held[u] = b
            BY <4>2
          <5>2. u # t /\ held'[u] = b
            BY <1>0, <2>1, <5>1 DEF OnlyThread
          <5> QED
            BY <5>2 DEF Listed
        <4> QED
          BY <3>2, <4>1, <4>2 DEF Listed
      <3> QED
        BY <1>0, <2>1, <3>2, ListedKept
    <2> QED
      BY <2>2, <2>3, <2>4
  <1>3. ASSUME NEW t \in Tids, OnlyThread(t), submitted' = submitted, q' = q, dropped' = dropped,
               AllFinished(held[t])
        PROVE  NothingDropped'
    <2>1. ASSUME NEW b \in Batches, Listed(b), ~AllFinished(b) PROVE Listed(b)'
      <3>1. CASE \E i \in 1 .. Len(q) : q[i] = b
        BY <1>3, <3>1 DEF Listed
      <3>2. CASE \E u \in Tids : held[u] = b
        <4>1. PICK u \in Tids : held[u] = b
          BY <3>2
        <4>2. u # t /\ held'[u] = b
          BY <1>3, <2>1, <4>1 DEF OnlyThread
        <4> QED
          BY <4>2 DEF Listed
      <3> QED
        BY <2>1, <3>1, <3>2 DEF Listed
    <2> QED
      BY <1>0, <1>3, <2>1, ListedKept
  <1>4. ASSUME NEW t \in Tids, held[t] \in Batches, NextIteration(t), Push(held[t]),
               submitted' = submitted
        PROVE  NothingDropped'
    <2>1. OnlyThread(t)
      BY <1>0, <1>4, PutDown
    <2>2. CASE Len(q) < RingCap
      <3>1. /\ \A i \in 1 .. Len(q) : i \in 1 .. Len(q') /\ q'[i] = q[i]
            /\ Len(q') \in 1 .. Len(q') /\ q'[Len(q')] = held[t]
            /\ dropped' = dropped
        BY <1>0, <1>4, <2>2, PushLength
      <3>2. ASSUME NEW b \in Batches, Listed(b) PROVE Listed(b)'
        <4>1. CASE \E i \in 1 .. Len(q) : q[i] = b
          BY <3>1, <4>1 DEF Listed
        <4>2. CASE \E u \in Tids : held[u] = b
          <5>1. PICK u \in Tids : held[u] = b
            BY <4>2
          <5>2. CASE u = t
            BY <3>1, <5>1, <5>2 DEF Listed
          <5>3. CASE u # t
            BY <2>1, <5>1, <5>3 DEF Listed, OnlyThread
          <5> QED
            BY <5>2, <5>3
        <4> QED
          BY <3>2, <4>1, <4>2 DEF Listed
      <3> QED
        BY <1>0, <1>4, <3>1, <3>2, ListedKept
    <2>3. CASE ~(Len(q) < RingCap)
      <3>1. q' = q /\ dropped' = IF Elsewhere(held[t]) THEN dropped ELSE dropped \union {held[t]}
        BY <1>4, <2>3 DEF Push
      <3>2. Cardinality(Accepted) > RingCap
        <4>1. t \in Holders
          BY <1>0, <1>4 DEF Holders
        <4>2. Cardinality(Holders) >= 1
          BY <4>1, Submissions, FS_EmptySet
        <4> QED
          BY <1>0, <2>3, <4>2, Submissions, ConstantsOK DEF RoomInv
      <3>3. ASSUME NEW b \in Batches, Listed(b) PROVE Listed(b)' \/ b \in dropped'
        <4>1. CASE \E i \in 1 .. Len(q) : q[i] = b
          BY <3>1, <4>1 DEF Listed
        <4>2. CASE \E u \in Tids \ {t} : held[u] = b
          BY <2>1, <4>2 DEF Listed, OnlyThread
        <4>3. CASE held[t] = b /\ Elsewhere(b)
          BY <4>1, <4>2, <4>3 DEF Elsewhere
        <4>4. CASE held[t] = b /\ ~Elsewhere(b)
          BY <3>1, <4>4
        <4> QED
          BY <3>3, <4>1, <4>2, <4>3, <4>4 DEF Listed
      <3>4. dropped \subseteq dropped'
        BY <3>1
      <3> QED
        BY <1>0, <1>4, <3>2, <3>3, <3>4, ListedKept
    <2> QED
      BY <2>2, <2>3
  <1>5. ASSUME NEW t \in Tids, Check(t) \/ Failed(t) PROVE NothingDropped'
    <2>1. UNCHANGED <<q, submitted, dropped>>
      BY <1>5 DEF Check, Failed, poolVars, histVars
    <2>2. CASE AllFinished(held[t])
      <3>1. OnlyThread(t)
        BY <1>0, <1>5, <2>2, PutDown DEF Check, Failed
      <3> QED
        BY <1>3, <2>1, <2>2, <3>1
    <2>3. CASE ~AllFinished(held[t])
      BY <1>1, <1>5, <2>1, <2>3 DEF Check, Failed
    <2> QED
      BY <2>2, <2>3
  <1>6. ASSUME NEW t \in Tids, Requeue(t) \/ PutBack(t) PROVE NothingDropped'
    <2>1. held[t] \in Batches /\ submitted' = submitted /\ NextIteration(t)
      BY <1>0, <1>6 DEF Requeue, PutBack, Ownership, OwnershipInv, PhaseOK
    <2>2. OnlyThread(t)
      BY <1>0, <2>1, PutDown
    <2>3. Push(held[t]) \/ (q' = q /\ dropped' = dropped /\ AllFinished(held[t]))
      BY <1>6 DEF Requeue, PutBack
    <2> QED
      BY <1>3, <1>4, <2>1, <2>2, <2>3
  <1>7. ASSUME NEW b \in Batches, Submit(b) PROVE NothingDropped'
    <2>1. /\ q' = Append(q, b) /\ held' = held /\ \A c \in Batches : c # b => submitted'[c] = submitted[c]
          /\ UNCHANGED <<done, fault, dropped>> /\ submitted[b] < Copies
          /\ submitted' = [submitted EXCEPT ![b] = @ + 1]
      BY <1>0, <1>7 DEF Submit, tidVars, batchVars, TypeOK
    <2>2. /\ \A i \in 1 .. Len(q) : i \in 1 .. Len(q') /\ q'[i] = q[i]
          /\ Len(q') \in 1 .. Len(q') /\ q'[Len(q')] = b
      BY <1>0, <2>1
    <2>3. ASSUME NEW c \in Batches, submitted'[c] > 0, ~AllFinished(c)'
          PROVE  Listed(c)' \/ c \in dropped'
      <3>1. CASE c = b
        BY <2>2, <3>1 DEF Listed
      <3>2. CASE c # b
        <4>1. Listed(c) \/ c \in dropped
          BY <2>1, <2>3, <3>2 DEF NothingDropped, Listed, AllFinished
        <4> QED
          BY <2>1, <2>2, <4>1 DEF Listed
      <3> QED
        BY <3>1, <3>2
    <2>4. dropped' # {} => Cardinality(Accepted') > RingCap
      <3>1. ASSUME NEW s \in Batches \X (1 .. Copies), s[2] <= submitted[s[1]]
            PROVE  s[2] <= submitted'[s[1]]
        <4>1. PICK c \in Batches, k \in 1 .. Copies : s = <<c, k>>
          OBVIOUS
        <4>2. k \in Nat /\ submitted[c] \in Nat
          BY <1>0, ConstantsOK DEF TypeOK
        <4>3. submitted'[c] = submitted[c] \/ submitted'[c] = submitted[c] + 1
          BY <1>0, <2>1 DEF TypeOK
        <4> QED
          BY <3>1, <4>1, <4>2, <4>3
      <3>2. Accepted \subseteq Accepted'
        BY <3>1 DEF Accepted
      <3>3. /\ IsFiniteSet(Batches \X (1 .. Copies))
            /\ Accepted' \subseteq Batches \X (1 .. Copies)
        <4>1. IsFiniteSet(1 .. Copies)
          BY ConstantsOK, FS_Interval
        <4>2. IsFiniteSet(Batches \X (1 .. Copies))
          BY <4>1, ConstantsOK, FS_Product
        <4> QED
          BY <4>2 DEF Accepted
      <3>4. IsFiniteSet(Accepted') /\ Cardinality(Accepted') \in Nat
        BY <3>3, FS_Subset, FS_CardinalityType
      <3>5. Cardinality(Accepted) <= Cardinality(Accepted')
        BY <3>2, <3>4, FS_Subset
      <3> QED
        BY <2>1, <3>4, <3>5, Submissions, ConstantsOK DEF NothingDropped
    <2> QED
      BY <2>3, <2>4 DEF NothingDropped, Listed
  <1>8. ASSUME NEW t \in Tids,
               \/ Born(t) \/ ClaimStart(t) \/ Probe(t) \/ Own(t) \/ Exec(t) \/ Mark(t) \/ Count(t)
               \/ Release(t) \/ Finish(t)
        PROVE  NothingDropped'
    <2>1. UNCHANGED <<held, q, submitted, dropped>>
      BY <1>8, Zenon DEF Born, ClaimStart, Probe, Own, Exec, Mark, Count, Release, Finish, poolVars, histVars
    <2> QED
      BY <1>1, <2>1
  <1>9. CASE Wake \/ Shutdown \/ SpuriousWake \/ UNCHANGED vars
    <2>1. UNCHANGED <<held, q, submitted, dropped>>
      BY <1>9 DEF Wake, Shutdown, SpuriousWake, vars, poolVars, tidVars, histVars
    <2> QED
      BY <1>1, <2>1
  <1> QED
    BY <1>2, <1>5, <1>6, <1>7, <1>8, <1>9 DEF Next, TidNext

----------------------------------------------------------------------------
(* The theorems                                                            *)

LEMMA IInvInit == Init => IInv
  <1> SUFFICES ASSUME Init PROVE IInv
    OBVIOUS
  <1>1. OneOwner /\ OwnershipInv
    BY DEF Init, OneOwner, Working, OwnershipInv, PhaseOK
  <1>2. BlockInv
    BY DEF Init, BlockInv, BlockOK, Terminal
  <1>3. CountInv
    <2>1. \A b \in Batches : Counted(b) = {}
      BY DEF Init, Counted, Terminal
    <2>2. Cardinality({}) = 0
      BY FS_EmptySet
    <2>3. \A b \in Batches : done[b] + fault[b] = 0
      BY DEF Init
    <2> QED
      BY <2>1, <2>2, <2>3 DEF CountInv
  <1>4. FinishMeansDone
    BY DEF Init, FinishMeansDone
  <1>5. HeldInv
    BY DEF Init, HeldInv
  <1>6. RoomInv
    <2>1. Len(q) = 0 /\ Holders = {}
      BY DEF Init, Holders
    <2> QED
      BY <2>1, Submissions, FS_EmptySet DEF RoomInv
  <1> QED
    BY <1>1, <1>2, <1>3, <1>4, <1>5, <1>6, TypeInit DEF IInv

LEMMA IInvStep == IInv /\ [Next]_vars => IInv'
  <1> SUFFICES ASSUME IInv, [Next]_vars PROVE IInv'
    OBVIOUS
  <1>1. TypeOK /\ Ownership /\ CountInv /\ FinishMeansDone /\ HoldsInv
    BY DEF IInv, Ownership, OwnershipInv, PhaseOK, HoldsInv
  <1>2. TypeOK'
    BY <1>1, TypeStep
  <1>3. Ownership'
    BY <1>1, OwnershipStep
  <1>4. CountInv'
    BY <1>1, CountStep
  <1>5. FinishMeansDone'
    BY <1>1, <1>3, FinishStep
  <1>6. HeldInv' /\ RoomInv'
    BY <1>1, RoomStep DEF IInv
  <1> QED
    BY <1>2, <1>3, <1>4, <1>5, <1>6 DEF IInv, Ownership

\* The invariants that hold of the batches whatever the threads of the pool do.
THEOREM Invariance == Spec => []IInv
  BY IInvInit, IInvStep, PTL DEF Spec

\* No two threads work on the same block.
THEOREM OneOwnerTheorem == Spec => []OneOwner
  <1>1. IInv => OneOwner
    BY DEF IInv
  <1> QED
    BY <1>1, Invariance, PTL

\* The result of epa_at_batch_complete, which the pool ignores, is always success.
THEOREM CompleteAcceptedTheorem == Spec => []CompleteAccepted
  <1>1. IInv => CompleteAccepted
    BY DEF IInv, OwnershipInv, PhaseOK, CompleteAccepted
  <1> QED
    BY <1>1, Invariance, PTL

\* A batch that was accepted and is not finished is in the ring or with a thread, or its last
\* submission was put back into a full ring, by tp_thread_main, which ignores the result of
\* ring_push.  The ring is not full then before more submissions were accepted than it has room
\* for: a thread left a place free when it popped the batch.
THEOREM NothingDroppedTheorem == Spec => []NothingDropped
  <1>1. Init => NothingDropped
    BY DEF Init, NothingDropped
  <1>2. IInv /\ NothingDropped /\ [Next]_vars => NothingDropped'
    BY DroppedStep
  <1> QED
    BY <1>1, <1>2, Invariance, PTL DEF Spec

----------------------------------------------------------------------------
(* The pool implements the promise of a batch                              *)

LEMMA PromiseInit == Init => Promise!Init
  <1> SUFFICES ASSUME Init PROVE Promise!Init
    OBVIOUS
  <1>1. \A b \in Batches : (finishes[b] > 0) = FALSE
    BY DEF Init
  <1>2. [b \in Batches |-> finishes[b] > 0] = [b \in Batches |-> FALSE]
    BY <1>1, Zenon
  <1> QED
    BY <1>2, Zenon DEF Init, Promise!Init

LEMMA PromiseStep == IInv /\ [Next]_vars => [Promise!Next]_(Promise!vars)
  <1> SUFFICES ASSUME IInv, [Next]_vars PROVE [Promise!Next]_(Promise!vars)
    OBVIOUS
  <1>0. TypeOK /\ OwnershipInv /\ CountInv
    BY DEF IInv
  <1>1. ASSUME NEW t \in Tids, Probe(t) PROVE [Promise!Next]_(Promise!vars)
    <2>1. held[t] \in Batches /\ idx[t] \in Blocks
      BY <1>0, <1>1 DEF Probe, OwnershipInv, PhaseOK, TypeOK
    <2>2. execs' = execs /\ finishes' = finishes
      BY <1>1 DEF Probe, histVars
    <2>3. \/ state' = state
          \/ /\ state[held[t]][idx[t]] = "todo"
             /\ state' = [state EXCEPT ![held[t]][idx[t]] = "inflight"]
      BY <1>1 DEF Probe, Claimable
    <2>4. CASE state' = state
      BY <2>2, <2>4 DEF Promise!vars
    <2>5. CASE state' # state
      <3>1. Promise!Claim(held[t], idx[t])
        BY <2>2, <2>3, <2>5 DEF Promise!Claim
      <3> QED
        BY <2>1, <3>1 DEF Promise!Next
    <2> QED
      BY <2>4, <2>5
  <1>2. ASSUME NEW t \in Tids, Exec(t) PROVE [Promise!Next]_(Promise!vars)
    <2>1. held[t] \in Batches /\ idx[t] \in Blocks /\ PhaseOK(t)
      BY <1>0, <1>2 DEF Exec, OwnershipInv, PhaseOK, TypeOK
    <2>2. /\ state[held[t]][idx[t]] = "inflight" /\ execs[held[t]][idx[t]] = 0
          /\ state' = state /\ finishes' = finishes
      BY <1>2, <2>1 DEF Exec, PhaseOK, batchVars
    <2>3. execs' = [execs EXCEPT ![held[t]][idx[t]] = 1]
      BY <1>0, <1>2, <2>1, <2>2 DEF Exec, Saturate, TypeOK
    <2>4. Promise!Run(held[t], idx[t])
      BY <2>2, <2>3 DEF Promise!Run
    <2> QED
      BY <2>1, <2>4 DEF Promise!Next
  <1>3. ASSUME NEW t \in Tids, Mark(t) PROVE [Promise!Next]_(Promise!vars)
    <2>1. held[t] \in Batches /\ idx[t] \in Blocks /\ PhaseOK(t)
      BY <1>0, <1>3 DEF Mark, OwnershipInv, PhaseOK, TypeOK
    <2>2. /\ state[held[t]][idx[t]] = "inflight" /\ execs[held[t]][idx[t]] = 1
          /\ execs' = execs /\ finishes' = finishes
      BY <1>3, <2>1 DEF Mark, PhaseOK, histVars
    <2>3. \E s \in {"done", "fault"} : state' = [state EXCEPT ![held[t]][idx[t]] = s]
      BY <1>3, <2>1 DEF Mark, PhaseOK
    <2>4. Promise!Complete(held[t], idx[t])
      BY <2>2, <2>3 DEF Promise!Complete
    <2> QED
      BY <2>1, <2>4 DEF Promise!Next
  <1>4. ASSUME NEW t \in Tids, Finish(t) PROVE [Promise!Next]_(Promise!vars)
    <2>1. held[t] \in Batches /\ state' = state /\ execs' = execs
      BY <1>0, <1>4 DEF Finish, OwnershipInv, PhaseOK, batchVars
    <2>2. CASE AllFinished(held[t])
      <3>1. \A i \in Blocks : state[held[t]][i] \in Terminal
        BY <1>0, <2>1, <2>2, FinishedBlocks
      <3>2. finishes' = [finishes EXCEPT ![held[t]] = Saturate(finishes[held[t]])]
        BY <1>0, <1>4, <2>1, <2>2 DEF Finish, TypeOK
      <3>3. Saturate(finishes[held[t]]) > 0
        <4>1. finishes[held[t]] \in 0 .. 2
          BY <1>0, <2>1 DEF TypeOK
        <4> QED
          BY <4>1 DEF Saturate
      <3>4. PICK b \in Batches : b = held[t]
        BY <2>1
      <3>5. [c \in Batches |-> finishes'[c] > 0]
              = [[c \in Batches |-> finishes[c] > 0] EXCEPT ![b] = TRUE]
        BY <1>0, <2>1, <3>2, <3>3, <3>4 DEF TypeOK
      <3>6. Promise!Report(b)
        BY <2>1, <3>1, <3>4, <3>5 DEF Promise!Report, Terminal
      <3> QED
        BY <3>6 DEF Promise!Next
    <2>3. CASE ~AllFinished(held[t])
      BY <1>4, <2>1, <2>3 DEF Finish, Promise!vars
    <2> QED
      BY <2>2, <2>3
  <1>5. CASE ~\E t \in Tids : Probe(t) \/ Exec(t) \/ Mark(t) \/ Finish(t)
    <2>1. state' = state /\ execs' = execs
      BY <1>5 DEF Next, TidNext, Born, Take, Check, ClaimStart, Own, Count, Release, Requeue,
                  Failed, PutBack, Submit, Wake, Shutdown, SpuriousWake, vars, batchVars, histVars
    <2>2. finishes' = finishes
      BY <1>5, FinishesKept
    <2> QED
      BY <2>1, <2>2 DEF Promise!vars
  <1> QED
    BY <1>1, <1>2, <1>3, <1>4, <1>5

\* The pool claims, runs and completes every block as BatchTasks says, and reports a batch
\* only when all of its blocks are DONE or FAULT.
THEOREM Implementation == Spec => ImplementsBatchTasks
  BY Invariance, PromiseInit, PromiseStep, PTL DEF Spec, ImplementsBatchTasks, Promise!Spec
=============================================================================
