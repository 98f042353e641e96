-------------------------- MODULE WaveSched_proofs --------------------------
(***************************************************************************)
(* Theorems about WaveSched for every number of workers, every mix of      *)
(* instructions and every set of budgets: the list of active workers is    *)
(* exact, and no worker that can run waits for more than two ticks of each *)
(* of the others.                                                          *)
(***************************************************************************)
EXTENDS WaveSched, WellFoundedInduction, TLAPS

----------------------------------------------------------------------------
(* Lemmas about the operators                                              *)

LEMMA Bounds ==
    /\ 0 \in Workers
    /\ Workers = {w \in Int : 0 <= w /\ w < NWorkers}
    /\ NWorkers \in Nat \ {0} /\ QMax \in Nat \ {0} /\ Budgets \subseteq Nat
    /\ 0 \in 0 .. QMax
    /\ WaitMax = 2 * NWorkers - 1 /\ WaitMax \in Nat /\ 0 \in 0 .. WaitMax
    /\ NoWait \in [Workers -> 0 .. WaitMax]
  BY ConstantsOK DEF Workers, WaitMax, NoWait

\* A walk finds the lowest member of a set of wids.
LEMMA LeastInSet ==
    ASSUME NEW S \in SUBSET Workers, S # {}
    PROVE  Least(S) \in S /\ \A w \in S : Least(S) <= w
  <1> DEFINE Less == {p \in Nat \X Nat : p[1] < p[2]}
  <1>1. IsWellFoundedOn(Less, Nat)
    BY NatLessThanWellFounded, Zenon DEF OpToRel
  <1>2. \A m, n \in Nat : m < n => <<m, n>> \in Less
    OBVIOUS
  <1>3. S \in SUBSET Nat
    BY Bounds
  <1> HIDE DEF Less
  <1>4. PICK x \in S : \A y \in S : ~(<<y, x>> \in Less)
    BY <1>1, <1>3, WFMin, Zenon
  <1>5. ASSUME NEW y \in S PROVE x <= y
    <2>1. x \in Nat /\ y \in Nat /\ ~(<<y, x>> \in Less)
      BY <1>3, <1>4
    <2>2. ~(y < x)
      BY <2>1, <1>2, Zenon
    <2> QED
      BY <2>1, <2>2
  <1> QED
    BY <1>5 DEF Least

\* The distance of a walk from c, which may stand behind the last wid.
LEMMA DistType ==
    ASSUME NEW c \in 0 .. NWorkers, NEW w \in Workers
    PROVE  Dist(c, w) \in 0 .. NWorkers /\ (c < NWorkers => Dist(c, w) <= NWorkers - 1)
  BY Bounds DEF Dist

\* From finds the member of a set that is nearest in the order of a round.
LEMMA FromNearest ==
    ASSUME NEW S \in SUBSET Workers, S # {}, NEW c \in 0 .. NWorkers
    PROVE  /\ From(S, c) \in S
           /\ \A w \in S : Dist(c, From(S, c)) <= Dist(c, w)
  <1> DEFINE Ahead == {w \in S : w >= c}
  <1>1. CASE \E w \in S : w >= c
    <2>1. Ahead \in SUBSET Workers /\ Ahead # {} /\ From(S, c) = Least(Ahead)
      BY <1>1 DEF From
    <2>2. Least(Ahead) \in Ahead /\ \A w \in Ahead : Least(Ahead) <= w
      BY <2>1, LeastInSet
    <2>3. ASSUME NEW w \in S PROVE Dist(c, Least(Ahead)) <= Dist(c, w)
      <3>1. w \in Int /\ 0 <= w /\ w < NWorkers /\ c \in Int /\ NWorkers \in Nat
        BY Bounds
      <3>2. Least(Ahead) \in Int /\ Least(Ahead) >= c /\ Least(Ahead) < NWorkers
        BY <2>2, Bounds
      <3>3. w >= c => Least(Ahead) <= w
        BY <2>2
      <3> HIDE DEF Ahead
      <3> QED
        BY <3>1, <3>2, <3>3 DEF Dist
    <2> QED
      BY <2>1, <2>2, <2>3
  <1>2. CASE ~\E w \in S : w >= c
    <2>1. From(S, c) = Least(S) /\ Least(S) \in S /\ \A w \in S : Least(S) <= w
      BY <1>2, LeastInSet DEF From
    <2>2. ASSUME NEW w \in S PROVE Dist(c, Least(S)) <= Dist(c, w)
      <3>1. w \in Int /\ 0 <= w /\ w < NWorkers /\ c \in Int /\ NWorkers \in Nat
        BY Bounds
      <3>2. Least(S) \in Int /\ ~(Least(S) >= c) /\ ~(w >= c) /\ Least(S) <= w
        BY <1>2, <2>1, Bounds
      <3> QED
        BY <3>1, <3>2 DEF Dist
    <2> QED
      BY <2>1, <2>2
  <1> QED
    BY <1>1, <1>2

\* Between two wids w and v of a round lies the worker the cursor moves to: it is not
\* further from v than the wid behind w is.
LEMMA NextBefore ==
    ASSUME NEW w \in Workers, NEW n \in Workers, NEW v \in Workers, NEW s \in Workers,
           Dist(w + 1, n) <= Dist(w + 1, v), Dist(s, v) > Dist(s, w)
    PROVE  Dist(n, v) <= Dist(s, v) - (Dist(s, w) + 1)
  <1>1. /\ w \in Int /\ 0 <= w /\ w < NWorkers /\ n \in Int /\ 0 <= n /\ n < NWorkers
        /\ v \in Int /\ 0 <= v /\ v < NWorkers /\ s \in Int /\ 0 <= s /\ s < NWorkers
        /\ NWorkers \in Nat
    BY Bounds
  <1> QED
    BY <1>1, SMTT(60) DEF Dist

\* Behind w in the round are the wids further from its start.
LEMMA BehindFurther ==
    ASSUME start \in Workers, todo \in SUBSET Workers, NEW w \in Workers
    PROVE  Behind(w) = {v \in todo : Dist(start, v) > Dist(start, w)}
  <1>1. /\ w \in Int /\ 0 <= w /\ w < NWorkers /\ NWorkers \in Nat
        /\ start \in Int /\ 0 <= start /\ start < NWorkers
    BY Bounds
  <1>2. ASSUME NEW v \in todo PROVE v \in Behind(w) <=> Dist(start, v) > Dist(start, w)
    <2>1. v \in Int /\ 0 <= v /\ v < NWorkers
      BY Bounds
    <2>2. v \in Behind(w) <=> IF w >= start THEN v > w \/ v < start ELSE w < v /\ v < start
      BY DEF Behind
    <2> QED
      BY <1>1, <2>1, <2>2 DEF Dist
  <1>3. Behind(w) \subseteq todo
    BY DEF Behind
  <1> QED
    BY <1>2, <1>3

SameRetired(f, g) == \A v \in Workers : "retired" \in g[v] <=> "retired" \in f[v]

\* What the hooks make of the flags: flags again, and only retiring retires.
LEMMA FlagsEffect ==
    ASSUME NEW f \in [Workers -> SUBSET Flag], NEW w \in Workers, NEW ws \in SUBSET Workers
    PROVE  /\ \A fs \in SUBSET (Flag \ {"retired"}) :
                 Raise(f, w, fs) \in [Workers -> SUBSET Flag] /\ SameRetired(f, Raise(f, w, fs))
           /\ Trap(f, w) \in [Workers -> SUBSET Flag] /\ SameRetired(f, Trap(f, w))
           /\ EntryExec(f, w) \in [Workers -> SUBSET Flag] /\ SameRetired(f, EntryExec(f, w))
           /\ EntryHalt(f, w) \in [Workers -> SUBSET Flag] /\ SameRetired(f, EntryHalt(f, w))
           /\ SyncFlags(f, w) \in [Workers -> SUBSET Flag] /\ SameRetired(f, SyncFlags(f, w))
           /\ Deliver(f, ws) \in [Workers -> SUBSET Flag] /\ SameRetired(f, Deliver(f, ws))
           /\ EntryRetire(f, w) \in [Workers -> SUBSET Flag]
           /\ \A v \in Workers : "retired" \in EntryRetire(f, w)[v] <=> v = w \/ "retired" \in f[v]
  <1>1. \A g \in [Workers -> SUBSET Flag], v \in Workers, fs \in SUBSET Flag :
           /\ Raise(g, v, fs) \in [Workers -> SUBSET Flag]
           /\ Clear(g, v, fs) \in [Workers -> SUBSET Flag]
           /\ "retired" \notin fs => SameRetired(g, Raise(g, v, fs)) /\ SameRetired(g, Clear(g, v, fs))
    BY DEF Raise, Clear, SameRetired
  <1>2. /\ {"halted", "blocked"} \in SUBSET Flag /\ {"faulted", "blocked"} \in SUBSET Flag
        /\ {"blocked"} \in SUBSET Flag /\ {"retired", "halted", "blocked"} \in SUBSET Flag
        /\ "retired" \notin {"halted", "blocked"} /\ "retired" \notin {"faulted", "blocked"}
        /\ "retired" \notin {"blocked"} /\ 0 \in Workers
    BY Bounds DEF Flag
  <1>3. ASSUME NEW fs \in SUBSET (Flag \ {"retired"})
        PROVE  Raise(f, w, fs) \in [Workers -> SUBSET Flag] /\ SameRetired(f, Raise(f, w, fs))
    BY <1>1
  <1>4. Trap(f, w) \in [Workers -> SUBSET Flag] /\ SameRetired(f, Trap(f, w))
    BY <1>1, <1>2 DEF Trap
  <1>5. EntryExec(f, w) \in [Workers -> SUBSET Flag] /\ SameRetired(f, EntryExec(f, w))
    <2>1. SameRetired(f, f)
      BY DEF SameRetired
    <2> QED
      BY <1>1, <1>2, <2>1 DEF EntryExec
  <1>6. EntryHalt(f, w) \in [Workers -> SUBSET Flag] /\ SameRetired(f, EntryHalt(f, w))
    BY <1>1, <1>2 DEF EntryHalt
  <1>7. SyncFlags(f, w) \in [Workers -> SUBSET Flag] /\ SameRetired(f, SyncFlags(f, w))
    <2> DEFINE g == IF w # 0 THEN Raise(f, w, {"blocked"}) ELSE f
    <2>1. g \in [Workers -> SUBSET Flag] /\ SameRetired(f, g)
      BY <1>1, <1>2 DEF SameRetired
    <2>2. SyncFlags(f, w) = Clear(g, 0, {"blocked"})
      BY DEF SyncFlags
    <2> HIDE DEF g
    <2>3. Clear(g, 0, {"blocked"}) \in [Workers -> SUBSET Flag] /\ SameRetired(g, Clear(g, 0, {"blocked"}))
      BY <1>1, <1>2, <2>1
    <2> QED
      BY <2>1, <2>2, <2>3 DEF SameRetired
  <1>8. Deliver(f, ws) \in [Workers -> SUBSET Flag] /\ SameRetired(f, Deliver(f, ws))
    BY DEF Deliver, SameRetired
  <1>9. /\ EntryRetire(f, w) \in [Workers -> SUBSET Flag]
        /\ \A v \in Workers : "retired" \in EntryRetire(f, w)[v] <=> v = w \/ "retired" \in f[v]
    BY <1>1, <1>2 DEF EntryRetire, Raise
  <1> QED
    BY <1>3, <1>4, <1>5, <1>6, <1>7, <1>8, <1>9

LEMMA BootEffect ==
    /\ BootFlags(Workers) \in [Workers -> SUBSET Flag]
    /\ \A v \in Workers : "retired" \notin BootFlags(Workers)[v]
  BY DEF BootFlags, Flag

\* The list stays exact where nobody is retired.
LEMMA ListKept ==
    ASSUME ListExact, SameRetired(flags, flags'), active' = active
    PROVE  ListExact'
  BY DEF ListExact, SameRetired

\* A delivery makes workers runnable but never takes a runnable one's place.
LEMMA DrainEffect ==
    ASSUME TypeOK, DrainAll \/ DrainStuck
    PROVE  /\ flags' \in [Workers -> SUBSET Flag]
           /\ ingress' \in [Workers -> 0 .. QMax]
           /\ SameRetired(flags, flags')
           /\ \/ waited' = NoWait
              \/ waited' = waited /\ \A v \in Workers : Runnable(flags, v) => Runnable(flags', v)
  <1>0. /\ flags \in [Workers -> SUBSET Flag] /\ ingress \in [Workers -> 0 .. QMax]
        /\ Pending \in SUBSET Workers
    BY DEF TypeOK, Pending
  <1>1. CASE DrainAll
    <2>1. flags' = Deliver(flags, Pending)
      BY <1>1 DEF DrainAll
    <2>2. flags' \in [Workers -> SUBSET Flag] /\ SameRetired(flags, flags')
      BY <1>0, <2>1, Bounds, FlagsEffect
    <2>3. ingress' \in [Workers -> 0 .. QMax] /\ waited' = waited
      BY <1>1, Bounds DEF DrainAll
    <2>4. \A v \in Workers : Runnable(flags, v) => Runnable(flags', v)
      BY <1>0, <2>1 DEF Deliver, Runnable
    <2> QED
      BY <2>2, <2>3, <2>4
  <1>2. CASE DrainStuck
    <2>1. PICK w \in Pending : \E left \in 1 .. ingress[w] :
             /\ flags' = LET served == {v \in Pending : v < w \/ (v = w /\ left < ingress[w])}
                         IN  Raise(Deliver(flags, served), w, {"faulted"})
             /\ ingress' = [v \in Workers |-> IF v < w THEN 0 ELSE IF v = w THEN left ELSE ingress[v]]
             /\ waited' = NoWait
      BY <1>2 DEF DrainStuck
    <2>2. PICK left \in 1 .. ingress[w] :
             /\ flags' = LET served == {v \in Pending : v < w \/ (v = w /\ left < ingress[w])}
                         IN  Raise(Deliver(flags, served), w, {"faulted"})
             /\ ingress' = [v \in Workers |-> IF v < w THEN 0 ELSE IF v = w THEN left ELSE ingress[v]]
             /\ waited' = NoWait
      BY <2>1
    <2> DEFINE served == {v \in Pending : v < w \/ (v = w /\ left < ingress[w])}
    <2>3. w \in Workers /\ served \in SUBSET Workers /\ left \in 0 .. QMax
      <3>1. w \in Workers /\ served \in SUBSET Workers
        BY <1>0
      <3> HIDE DEF served
      <3>2. ingress[w] \in 0 .. QMax /\ QMax \in Nat
        BY <1>0, <3>1, Bounds
      <3> QED
        BY <3>1, <3>2
    <2> HIDE DEF served
    <2>4. Deliver(flags, served) \in [Workers -> SUBSET Flag] /\ SameRetired(flags, Deliver(flags, served))
      BY <1>0, <2>3, FlagsEffect
    <2>5. {"faulted"} \in SUBSET (Flag \ {"retired"})
      BY DEF Flag
    <2>6. LET g == Deliver(flags, served)
          IN  /\ Raise(g, w, {"faulted"}) \in [Workers -> SUBSET Flag]
              /\ SameRetired(g, Raise(g, w, {"faulted"}))
      BY <2>3, <2>4, <2>5, FlagsEffect
    <2>7. flags' = Raise(Deliver(flags, served), w, {"faulted"})
      BY <2>2 DEF served
    <2>8. flags' \in [Workers -> SUBSET Flag] /\ SameRetired(flags, flags')
      BY <2>4, <2>6, <2>7 DEF SameRetired
    <2>9. ingress' \in [Workers -> 0 .. QMax]
      BY <1>0, <2>2, <2>3, Bounds
    <2> QED
      BY <2>2, <2>8, <2>9
  <1> QED
    BY <1>1, <1>2

----------------------------------------------------------------------------
(* Ticks                                                                   *)

\* The worker whose turn it is: it can run, is in the list, and is the nearest that can.
LEMMA TurnFacts ==
    ASSUME TypeOK, ListExact, pc = "turn", Ready # {}, NEW w, w = From(Ready, start)
    PROVE  /\ w \in Workers /\ w \in todo /\ Runnable(flags, w) /\ w \in active
           /\ \A v \in Ready : Dist(start, w) <= Dist(start, v)
  <1>0. todo \in SUBSET Workers /\ start \in Workers
    BY DEF TypeOK
  <1>1. Ready \in SUBSET Workers /\ start \in 0 .. NWorkers
    <2>1. Ready \in SUBSET Workers
      BY <1>0 DEF Ready
    <2>2. start \in 0 .. NWorkers
      BY <1>0, Bounds
    <2> QED
      BY <2>1, <2>2
  <1>2. w \in Ready /\ \A v \in Ready : Dist(start, w) <= Dist(start, v)
    BY <1>1, FromNearest
  <1>3. w \in Workers /\ w \in todo /\ Runnable(flags, w)
    BY <1>1, <1>2 DEF Ready
  <1>4. w \in active
    BY <1>3 DEF ListExact, Runnable
  <1> QED
    BY <1>2, <1>3, <1>4

\* The cursor moves to the nearest worker of the list behind w.
LEMMA NextFacts ==
    ASSUME TypeOK, NEW w \in Workers, w \in active
    PROVE  /\ NextCursor(w) \in Workers
           /\ \A v \in active : Dist(w + 1, NextCursor(w)) <= Dist(w + 1, v)
  <1>1. active \in SUBSET Workers /\ active # {} /\ w + 1 \in 0 .. NWorkers
    BY Bounds DEF TypeOK
  <1> QED
    BY <1>1, FromNearest DEF NextCursor

Goes(w, c) ==
    /\ active' \in SUBSET active
    /\ Waits(w)
    /\ \/ UNCHANGED <<interruptRequested, pc, rc>> /\ rrCursor' = c
       \/ /\ pc' = "return" /\ rc' \in 0 .. 2 /\ rrCursor' = NextCursor(w)
          /\ interruptRequested' \in BOOLEAN

GivesUp ==
    /\ active' \in SUBSET Workers
    /\ waited' = NoWait
    /\ pc' = "return" /\ rc' \in 0 .. 2 /\ UNCHANGED <<interruptRequested, rrCursor>>

\* A tick goes on to the next worker or ends the run, with the cursor behind w; or it fails
\* or resets the kernel, and nobody waits any more.
LEMMA TickEffect ==
    ASSUME TypeOK, ListExact, NEW w \in Workers, Tick(w)
    PROVE  /\ flags' \in [Workers -> SUBSET Flag]
           /\ ListExact'
           /\ \/ Goes(w, NextCursor(w)) \/ Goes(w, rrCursor)
              \/ GivesUp
  <1>0. /\ flags \in [Workers -> SUBSET Flag] /\ active \in SUBSET Workers
        /\ interruptRequested \in BOOLEAN
    BY DEF TypeOK
  <1>1. \A c : Boundary(NextCursor(w), c) =>
             \/ UNCHANGED <<interruptRequested, pc, rc>> /\ rrCursor' = c
             \/ /\ pc' = "return" /\ rc' \in 0 .. 2 /\ rrCursor' = NextCursor(w)
                /\ interruptRequested' \in BOOLEAN
    <2> SUFFICES ASSUME NEW c, Boundary(NextCursor(w), c)
                 PROVE  \/ UNCHANGED <<interruptRequested, pc, rc>> /\ rrCursor' = c
                        \/ /\ pc' = "return" /\ rc' \in 0 .. 2 /\ rrCursor' = NextCursor(w)
                           /\ interruptRequested' \in BOOLEAN
      OBVIOUS
    <2>1. CASE interruptRequested
      <3>1. rrCursor' = NextCursor(w) /\ interruptRequested' = FALSE /\ rc' = 2 /\ pc' = "return"
        BY <2>1 DEF Boundary, Return
      <3>2. rc' \in 0 .. 2
        BY <3>1
      <3>3. interruptRequested' \in BOOLEAN
        BY <3>1, Zenon
      <3> QED
        BY <3>1, <3>2, <3>3, Zenon
    <2>2. CASE ~interruptRequested
      BY <2>2 DEF Boundary
    <2> QED
      BY <2>1, <2>2
  <1>2. \A c, r : Leave(c, r) => pc' = "return" /\ rc' = r /\ rrCursor' = c
                                 /\ UNCHANGED interruptRequested
    BY DEF Leave, Return
  <1>3. SameRetired(flags, flags)
    BY DEF SameRetired
  <1>4. /\ {"blocked"} \in SUBSET (Flag \ {"retired"})
        /\ {"blocked", "waiting"} \in SUBSET (Flag \ {"retired"})
        /\ {"halted"} \in SUBSET (Flag \ {"retired"}) /\ {"faulted"} \in SUBSET (Flag \ {"retired"})
    BY DEF Flag
  <1>5. CASE /\ \/ flags' = flags
                \/ flags' = Raise(flags, w, {"blocked"})
                \/ flags' = Raise(flags, w, {"blocked", "waiting"})
                \/ flags' = Trap(flags, w)
                \/ flags' = SyncFlags(flags, w)
                \/ \E v \in Workers : flags' = EntryExec(flags, v)
                \/ \E v \in Workers : flags' = EntryHalt(flags, v)
             /\ UNCHANGED active
             /\ Boundary(NextCursor(w), NextCursor(w))
             /\ Waits(w)
    <2>1. flags' \in [Workers -> SUBSET Flag] /\ SameRetired(flags, flags')
      <3>1. CASE flags' = flags
        BY <1>0, <1>3, <3>1
      <3>2. CASE flags' \in {Raise(flags, w, {"blocked"}), Raise(flags, w, {"blocked", "waiting"})}
        BY <1>0, <1>4, <3>2, FlagsEffect
      <3>3. CASE flags' \in {Trap(flags, w), SyncFlags(flags, w)}
        BY <1>0, <3>3, FlagsEffect
      <3>4. CASE \E v \in Workers : flags' \in {EntryExec(flags, v), EntryHalt(flags, v)}
        BY <1>0, <3>4, FlagsEffect
      <3> QED
        BY <1>5, <3>1, <3>2, <3>3, <3>4
    <2>2. ListExact'
      BY <1>5, <2>1, ListKept
    <2> QED
      BY <1>1, <1>5, <2>1, <2>2 DEF Goes
  <1>6. CASE /\ \E v \in Workers : flags' = EntryRetire(flags, v) /\ active' = active \ {v}
             /\ Boundary(NextCursor(w), NextCursor(w))
             /\ Waits(w)
    <2>1. PICK v \in Workers : flags' = EntryRetire(flags, v) /\ active' = active \ {v}
      BY <1>6
    <2>2. /\ flags' \in [Workers -> SUBSET Flag]
          /\ \A u \in Workers : "retired" \in flags'[u] <=> u = v \/ "retired" \in flags[u]
      BY <1>0, <2>1, FlagsEffect
    <2>3. ListExact'
      BY <2>1, <2>2 DEF ListExact
    <2> QED
      BY <1>1, <1>6, <2>1, <2>2, <2>3 DEF Goes
  <1>7. CASE /\ UNCHANGED <<flags, active>>
             /\ Boundary(NextCursor(w), rrCursor)
             /\ Waits(w)
    <2>1. ListExact'
      BY <1>7 DEF ListExact
    <2> QED
      BY <1>0, <1>1, <1>7, <2>1 DEF Goes
  <1>8. CASE /\ flags' = Raise(flags, w, {"halted"})
             /\ UNCHANGED active
             /\ IF w = 0 THEN Leave(NextCursor(w), 1) ELSE Boundary(NextCursor(w), NextCursor(w))
             /\ Waits(w)
    <2>1. flags' \in [Workers -> SUBSET Flag] /\ SameRetired(flags, flags')
      BY <1>0, <1>4, <1>8, FlagsEffect
    <2>2. ListExact'
      BY <1>8, <2>1, ListKept
    <2>3. CASE w = 0
      <3>1. pc' = "return" /\ rc' = 1 /\ rrCursor' = NextCursor(w) /\ interruptRequested' \in BOOLEAN
        BY <1>0, <1>2, <1>8, <2>3
      <3> QED
        BY <1>8, <2>1, <2>2, <3>1 DEF Goes
    <2>4. CASE w # 0
      BY <1>1, <1>8, <2>1, <2>2, <2>4 DEF Goes
    <2> QED
      BY <2>3, <2>4
  <1>9. CASE /\ flags' \in {Raise(flags, w, {"faulted"}), Trap(flags, w)}
             /\ UNCHANGED active
             /\ Leave(rrCursor, 0)
             /\ waited' = NoWait
    <2>1. flags' \in [Workers -> SUBSET Flag] /\ SameRetired(flags, flags')
      BY <1>0, <1>4, <1>9, FlagsEffect
    <2>2. ListExact'
      BY <1>9, <2>1, ListKept
    <2> QED
      BY <1>0, <1>2, <1>9, <2>1, <2>2 DEF GivesUp
  <1>10. CASE /\ flags' = BootFlags(Workers)
              /\ active' = Workers
              /\ Leave(rrCursor, 2)
              /\ waited' = NoWait
    <2>1. flags' \in [Workers -> SUBSET Flag] /\ ListExact'
      BY <1>10, BootEffect DEF ListExact
    <2> QED
      BY <1>2, <1>10, <2>1 DEF GivesUp
  <1> QED
    BY <1>5, <1>6, <1>7, <1>8, <1>9, <1>10 DEF Tick, Relisted

----------------------------------------------------------------------------
(* Types and the list                                                      *)

LEMMA WaitsType ==
    ASSUME TypeOK, NEW w, Waits(w) \/ waited' = NoWait \/ waited' = waited
    PROVE  waited' \in [Workers -> 0 .. WaitMax]
  <1>1. waited \in [Workers -> 0 .. WaitMax] /\ WaitMax \in Nat /\ NoWait \in [Workers -> 0 .. WaitMax]
    BY Bounds DEF TypeOK
  <1>2. CASE Waits(w)
    <2>1. \A v \in Workers :
             (IF v = w \/ ~Runnable(flags, v) \/ ~Runnable(flags', v) THEN 0
              ELSE IF waited[v] < WaitMax THEN waited[v] + 1 ELSE WaitMax) \in 0 .. WaitMax
      <3> SUFFICES ASSUME NEW v \in Workers
                   PROVE  /\ 0 \in 0 .. WaitMax /\ WaitMax \in 0 .. WaitMax
                          /\ waited[v] < WaitMax => waited[v] + 1 \in 0 .. WaitMax
        OBVIOUS
      <3>1. waited[v] \in 0 .. WaitMax
        BY <1>1
      <3> QED
        BY <1>1, <3>1
    <2> QED
      BY <1>2, <2>1 DEF Waits
  <1> QED
    BY <1>1, <1>2

\* The turn of a worker keeps the types and the list.
LEMMA TurnType ==
    ASSUME TypeOK, ListExact, RunTurn
    PROVE  TypeOK' /\ ListExact'
  <1> DEFINE w == From(Ready, start)
  <1>1. w \in Workers /\ w \in active
    BY TurnFacts DEF RunTurn
  <1>2. NextCursor(w) \in Workers
    BY <1>1, NextFacts
  <1>3. Tick(w)
    BY DEF RunTurn
  <1>4. /\ flags' \in [Workers -> SUBSET Flag] /\ ListExact'
        /\ \/ Goes(w, NextCursor(w)) \/ Goes(w, rrCursor)
           \/ GivesUp
    BY <1>1, <1>3, TickEffect
  <1>5. /\ \/ start' = 0 /\ todo' = {} /\ anyRan' = FALSE
           \/ todo' = Behind(w) /\ anyRan' = TRUE /\ UNCHANGED start
        /\ ticks' = IF w \in IgnoreMax \/ ticks = budget THEN ticks ELSE ticks + 1
        /\ UNCHANGED <<ingress, budget, hostVars>>
    BY DEF RunTurn, OutOfScope
  <1> HIDE DEF w
  <1>6. /\ active' \in SUBSET Workers /\ rrCursor' \in Workers /\ pc' \in RunPC /\ rc' \in 0 .. 2
        /\ interruptRequested' \in BOOLEAN /\ waited' \in [Workers -> 0 .. WaitMax]
    <2>1. /\ active \in SUBSET Workers /\ rrCursor \in Workers /\ pc \in RunPC /\ rc \in 0 .. 2
          /\ interruptRequested \in BOOLEAN
      BY DEF TypeOK
    <2>2. waited' \in [Workers -> 0 .. WaitMax]
      BY <1>4, WaitsType DEF Goes, GivesUp
    <2>3. "return" \in RunPC
      BY DEF RunPC
    <2>4. CASE GivesUp
      BY <2>1, <2>2, <2>3, <2>4 DEF GivesUp
    <2>5. ASSUME NEW c \in Workers, Goes(w, c)
          PROVE  /\ active' \in SUBSET Workers /\ rrCursor' \in Workers /\ pc' \in RunPC
                 /\ rc' \in 0 .. 2 /\ interruptRequested' \in BOOLEAN
      BY <1>2, <2>1, <2>3, <2>5 DEF Goes
    <2> QED
      BY <1>2, <1>4, <2>1, <2>2, <2>4, <2>5
  <1>7. ticks' \in 0 .. budget'
    <2>1. budget \in Nat /\ ticks \in 0 .. budget
      BY Bounds DEF TypeOK
    <2> QED
      BY <1>5, <2>1
  <1>8. start' \in Workers /\ todo' \in SUBSET Workers /\ anyRan' \in BOOLEAN
    <2>1. start \in Workers /\ todo \in SUBSET Workers /\ Behind(w) \in SUBSET todo
      BY DEF TypeOK, Behind
    <2> QED
      BY <1>5, <2>1, Bounds
  <1>9. /\ ingress' \in [Workers -> 0 .. QMax] /\ budget' \in Budgets
        /\ hpc' \in {"up", "flagged", "joining", "down"} /\ stopRequested' \in BOOLEAN
    BY <1>5 DEF TypeOK, hostVars
  <1> QED
    BY <1>4, <1>6, <1>7, <1>8, <1>9 DEF TypeOK

\* What the steps that drain the queues keep.
LEMMA DrainType ==
    ASSUME TypeOK, ListExact, RunUpfront \/ RunDrain
    PROVE  TypeOK' /\ ListExact'
  <1>1. /\ DrainAll \/ DrainStuck
        /\ UNCHANGED <<listVars, interruptRequested, budget, hostVars>>
        /\ ticks' \in {ticks, 0} /\ pc' \in RunPC /\ rc' \in {rc, 0, 1}
        /\ \/ start' = 0 /\ todo' = {} /\ anyRan' = FALSE
           \/ UNCHANGED roundVars
    BY DEF RunUpfront, RunDrain, Return, OutOfScope, RunPC
  <1>2. /\ flags' \in [Workers -> SUBSET Flag] /\ ingress' \in [Workers -> 0 .. QMax]
        /\ SameRetired(flags, flags') /\ (waited' = NoWait \/ waited' = waited)
    BY <1>1, DrainEffect
  <1>3. waited' \in [Workers -> 0 .. WaitMax]
    BY <1>2, WaitsType
  <1>4. ListExact'
    BY <1>1, <1>2, ListKept DEF listVars
  <1>5. ticks' \in 0 .. budget'
    <2>1. budget \in Nat /\ ticks \in 0 .. budget /\ budget' = budget
      BY <1>1, Bounds DEF TypeOK
    <2> QED
      BY <1>1, <2>1
  <1>6. rc' \in 0 .. 2
    BY <1>1 DEF TypeOK
  <1>7. start' \in Workers /\ todo' \subseteq Workers /\ anyRan' \in BOOLEAN
    BY <1>1, Bounds DEF TypeOK, roundVars
  <1> QED
    BY <1>1, <1>2, <1>3, <1>4, <1>5, <1>6, <1>7 DEF TypeOK, listVars, hostVars

LEMMA TypeStep ==
    ASSUME TypeOK, ListExact, [Next]_vars
    PROVE  TypeOK' /\ ListExact'
  <1> USE DEF listVars, roundVars, hostVars
  <1>1. CASE RunReady
    BY <1>1 DEF RunReady, TypeOK, ListExact, RunPC
  <1>2. CASE RunEnter
    <2>1. 0 \in 0 .. budget
      BY Bounds DEF TypeOK
    <2> QED
      BY <1>2, <2>1 DEF RunEnter, TypeOK, ListExact, RunPC
  <1>3. CASE RunUpfront \/ RunDrain
    BY <1>3, DrainType
  <1>4. CASE RunRound
    <2>1. /\ pc' \in {"return", "turn"} /\ rc' \in {0, rc}
          /\ \/ UNCHANGED roundVars
             \/ start' = rrCursor /\ todo' = active /\ anyRan' = FALSE
          /\ UNCHANGED <<flags, ingress, listVars, interruptRequested, budget, ticks, waited, hostVars>>
      BY <1>4 DEF RunRound, Return
    <2>2. start' \in Workers /\ todo' \subseteq Workers /\ anyRan' \in BOOLEAN
      <3>1. CASE UNCHANGED roundVars
        BY <3>1 DEF TypeOK
      <3>2. CASE start' = rrCursor /\ todo' = active /\ anyRan' = FALSE
        BY <3>2 DEF TypeOK
      <3> QED
        BY <2>1, <3>1, <3>2
    <2>3. rc' \in 0 .. 2 /\ pc' \in RunPC
      BY <2>1 DEF TypeOK, RunPC
    <2> QED
      BY <2>1, <2>2, <2>3 DEF TypeOK, ListExact
  <1>5. CASE RunTurn
    BY <1>5, TurnType
  <1>6. CASE RunTurnsOver
    BY <1>6, Bounds DEF RunTurnsOver, TypeOK, ListExact, RunPC
  <1>7. CASE RunReturn
    <2>1. pc' \in {"ready", "done"}
      BY <1>7 DEF RunReturn
    <2> QED
      BY <1>7, <2>1 DEF RunReturn, TypeOK, ListExact, RunPC
  <1>8. CASE HostNext
    <2>1. CASE Push
      <3>1. PICK w \in Workers : ingress[w] < QMax /\ ingress' = [ingress EXCEPT ![w] = @ + 1]
        BY <2>1 DEF Push
      <3>2. ingress[w] \in 0 .. QMax /\ QMax \in Nat
        BY Bounds DEF TypeOK
      <3>3. ingress' \in [Workers -> 0 .. QMax]
        BY <3>1, <3>2 DEF TypeOK
      <3> QED
        BY <2>1, <3>3 DEF Push, TypeOK, ListExact
    <2>2. CASE Interrupt
      BY <2>2 DEF Interrupt, TypeOK, ListExact
    <2>3. CASE /\ StopKernel
               /\ UNCHANGED <<flags, ingress, listVars, budget, pc, rc, ticks, roundVars, waited>>
      BY <2>3 DEF StopKernel, TypeOK, ListExact
    <2>4. CASE /\ StartKernel
               /\ UNCHANGED <<flags, ingress, listVars, interruptRequested, budget, rc, ticks,
                              roundVars, waited>>
      BY <2>4 DEF StartKernel, TypeOK, ListExact, RunPC
    <2> QED
      BY <1>8, <2>1, <2>2, <2>3, <2>4 DEF HostNext
  <1>9. CASE UNCHANGED vars
    BY <1>9 DEF vars, TypeOK, ListExact
  <1> QED
    BY <1>1, <1>2, <1>3, <1>4, <1>5, <1>6, <1>7, <1>8, <1>9 DEF Next, RunNext

----------------------------------------------------------------------------
(* How long a worker that can run waits                                    *)

\* In numbers: waiting, distances and the bound.
LEMMA WaitNumbers ==
    ASSUME TypeOK
    PROVE  /\ \A v \in Workers : waited[v] \in 0 .. WaitMax
           /\ \A c \in Workers, v \in Workers : Dist(c, v) \in 0 .. NWorkers - 1
           /\ rrCursor \in Workers /\ start \in Workers /\ NWorkers \in Nat \ {0}
           /\ WaitMax = 2 * NWorkers - 1
  <1>1. \A c \in Workers, v \in Workers : Dist(c, v) \in 0 .. NWorkers - 1
    BY Bounds DEF Dist
  <1> QED
    BY <1>1, Bounds DEF TypeOK

LEMMA NoWaitRests ==
    ASSUME NEW c \in Workers
    PROVE  \A v \in Workers : NoWait[v] = 0 /\ NoWait[v] + Dist(c, v) <= 2 * (NWorkers - 1)
  <1> SUFFICES ASSUME NEW v \in Workers
               PROVE  NoWait[v] = 0 /\ NoWait[v] + Dist(c, v) <= 2 * (NWorkers - 1)
    OBVIOUS
  <1>1. c \in Int /\ 0 <= c /\ c < NWorkers /\ v \in Int /\ 0 <= v /\ v < NWorkers /\ NWorkers \in Nat
    BY Bounds
  <1>2. NoWait[v] = 0
    BY DEF NoWait
  <1> QED
    BY <1>1, <1>2 DEF Dist

WaitInv == OnlyRunnableWait /\ RestWait /\ TurnWait

\* A round begins at the cursor, with everybody of the list ahead.
LEMMA RoundWait ==
    ASSUME TypeOK, WaitInv, RunRound
    PROVE  WaitInv'
  <1>1. /\ pc = "round"
        /\ UNCHANGED <<flags, waited, rrCursor, active>>
        /\ \/ pc' = "return"
           \/ pc' = "turn" /\ start' = rrCursor /\ todo' = active
    BY DEF RunRound, Return, listVars
  <1>2. OnlyRunnableWait'
    BY <1>1 DEF WaitInv, OnlyRunnableWait
  <1>3. \A v \in Workers : waited[v] + Dist(rrCursor, v) <= 2 * (NWorkers - 1)
    BY <1>1 DEF WaitInv, RestWait
  <1>4. CASE pc' = "return"
    BY <1>1, <1>2, <1>3, <1>4 DEF WaitInv, RestWait, TurnWait, Dist
  <1>5. CASE pc' = "turn" /\ start' = rrCursor /\ todo' = active
    <2>1. \A v \in Workers : /\ Dist(start', v) = Dist(rrCursor, v)
                             /\ Dist(rrCursor, v) \in 0 .. NWorkers - 1
      BY <1>5, WaitNumbers
    <2>2. active \in SUBSET Workers
      BY DEF TypeOK
    <2>3. Passed(0)'
      <3>1. \A v \in todo' : Dist(start', v) >= 0
        BY <1>5, <2>1, <2>2
      <3>2. \A v \in active' : v \in todo'
        BY <1>1, <1>5
      <3>3. ASSUME NEW v \in Workers
            PROVE  Dist(start', v) >= 0 /\ waited'[v] + (Dist(start', v) - 0) <= 2 * (NWorkers - 1)
        <4>1. Dist(rrCursor, v) - 0 = Dist(rrCursor, v) /\ Dist(rrCursor, v) >= 0
          BY <2>1, Bounds
        <4> QED
          BY <1>1, <1>3, <2>1, <4>1
      <3> QED
        BY <3>1, <3>2, <3>3 DEF Passed, Dist
    <2>4. 0 \in 0 .. NWorkers
      BY Bounds
    <2> QED
      BY <1>2, <1>5, <2>3, <2>4 DEF WaitInv, RestWait, TurnWait
  <1> QED
    BY <1>1, <1>4, <1>5

\* Two wids at the same distance are one.
LEMMA DistInjective ==
    ASSUME NEW c \in Workers, NEW u \in Workers, NEW v \in Workers, Dist(c, u) = Dist(c, v)
    PROVE  u = v
  BY Bounds DEF Dist

\* What a tick makes of the wait of worker v: none, or one more if v can run before and after.
LEMMA WaitsEffect ==
    ASSUME TypeOK, NEW w, Waits(w), NEW v \in Workers
    PROVE  \/ waited'[v] = 0
           \/ /\ v # w /\ Runnable(flags, v) /\ Runnable(flags', v)
              /\ waited'[v] \in Int /\ waited'[v] <= waited[v] + 1
  <1>1. waited'[v] = IF v = w \/ ~Runnable(flags, v) \/ ~Runnable(flags', v) THEN 0
                     ELSE IF waited[v] < WaitMax THEN waited[v] + 1 ELSE WaitMax
    BY DEF Waits
  <1>2. waited[v] \in 0 .. WaitMax
    BY WaitNumbers
  <1>3. WaitMax \in Int
    BY Bounds
  <1> QED
    BY <1>1, <1>2, <1>3

\* The round has come past w: the waits are those of the position behind it.
LEMMA TickWaits ==
    ASSUME TypeOK, ListExact, NEW w \in Workers, w \in todo,
           \A v \in Ready : Dist(start, w) <= Dist(start, v),
           NEW q \in 0 .. NWorkers, Passed(q), Waits(w), NEW v \in Workers
    PROVE  \/ waited'[v] = 0
           \/ /\ Runnable(flags', v) /\ v \in active
              /\ IF Dist(start, v) >= Dist(start, w) + 1
                 THEN waited'[v] + (Dist(start, v) - (Dist(start, w) + 1)) <= 2 * (NWorkers - 1)
                 ELSE waited'[v] <= (Dist(start, w) + 1) - 1 - Dist(start, v)
  <1>1. SUFFICES ASSUME waited'[v] # 0
                 PROVE  /\ Runnable(flags', v) /\ v \in active
                        /\ IF Dist(start, v) >= Dist(start, w) + 1
                           THEN waited'[v] + (Dist(start, v) - (Dist(start, w) + 1)) <= 2 * (NWorkers - 1)
                           ELSE waited'[v] <= (Dist(start, w) + 1) - 1 - Dist(start, v)
    OBVIOUS
  <1>2. /\ v # w /\ Runnable(flags, v) /\ Runnable(flags', v)
        /\ waited'[v] \in Int /\ waited'[v] <= waited[v] + 1
    BY <1>1, WaitsEffect
  <1>3. v \in active
    BY <1>2 DEF ListExact, Runnable
  <1>4. /\ Dist(start, v) \in 0 .. NWorkers - 1 /\ Dist(start, w) \in 0 .. NWorkers - 1
        /\ waited[v] \in 0 .. WaitMax
    BY WaitNumbers
  <1>4a. WaitMax \in Int /\ NWorkers \in Nat /\ q \in Int
    BY Bounds
  <1>5. Dist(start, v) # Dist(start, w)
    BY <1>2, DistInjective, WaitNumbers
  <1>6. Dist(start, w) >= q
    BY DEF Passed
  <1>7. CASE Dist(start, v) >= q
    <2>1. v \in Ready
      BY <1>2, <1>3, <1>7 DEF Passed, Ready
    <2>2. Dist(start, w) <= Dist(start, v)
      BY <2>1
    <2>3. waited[v] + (Dist(start, v) - q) <= 2 * (NWorkers - 1)
      BY <1>7 DEF Passed
    <2> QED
      BY <1>2, <1>3, <1>4, <1>5, <1>6, <1>4a, <2>2, <2>3
  <1>8. CASE ~(Dist(start, v) >= q)
    <2>1. waited[v] <= q - 1 - Dist(start, v)
      BY <1>8 DEF Passed
    <2> QED
      BY <1>2, <1>3, <1>4, <1>6, <1>8, <1>4a, <2>1
  <1> QED
    BY <1>7, <1>8

LEMMA TurnWaitStep ==
    ASSUME TypeOK, ListExact, WaitInv, RunTurn
    PROVE  WaitInv'
  <1> DEFINE w == From(Ready, start)
  <1>1. /\ w \in Workers /\ w \in todo /\ w \in active
        /\ \A v \in Ready : Dist(start, w) <= Dist(start, v)
    BY TurnFacts DEF RunTurn
  <1>2. /\ NextCursor(w) \in Workers
        /\ \A v \in active : Dist(w + 1, NextCursor(w)) <= Dist(w + 1, v)
    BY <1>1, NextFacts
  <1>3. Goes(w, NextCursor(w)) \/ Goes(w, rrCursor) \/ GivesUp
    BY <1>1, TickEffect DEF RunTurn
  <1>4. /\ pc = "turn"
        /\ pc' # "return" => todo' = Behind(w) /\ start' = start
    BY DEF RunTurn
  <1>5. PICK q \in 0 .. NWorkers : Passed(q)
    BY <1>4 DEF WaitInv, TurnWait
  <1>6. Behind(w) = {v \in todo : Dist(start, v) > Dist(start, w)}
    BY <1>1, BehindFurther DEF TypeOK
  <1> HIDE DEF w
  <1>7. \A v \in Workers : /\ Dist(start, v) \in 0 .. NWorkers - 1
                           /\ Dist(NextCursor(w), v) \in 0 .. NWorkers - 1
    BY <1>2, WaitNumbers
  <1>8. NWorkers \in Nat \ {0}
    BY Bounds
  <1>9. CASE GivesUp
    <2>1. waited' = NoWait /\ pc' = "return" /\ rrCursor' = rrCursor /\ rrCursor \in Workers
      BY <1>9, WaitNumbers DEF GivesUp
    <2>2. \A v \in Workers : waited'[v] = 0 /\ waited'[v] + Dist(rrCursor, v) <= 2 * (NWorkers - 1)
      BY <2>1, NoWaitRests
    <2> QED
      BY <2>1, <2>2 DEF WaitInv, OnlyRunnableWait, RestWait, TurnWait, Dist
  <1>10. ASSUME NEW c, Goes(w, c) PROVE WaitInv'
    <2>1. \A v \in Workers :
             \/ waited'[v] = 0
             \/ /\ Runnable(flags', v) /\ v \in active
                /\ IF Dist(start, v) >= Dist(start, w) + 1
                   THEN waited'[v] + (Dist(start, v) - (Dist(start, w) + 1)) <= 2 * (NWorkers - 1)
                   ELSE waited'[v] <= (Dist(start, w) + 1) - 1 - Dist(start, v)
      BY <1>1, <1>5, <1>10, TickWaits DEF Goes
    <2>2. OnlyRunnableWait'
      BY <2>1 DEF OnlyRunnableWait
    <2>3. CASE pc' = pc
      <3>0. PICK p \in 0 .. NWorkers : p = Dist(start, w) + 1
        BY <1>1, <1>7, <1>8
      <3>1. todo' = Behind(w) /\ start' = start
        BY <1>4, <2>3
      <3>2. \A v \in todo' : Dist(start, v) >= p
        <4> SUFFICES ASSUME NEW v \in todo' PROVE Dist(start, v) >= p
          OBVIOUS
        <4>1. v \in todo /\ Dist(start, v) > Dist(start, w) /\ v \in Workers
          BY <1>6, <3>1 DEF TypeOK
        <4> QED
          BY <1>1, <1>7, <3>0, <4>1
      <3>3. \A v \in active' : Dist(start, v) >= p => v \in todo'
        <4> SUFFICES ASSUME NEW v \in active', Dist(start, v) >= p PROVE v \in todo'
          OBVIOUS
        <4>1. v \in active /\ v \in Workers
          BY <1>10 DEF Goes, TypeOK
        <4>2. Dist(start, w) >= q
          BY <1>1, <1>5 DEF Passed
        <4>3. Dist(start, v) >= q /\ Dist(start, v) > Dist(start, w)
          BY <1>1, <1>7, <3>0, <4>1, <4>2
        <4>4. v \in todo
          BY <1>5, <4>1, <4>3 DEF Passed
        <4> QED
          BY <1>6, <3>1, <4>3, <4>4
      <3>4. ASSUME NEW v \in Workers
            PROVE  IF Dist(start, v) >= p
                   THEN waited'[v] + (Dist(start, v) - p) <= 2 * (NWorkers - 1)
                   ELSE waited'[v] <= p - 1 - Dist(start, v)
        <4>1. CASE waited'[v] = 0
          BY <1>1, <1>7, <1>8, <3>0, <4>1
        <4>2. CASE waited'[v] # 0
          BY <2>1, <3>0, <4>2
        <4> QED
          BY <4>1, <4>2
      <3>5. Passed(p)'
        BY <3>1, <3>2, <3>3, <3>4 DEF Passed, Dist
      <3>6. TurnWait'
        BY <3>5 DEF TurnWait
      <3> QED
        BY <1>4, <2>2, <2>3, <3>6 DEF WaitInv, RestWait
    <2>4. CASE pc' = "return" /\ rrCursor' = NextCursor(w)
      <3>1. ASSUME NEW v \in Workers
            PROVE  waited'[v] + Dist(NextCursor(w), v) <= 2 * (NWorkers - 1)
        <4>1. CASE waited'[v] = 0
          BY <1>7, <1>8, <4>1
        <4>2. CASE waited'[v] # 0 /\ Dist(start, v) >= Dist(start, w) + 1
          <5>1. v \in active /\ waited'[v] + (Dist(start, v) - (Dist(start, w) + 1)) <= 2 * (NWorkers - 1)
            BY <2>1, <4>2
          <5>2. Dist(w + 1, NextCursor(w)) <= Dist(w + 1, v)
            BY <1>2, <5>1
          <5>3. Dist(start, v) > Dist(start, w)
            BY <1>1, <1>7, <4>2
          <5>4. start \in Workers
            BY DEF TypeOK
          <5>5. Dist(NextCursor(w), v) <= Dist(start, v) - (Dist(start, w) + 1)
            BY <1>1, <1>2, <5>2, <5>3, <5>4, NextBefore
          <5>6. waited'[v] \in Int
            BY <1>10, <4>2, WaitsEffect DEF Goes
          <5> QED
            BY <1>1, <1>7, <1>8, <5>1, <5>5, <5>6
        <4>3. CASE waited'[v] # 0 /\ ~(Dist(start, v) >= Dist(start, w) + 1)
          <5>1. waited'[v] <= (Dist(start, w) + 1) - 1 - Dist(start, v)
            BY <2>1, <4>3
          <5>2. waited'[v] \in Int
            BY <1>10, <4>3, WaitsEffect DEF Goes
          <5> QED
            BY <1>1, <1>7, <1>8, <5>1, <5>2
        <4> QED
          BY <4>1, <4>2, <4>3
      <3> QED
        BY <2>2, <2>4, <3>1 DEF WaitInv, RestWait, TurnWait, Dist
    <2> QED
      BY <1>10, <2>3, <2>4 DEF Goes
  <1> QED
    BY <1>3, <1>9, <1>10

\* A round that has no worker left to run is over: everybody who can run lies behind.
LEMMA TurnsOverWait ==
    ASSUME TypeOK, ListExact, WaitInv, RunTurnsOver
    PROVE  WaitInv'
  <1>1. /\ pc = "turn" /\ pc' = "drain" /\ Ready = {} /\ UNCHANGED <<flags, waited, rrCursor>>
    BY DEF RunTurnsOver, listVars
  <1>2. PICK q \in 0 .. NWorkers : Passed(q)
    BY <1>1 DEF WaitInv, TurnWait
  <1>3. ASSUME NEW v \in Workers PROVE waited[v] + Dist(rrCursor, v) <= 2 * (NWorkers - 1)
    <2>1. /\ waited[v] \in 0 .. WaitMax /\ Dist(rrCursor, v) \in 0 .. NWorkers - 1
          /\ Dist(start, v) \in 0 .. NWorkers - 1
      BY WaitNumbers
    <2>2. NWorkers \in Nat \ {0} /\ WaitMax \in Nat
      BY Bounds
    <2>3. CASE Runnable(flags, v)
      <3>1. v \notin todo /\ v \in active
        BY <1>1, <2>3 DEF Ready, ListExact, Runnable
      <3>2. ~(Dist(start, v) >= q)
        BY <1>2, <3>1 DEF Passed
      <3>3. waited[v] <= q - 1 - Dist(start, v)
        BY <1>2, <3>2 DEF Passed
      <3> QED
        BY <2>1, <2>2, <3>3
    <2>4. CASE ~Runnable(flags, v)
      <3>1. waited[v] = 0
        BY <2>4 DEF WaitInv, OnlyRunnableWait
      <3> QED
        BY <2>1, <2>2, <3>1
    <2> QED
      BY <2>3, <2>4
  <1> QED
    BY <1>1, <1>3 DEF WaitInv, OnlyRunnableWait, RestWait, TurnWait, Dist

LEMMA DrainWait ==
    ASSUME TypeOK, WaitInv, RunUpfront \/ RunDrain
    PROVE  WaitInv'
  <1>1. /\ DrainAll \/ DrainStuck
        /\ pc # "turn" /\ pc' # "turn" /\ rrCursor' = rrCursor
    BY DEF RunUpfront, RunDrain, Return, listVars
  <1>2. CASE waited' = NoWait
    <2>1. \A v \in Workers : waited'[v] = 0 /\ waited'[v] + Dist(rrCursor, v) <= 2 * (NWorkers - 1)
      BY <1>2, NoWaitRests, WaitNumbers
    <2> QED
      BY <1>1, <2>1 DEF WaitInv, OnlyRunnableWait, RestWait, TurnWait, Dist
  <1>3. CASE waited' = waited /\ \A v \in Workers : Runnable(flags, v) => Runnable(flags', v)
    BY <1>1, <1>3 DEF WaitInv, OnlyRunnableWait, RestWait, TurnWait, Dist
  <1> QED
    BY <1>1, <1>2, <1>3, DrainEffect

LEMMA WaitStep ==
    ASSUME TypeOK, ListExact, WaitInv, [Next]_vars
    PROVE  WaitInv'
  <1> USE DEF listVars, roundVars, hostVars
  <1>1. ASSUME UNCHANGED <<flags, waited, rrCursor>>, pc # "turn", pc' # "turn"
        PROVE  WaitInv'
    BY <1>1 DEF WaitInv, OnlyRunnableWait, RestWait, TurnWait, Dist
  <1>2. ASSUME UNCHANGED <<flags, waited, listVars, roundVars, pc>>
        PROVE  WaitInv'
    BY <1>2 DEF WaitInv, OnlyRunnableWait, RestWait, TurnWait, Passed, Dist
  <1>3. CASE RunReady \/ RunEnter \/ RunReturn
    <2>1. UNCHANGED <<flags, waited, rrCursor>> /\ pc # "turn"
      BY <1>3 DEF RunReady, RunEnter, RunReturn
    <2>2. pc' \in {"done", "enter", "upfront", "ready"}
      BY <1>3 DEF RunReady, RunEnter, RunReturn
    <2> QED
      BY <1>1, <2>1, <2>2
  <1>4. CASE RunUpfront \/ RunDrain
    BY <1>4, DrainWait
  <1>5. CASE RunRound
    BY <1>5, RoundWait
  <1>6. CASE RunTurn
    BY <1>6, TurnWaitStep
  <1>7. CASE RunTurnsOver
    BY <1>7, TurnsOverWait
  <1>8. CASE HostNext
    <2>1. CASE Push \/ Interrupt
      BY <1>2, <2>1 DEF Push, Interrupt
    <2>2. CASE /\ StopKernel
               /\ UNCHANGED <<flags, ingress, listVars, budget, pc, rc, ticks, roundVars, waited>>
      BY <1>2, <2>2
    <2>3. CASE /\ StartKernel
               /\ UNCHANGED <<flags, ingress, listVars, interruptRequested, budget, rc, ticks,
                              roundVars, waited>>
      <3>1. pc # "turn" /\ pc' # "turn"
        BY <2>3 DEF StartKernel
      <3> QED
        BY <1>1, <2>3, <3>1
    <2> QED
      BY <1>8, <2>1, <2>2, <2>3 DEF HostNext
  <1>9. CASE UNCHANGED vars
    BY <1>2, <1>9 DEF vars
  <1> QED
    BY <1>3, <1>4, <1>5, <1>6, <1>7, <1>8, <1>9 DEF Next, RunNext

----------------------------------------------------------------------------
(* The theorems                                                            *)

LEMMA InitInv ==
    ASSUME Init
    PROVE  IInv
  <1>1. TypeOK
    <2>1. budget \in Budgets /\ budget \in Nat /\ ticks \in 0 .. budget
      BY Bounds DEF Init
    <2>2. flags \in [Workers -> SUBSET Flag] /\ waited \in [Workers -> 0 .. WaitMax]
      BY Bounds, BootEffect DEF Init
    <2>3. ingress \in [Workers -> 0 .. QMax]
      BY Bounds DEF Init
    <2>4. /\ rrCursor = 0 /\ start = 0 /\ active = Workers /\ todo = {} /\ 0 \in Workers
          /\ pc = "ready" /\ rc = 2 /\ hpc = "up"
      BY Bounds DEF Init
    <2>5. interruptRequested = FALSE /\ anyRan = FALSE /\ stopRequested = FALSE
      BY DEF Init
    <2>6. interruptRequested \in BOOLEAN /\ anyRan \in BOOLEAN /\ stopRequested \in BOOLEAN
      BY <2>5, Zenon
    <2> QED
      BY <2>1, <2>2, <2>3, <2>4, <2>6 DEF TypeOK, RunPC
  <1>2. ListExact
    BY BootEffect DEF Init, ListExact
  <1>3. \A v \in Workers : waited[v] = 0 /\ waited[v] + Dist(rrCursor, v) <= 2 * (NWorkers - 1)
    BY Bounds, NoWaitRests DEF Init
  <1>4. pc # "turn"
    BY DEF Init
  <1> QED
    BY <1>1, <1>2, <1>3, <1>4 DEF IInv, OnlyRunnableWait, RestWait, TurnWait

\* Types, the exact list and the waits of wave_run hold in every reachable state.
THEOREM Invariance == Spec => []IInv
  <1>1. Init => IInv
    BY InitInv
  <1>2. IInv /\ [Next]_vars => IInv'
    BY TypeStep, WaitStep DEF IInv, WaitInv
  <1> QED
    BY <1>1, <1>2, PTL DEF Spec

\* Every index and every counter of wave_run stays in its bounds.
THEOREM TypeCorrect == Spec => []TypeOK
  <1>1. IInv => TypeOK
    BY DEF IInv
  <1> QED
    BY <1>1, Invariance, PTL

\* The list of active workers holds exactly the workers that are not retired.
THEOREM ListTheorem == Spec => []ListExact
  <1>1. IInv => ListExact
    BY DEF IInv
  <1> QED
    BY <1>1, Invariance, PTL

\* For every number of workers, nobody who can run waits for more than two ticks of every
\* other worker on average: 2 * (NWorkers - 1) in all.
THEOREM WaitTheorem == Spec => []WaitBound
  <1>1. IInv => WaitBound
    <2> SUFFICES ASSUME IInv, NEW v \in Workers PROVE waited[v] < WaitMax
      BY DEF WaitBound
    <2>1. TypeOK
      BY DEF IInv
    <2>2. /\ waited[v] \in 0 .. WaitMax /\ Dist(rrCursor, v) \in 0 .. NWorkers - 1
          /\ Dist(start, v) \in 0 .. NWorkers - 1
      BY <2>1, WaitNumbers
    <2>3. NWorkers \in Nat \ {0} /\ WaitMax = 2 * NWorkers - 1 /\ WaitMax \in Nat
      BY Bounds
    <2>4. CASE pc # "turn"
      <3>1. waited[v] + Dist(rrCursor, v) <= 2 * (NWorkers - 1)
        BY <2>4 DEF IInv, RestWait
      <3> QED
        BY <2>2, <2>3, <3>1
    <2>5. CASE pc = "turn"
      <3>1. PICK q \in 0 .. NWorkers : Passed(q)
        BY <2>5 DEF IInv, TurnWait
      <3>2. IF Dist(start, v) >= q
            THEN waited[v] + (Dist(start, v) - q) <= 2 * (NWorkers - 1)
            ELSE waited[v] <= q - 1 - Dist(start, v)
        BY <3>1 DEF Passed
      <3> QED
        BY <2>2, <2>3, <3>1, <3>2
    <2> QED
      BY <2>4, <2>5
  <1> QED
    BY <1>1, Invariance, PTL
=============================================================================
