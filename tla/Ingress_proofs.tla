--------------------------- MODULE Ingress_proofs ---------------------------
(***************************************************************************)
(* Theorems about Ingress, for any workers, producers, queue lengths, ring *)
(* sizes and messages, and whatever updates overlap: where a message can   *)
(* be (IInv); what a queue holds until two of its updates overlap          *)
(* (ExactInv); which words are in the rings and which objects are live     *)
(* until two updates of a ring or of the handle space overlap (HeapInv);   *)
(* the order in which messages are read (FramedLog); and that no worker    *)
(* runs dry in the wave profile (WaveInv).                                 *)
(***************************************************************************)
EXTENDS Ingress, SequenceTheorems, WellFoundedInduction, TLAPS

----------------------------------------------------------------------------
(* Sequences and numbers                                                   *)

\* What is in a sequence.
LEMMA ToSetMember ==
    ASSUME NEW S, NEW s \in Seq(S), NEW x
    PROVE  x \in ToSet(s) <=> \E i \in 1 .. Len(s) : s[i] = x
  BY DEF ToSet

LEMMA AppendMembers ==
    ASSUME NEW S, NEW s \in Seq(S), NEW x \in S
    PROVE  /\ Append(s, x) \in Seq(S)
           /\ Len(Append(s, x)) = Len(s) + 1
           /\ \A i \in 1 .. Len(s) : Append(s, x)[i] = s[i]
           /\ Append(s, x)[Len(s) + 1] = x
           /\ ToSet(Append(s, x)) = ToSet(s) \union {x}
           /\ IsInjective(s) /\ x \notin ToSet(s) => IsInjective(Append(s, x))
  <1>1. /\ Append(s, x) \in Seq(S)
        /\ Len(Append(s, x)) = Len(s) + 1
        /\ \A i \in 1 .. Len(s) : Append(s, x)[i] = s[i]
        /\ Append(s, x)[Len(s) + 1] = x
    OBVIOUS
  <1>2. ToSet(Append(s, x)) = ToSet(s) \union {x}
    <2>1. ToSet(s) = {s[i] : i \in 1 .. Len(s)}
      BY DEF ToSet
    <2>2. ToSet(Append(s, x)) = {Append(s, x)[i] : i \in 1 .. Len(s) + 1}
      BY <1>1 DEF ToSet
    <2>3. \A y : y \in ToSet(Append(s, x)) => y \in ToSet(s) \union {x}
      BY <1>1, <2>1, <2>2
    <2>4. \A y : y \in ToSet(s) \union {x} => y \in ToSet(Append(s, x))
      BY <1>1, <2>1, <2>2
    <2> QED
      BY <2>3, <2>4
  <1>3. ASSUME IsInjective(s), x \notin ToSet(s) PROVE IsInjective(Append(s, x))
    <2>1. \A i \in 1 .. Len(s) : s[i] # x
      BY <1>3, ToSetMember
    <2> QED
      BY <1>1, <1>3, <2>1 DEF IsInjective
  <1> QED
    BY <1>1, <1>2, <1>3

\* A set of naturals that is not empty has a least element.
LEMMA LeastNatural ==
    ASSUME NEW T \in SUBSET Nat, T # {}
    PROVE  \E m \in T : \A n \in T : m <= n
  <1>1. PICK m \in T : \A n \in T : <<n, m>> \notin OpToRel(<, Nat)
    BY WFMin, NatLessThanWellFounded
  <1>2. \A n \in T : ~(n < m)
    BY <1>1 DEF OpToRel
  <1> QED
    BY <1>2

----------------------------------------------------------------------------
(* The inductive invariant                                                 *)

Places == 0 .. QMax - 1

\* The types of what pushes and drains work on.
QueueTypes ==
    /\ slot \in [Wids -> [Places -> 0 .. NMsgs]]
    /\ qhead \in [Wids -> Places] /\ qtail \in [Wids -> Places]
    /\ qcount \in [Wids -> Nat]
    /\ ppc \in [Producers -> PushPC] /\ pwid \in [Producers -> Wids]
    /\ pmsg \in [Producers -> 0 .. NMsgs] /\ preg \in [Producers -> Nat]
    /\ \A p \in Producers : ppc[p] = "tail" => preg[p] \in Places
    /\ dpc \in DrainPC /\ dwid \in Wids /\ dmsg \in 0 .. NMsgs
    /\ dpc = "store" => dreg \in Nat
    /\ nmsg \in 0 .. NMsgs
    /\ framed \in [Wids -> Seq(Msgs)]

\* The drain is about to push the words of a message that was not pushed before.
Carrying == dpc \in {"alloc", "copy", "room", "word", "wstore"}

\* A message is in at most one place of one queue, and one that was framed only where the drain is
\* about to take it out.
PlaceInv ==
    /\ \A v, w \in Wids, i, j \in Places :
        slot[v][i] # 0 /\ slot[v][i] = slot[w][j] => v = w /\ i = j
    /\ \A v, w \in Wids, i \in Places :
        slot[v][i] \in ToSet(framed[w]) =>
            dpc \in {"wake", "consume"} /\ v = dwid /\ i = qhead[v]

\* A message that its producer has yet to store is nowhere else.
PushInv ==
    \A p \in Producers : ppc[p] = "write" =>
        /\ pmsg[p] # 0
        /\ \A q \in Producers : ppc[q] = "write" /\ pmsg[q] = pmsg[p] => q = p
        /\ \A w \in Wids, i \in Places : slot[w][i] # pmsg[p]
        /\ \A w \in Wids : pmsg[p] \notin ToSet(framed[w])
        /\ Carrying => dmsg # pmsg[p]

\* The message the drain carries was not framed, and is at the head of the queue if anywhere.
CarryInv ==
    Carrying =>
        /\ dmsg # 0
        /\ \A w \in Wids : dmsg \notin ToSet(framed[w])
        /\ \A w \in Wids, i \in Places : slot[w][i] = dmsg => w = dwid /\ i = qhead[w]

\* All of them were handed to a push.
NumberInv ==
    /\ \A w \in Wids, i \in Places : slot[w][i] <= nmsg
    /\ \A w \in Wids : \A m \in ToSet(framed[w]) : m <= nmsg
    /\ \A p \in Producers : pmsg[p] <= nmsg
    /\ dmsg <= nmsg

MessageInv == PlaceInv /\ PushInv /\ CarryInv /\ NumberInv /\ FramedOnce

IInv == QueueTypes /\ NoUnderflow /\ MessageInv

LEMMA Sizes ==
    /\ QMax \in Nat /\ QMax # 0 /\ NMsgs \in Nat
    /\ \A i \in Nat : i % QMax \in Places
    /\ \A i \in Places : NextQ(i) \in Places
  <1>1. QMax \in Nat /\ QMax # 0 /\ NMsgs \in Nat
    BY IngressConstants
  <1>2. ASSUME NEW i \in Nat PROVE i % QMax \in Places
    BY <1>1 DEF Places
  <1>3. ASSUME NEW i \in Places PROVE NextQ(i) \in Places
    <2>1. i + 1 \in Nat
      BY <1>1 DEF Places
    <2> QED
      BY <1>2, <2>1 DEF NextQ
  <1> QED
    BY <1>1, <1>2, <1>3

LEMMA LeastWid ==
    ASSUME NEW S \in SUBSET Wids, S # {}
    PROVE  Least(S) \in S
  <1>1. S \in SUBSET Nat
    BY IngressConstants
  <1>2. \E v \in S : \A u \in S : v <= u
    BY <1>1, LeastNatural
  <1> QED
    BY <1>2 DEF Least

LEMMA FirstWid == Least(Wids) \in Wids
  BY LeastWid, IngressConstants

\* A message is a number, and what marks an empty place is none.
LEMMA FramedMessages ==
    ASSUME QueueTypes, NEW w \in Wids
    PROVE  /\ framed[w] \in Seq(Msgs)
           /\ ToSet(framed[w]) \subseteq Msgs
           /\ 0 \notin ToSet(framed[w])
  <1>1. framed[w] \in Seq(Msgs)
    BY DEF QueueTypes
  <1>2. \A i \in 1 .. Len(framed[w]) : framed[w][i] \in Msgs
    BY <1>1
  <1>3. \A m \in Msgs : m # 0
    BY DEF Msgs
  <1>4. ToSet(framed[w]) \subseteq Msgs
    <2> SUFFICES ASSUME NEW m \in ToSet(framed[w]) PROVE m \in Msgs
      OBVIOUS
    <2>1. \E i \in 1 .. Len(framed[w]) : framed[w][i] = m
      BY <1>1, ToSetMember
    <2> QED
      BY <1>2, <2>1
  <1> QED
    BY <1>1, <1>3, <1>4

LEMMA InitInv == Init => IInv
  <1> SUFFICES ASSUME Init PROVE IInv
    OBVIOUS
  <1>1. PICK v \in Wids :
            /\ slot = [w \in Wids |-> [i \in 0 .. QMax - 1 |->
                                        IF w = v /\ i < Before THEN i + 1 ELSE 0]]
            /\ qtail = [w \in Wids |-> IF w = v THEN Before % QMax ELSE 0]
            /\ qcount = [w \in Wids |-> IF w = v THEN Before ELSE 0]
    BY DEF Init
  <1>2. /\ Before \in Nat /\ Before <= NMsgs /\ NMsgs \in Nat
        /\ Before % QMax \in Places /\ 0 \in Places
    BY Sizes, IngressConstants DEF Places
  <1>3. \A w \in Wids, i \in Places :
            slot[w][i] = IF w = v /\ i < Before THEN i + 1 ELSE 0
    BY <1>1 DEF Places
  <1>4. << >> \in Seq(Msgs) /\ ToSet(<< >>) = {} /\ IsInjective(<< >>)
    <2>1. << >> \in Seq(Msgs)
      OBVIOUS
    <2>2. IsInjective(<< >>)
      BY DEF IsInjective
    <2> QED
      BY <2>1, <2>2, ToSetMember DEF ToSet
  <1>5. QueueTypes
    <2>1. slot \in [Wids -> [Places -> 0 .. NMsgs]]
      <3>1. \A w \in Wids, i \in Places : (IF w = v /\ i < Before THEN i + 1 ELSE 0) \in 0 .. NMsgs
        BY <1>2 DEF Places
      <3> QED
        BY <1>1, <3>1 DEF Places
    <2>2. /\ qhead \in [Wids -> Places] /\ qtail \in [Wids -> Places]
          /\ qcount \in [Wids -> Nat]
      BY <1>1, <1>2 DEF Init
    <2>3. /\ ppc \in [Producers -> PushPC] /\ pwid \in [Producers -> Wids]
          /\ pmsg \in [Producers -> 0 .. NMsgs] /\ preg \in [Producers -> Nat]
          /\ \A p \in Producers : ppc[p] = "idle"
      BY <1>2, FirstWid DEF Init, PushPC
    <2>4. /\ dpc \in DrainPC /\ dwid \in Wids /\ dmsg \in 0 .. NMsgs
          /\ dpc # "store"
          /\ nmsg \in 0 .. NMsgs
      BY <1>2, FirstWid DEF Init, DrainPC
    <2>5. framed \in [Wids -> Seq(Msgs)]
      BY <1>4 DEF Init
    <2> QED
      BY <2>1, <2>2, <2>3, <2>4, <2>5 DEF QueueTypes
  <1>6. NoUnderflow
    BY DEF Init, NoUnderflow
  <1>7. \A w \in Wids : ToSet(framed[w]) = {} /\ IsInjective(framed[w])
    BY <1>4 DEF Init
  <1>8. PlaceInv
    BY <1>3, <1>7 DEF PlaceInv, Places
  <1>9. NumberInv
    BY <1>2, <1>3, <1>7 DEF Init, NumberInv, Places
  <1>10. PushInv /\ CarryInv /\ FramedOnce
    BY <1>7 DEF Init, PushInv, CarryInv, Carrying, FramedOnce
  <1> QED
    BY <1>5, <1>6, <1>8, <1>9, <1>10 DEF IInv, MessageInv

----------------------------------------------------------------------------
(* Steps that move no message                                              *)

\* Where nothing is written to a queue.
QueueStays == UNCHANGED <<slot, qhead, qtail, qcount, ppc, pwid, pmsg, preg, nmsg, framed>>

\* The drain goes on with the delivery of its message, or fails.
LEMMA DeliveryStep ==
    ASSUME IInv, QueueStays, dwid' = dwid, dmsg' = dmsg, Carrying,
           dpc' \in {"failed", "copy", "room", "word", "wstore"}
    PROVE  IInv'
  <1>1. QueueTypes'
    BY DEF IInv, QueueTypes, QueueStays, DrainPC
  <1>2. NoUnderflow'
    BY DEF IInv, NoUnderflow, QueueStays, Carrying
  <1>3. PlaceInv'
    BY DEF IInv, MessageInv, PlaceInv, QueueStays, Carrying
  <1>4. PushInv' /\ CarryInv'
    BY DEF IInv, MessageInv, PushInv, CarryInv, QueueStays, Carrying
  <1>5. NumberInv' /\ FramedOnce'
    BY DEF IInv, MessageInv, NumberInv, FramedOnce, QueueStays
  <1> QED
    BY <1>1, <1>2, <1>3, <1>4, <1>5 DEF IInv, MessageInv

\* The drain looks at a queue, or is over.
LEMMA LookStep ==
    ASSUME IInv, QueueStays, dwid' \in Wids, dmsg' \in {0, dmsg},
           dpc \in {"idle", "failed", "look"}, dpc' \in {"idle", "look"}
    PROVE  IInv'
  <1>1. QueueTypes'
    <2>1. 0 \in 0 .. NMsgs
      BY Sizes
    <2>2. dmsg' \in 0 .. NMsgs
      BY <2>1 DEF IInv, QueueTypes
    <2>3. dpc' \in DrainPC
      BY DEF DrainPC
    <2> QED
      BY <2>2, <2>3 DEF IInv, QueueTypes, QueueStays
  <1>2. NoUnderflow'
    BY DEF NoUnderflow
  <1>3. PlaceInv'
    BY DEF IInv, MessageInv, PlaceInv, QueueStays
  <1>4. PushInv' /\ CarryInv'
    BY DEF IInv, MessageInv, PushInv, CarryInv, QueueStays, Carrying
  <1>5. NumberInv' /\ FramedOnce'
    BY DEF IInv, QueueTypes, MessageInv, NumberInv, FramedOnce, QueueStays
  <1> QED
    BY <1>1, <1>2, <1>3, <1>4, <1>5 DEF IInv, MessageInv

\* A worker does nothing to a queue, nor to the drain.
LEMMA WorkerStep ==
    ASSUME IInv, QueueStays, UNCHANGED <<dpc, dwid, dmsg, dreg>>
    PROVE  IInv'
  <1>1. QueueTypes' /\ NoUnderflow'
    BY DEF IInv, QueueTypes, NoUnderflow, QueueStays
  <1>2. PlaceInv' /\ PushInv' /\ CarryInv'
    BY DEF IInv, MessageInv, PlaceInv, PushInv, CarryInv, QueueStays, Carrying
  <1>3. NumberInv' /\ FramedOnce'
    BY DEF IInv, MessageInv, NumberInv, FramedOnce, QueueStays
  <1> QED
    BY <1>1, <1>2, <1>3 DEF IInv, MessageInv

----------------------------------------------------------------------------
(* Pushes                                                                  *)

LEMMA PushCheckStep ==
    ASSUME IInv, NEW p \in Producers, NEW w \in Wids, PushCheck(p, w)
    PROVE  IInv'
  <1> USE DEF IInv, MessageInv
  <1>1. /\ nmsg \in Nat /\ nmsg < NMsgs /\ nmsg' = nmsg + 1 /\ NMsgs \in Nat
        /\ ppc' = [ppc EXCEPT ![p] = "write"]
        /\ pwid' = [pwid EXCEPT ![p] = w]
        /\ pmsg' = [pmsg EXCEPT ![p] = nmsg + 1]
        /\ UNCHANGED <<slot, qhead, qtail, qcount, preg, dpc, dwid, dmsg, dreg, framed>>
    BY Sizes DEF PushCheck, QueueTypes, queueVars, drainVars
  <1>2. /\ \A q \in Producers : ppc'[q] = IF q = p THEN "write" ELSE ppc[q]
        /\ \A q \in Producers : pmsg'[q] = IF q = p THEN nmsg + 1 ELSE pmsg[q]
    BY <1>1 DEF QueueTypes
  <1>3. QueueTypes'
    <2>1. nmsg + 1 \in 0 .. NMsgs
      BY <1>1
    <2>2. /\ ppc' \in [Producers -> PushPC] /\ pwid' \in [Producers -> Wids]
          /\ pmsg' \in [Producers -> 0 .. NMsgs]
      BY <1>1, <2>1 DEF QueueTypes, PushPC
    <2>3. \A q \in Producers : ppc'[q] = "tail" => preg'[q] \in Places
      BY <1>1, <1>2 DEF QueueTypes
    <2> QED
      BY <1>1, <2>1, <2>2, <2>3 DEF QueueTypes
  <1>4. NoUnderflow' /\ FramedOnce' /\ PlaceInv' /\ CarryInv'
    BY <1>1 DEF NoUnderflow, FramedOnce, PlaceInv, CarryInv, Carrying
  <1>5. PushInv'
    <2>1. /\ \A v \in Wids, i \in Places : slot[v][i] # nmsg + 1
          /\ \A v \in Wids : nmsg + 1 \notin ToSet(framed[v])
          /\ \A q \in Producers : pmsg[q] # nmsg + 1
          /\ dmsg # nmsg + 1
      <3>1. \A v \in Wids, i \in Places : slot[v][i] \in Nat /\ slot[v][i] <= nmsg
        BY Sizes DEF QueueTypes, NumberInv
      <3>2. \A q \in Producers : pmsg[q] \in Nat /\ pmsg[q] <= nmsg
        BY Sizes DEF QueueTypes, NumberInv
      <3>3. dmsg <= nmsg /\ dmsg \in Nat
        BY Sizes DEF QueueTypes, NumberInv
      <3>4. \A v \in Wids : nmsg + 1 \notin ToSet(framed[v])
        BY <1>1 DEF NumberInv
      <3> QED
        BY <1>1, <3>1, <3>2, <3>3, <3>4
    <2> QED
      BY <1>1, <1>2, <2>1 DEF PushInv, Carrying
  <1>6. NumberInv'
    <2>1. \A n \in Nat : n <= nmsg => n <= nmsg'
      BY <1>1
    <2>2. \A v \in Wids, i \in Places : slot[v][i] \in Nat
      BY Sizes DEF QueueTypes
    <2>3. \A v \in Wids : \A m \in ToSet(framed[v]) : m \in Nat
      <3>1. \A m \in Msgs : m \in Nat
        BY Sizes DEF Msgs
      <3> QED
        BY <3>1, FramedMessages
    <2>4. \A q \in Producers : pmsg[q] \in Nat
      BY Sizes DEF QueueTypes
    <2>5. dmsg \in Nat /\ nmsg + 1 \in Nat /\ nmsg + 1 <= nmsg'
      BY <1>1, Sizes DEF QueueTypes
    <2> QED
      BY <1>1, <1>2, <2>1, <2>2, <2>3, <2>4, <2>5 DEF NumberInv
  <1> QED
    BY <1>3, <1>4, <1>5, <1>6

LEMMA PushWriteStep ==
    ASSUME IInv, NEW p \in Producers, PushWrite(p)
    PROVE  IInv'
  <1> USE DEF IInv, MessageInv
  <1> DEFINE w == pwid[p]
             t == qtail[w]
             m == pmsg[p]
  <1>1. /\ ppc[p] = "write" /\ w \in Wids /\ t \in Places /\ m \in 0 .. NMsgs
        /\ slot' = [slot EXCEPT ![w][t] = m]
        /\ preg' = [preg EXCEPT ![p] = t]
        /\ ppc' = [ppc EXCEPT ![p] = "tail"]
        /\ UNCHANGED <<qhead, qtail, qcount, pwid, pmsg, dpc, dwid, dmsg, dreg, nmsg, framed>>
    BY DEF PushWrite, QueueTypes, drainVars, ghosts
  <1>2. /\ \A v \in Wids, i \in Places : slot'[v][i] = IF v = w /\ i = t THEN m ELSE slot[v][i]
        /\ slot' \in [Wids -> [Places -> 0 .. NMsgs]]
    BY <1>1 DEF QueueTypes
  <1>3. \A q \in Producers : ppc'[q] = IF q = p THEN "tail" ELSE ppc[q]
    BY <1>1 DEF QueueTypes
  <1>4. QueueTypes'
    <2>1. \A q \in Producers : preg'[q] = IF q = p THEN t ELSE preg[q]
      BY <1>1 DEF QueueTypes
    <2>2. t \in Nat
      BY <1>1, Sizes DEF Places
    <2>3. preg' \in [Producers -> Nat] /\ ppc' \in [Producers -> PushPC]
      BY <1>1, <2>2 DEF QueueTypes, PushPC
    <2> QED
      BY <1>1, <1>2, <1>3, <2>1, <2>3 DEF QueueTypes
  <1>5. /\ m # 0
        /\ \A q \in Producers : ppc[q] = "write" /\ pmsg[q] = m => q = p
        /\ \A v \in Wids, i \in Places : slot[v][i] # m
        /\ \A v \in Wids : m \notin ToSet(framed[v])
        /\ Carrying => dmsg # m
    BY <1>1 DEF PushInv
  <1> HIDE DEF w, t, m
  <1>6. PlaceInv'
    BY <1>1, <1>2, <1>5 DEF PlaceInv
  <1>7. PushInv'
    <2>1. \A q \in Producers : ppc'[q] = "write" => ppc[q] = "write" /\ pmsg[q] # m
      BY <1>3, <1>5
    <2> QED
      BY <1>1, <1>2, <1>3, <2>1 DEF PushInv, Carrying
  <1>8. CarryInv'
    BY <1>1, <1>2, <1>5 DEF CarryInv, Carrying
  <1>9. NumberInv'
    BY <1>1, <1>2 DEF NumberInv, m
  <1>10. NoUnderflow' /\ FramedOnce'
    BY <1>1 DEF NoUnderflow, FramedOnce
  <1> QED
    BY <1>4, <1>6, <1>7, <1>8, <1>9, <1>10

LEMMA PushTailStep ==
    ASSUME IInv, NEW p \in Producers, PushTail(p)
    PROVE  IInv'
  <1> USE DEF IInv, MessageInv
  <1>1. /\ ppc[p] = "tail" /\ pwid[p] \in Wids /\ preg[p] \in Places
        /\ qtail' = [qtail EXCEPT ![pwid[p]] = NextQ(preg[p])]
        /\ preg' = [preg EXCEPT ![p] = qcount[pwid[p]]]
        /\ ppc' = [ppc EXCEPT ![p] = "count"]
        /\ UNCHANGED <<slot, qhead, qcount, pwid, pmsg, dpc, dwid, dmsg, dreg, nmsg, framed>>
    BY DEF PushTail, QueueTypes, drainVars
  <1>2. \A q \in Producers : ppc'[q] = IF q = p THEN "count" ELSE ppc[q]
    BY <1>1 DEF QueueTypes
  <1>3. QueueTypes'
    <2>1. NextQ(preg[p]) \in Places
      BY <1>1, Sizes
    <2>2. qtail' \in [Wids -> Places]
      BY <1>1, <2>1 DEF QueueTypes
    <2>3. preg' \in [Producers -> Nat] /\ ppc' \in [Producers -> PushPC]
      BY <1>1 DEF QueueTypes, PushPC
    <2>4. \A q \in Producers : ppc'[q] = "tail" => preg'[q] \in Places
      BY <1>1, <1>2 DEF QueueTypes
    <2> QED
      BY <1>1, <2>2, <2>3, <2>4 DEF QueueTypes
  <1>4. NoUnderflow' /\ FramedOnce' /\ PlaceInv' /\ CarryInv' /\ NumberInv'
    BY <1>1 DEF NoUnderflow, FramedOnce, PlaceInv, CarryInv, Carrying, NumberInv
  <1>5. PushInv'
    BY <1>1, <1>2 DEF PushInv, Carrying
  <1> QED
    BY <1>3, <1>4, <1>5

LEMMA PushCountStep ==
    ASSUME IInv, NEW p \in Producers, PushCount(p)
    PROVE  IInv'
  <1> USE DEF IInv, MessageInv
  <1>1. /\ ppc[p] = "count" /\ pwid[p] \in Wids /\ preg[p] \in Nat
        /\ qcount' = [qcount EXCEPT ![pwid[p]] = preg[p] + 1]
        /\ ppc' = [ppc EXCEPT ![p] = "idle"]
        /\ pwid' = [pwid EXCEPT ![p] = Least(Wids)]
        /\ pmsg' = [pmsg EXCEPT ![p] = 0] /\ preg' = [preg EXCEPT ![p] = 0]
        /\ UNCHANGED <<slot, qhead, qtail, dpc, dwid, dmsg, dreg, nmsg, framed>>
    BY DEF PushCount, QueueTypes, drainVars
  <1>2. /\ \A q \in Producers : ppc'[q] = IF q = p THEN "idle" ELSE ppc[q]
        /\ \A q \in Producers : pmsg'[q] = IF q = p THEN 0 ELSE pmsg[q]
        /\ \A w \in Wids : qcount'[w] = IF w = pwid[p] THEN preg[p] + 1 ELSE qcount[w]
    BY <1>1 DEF QueueTypes
  <1>3. QueueTypes'
    <2>1. qcount' \in [Wids -> Nat]
      BY <1>1 DEF QueueTypes
    <2>2. /\ ppc' \in [Producers -> PushPC] /\ pwid' \in [Producers -> Wids]
          /\ pmsg' \in [Producers -> 0 .. NMsgs] /\ preg' \in [Producers -> Nat]
      <3>1. 0 \in 0 .. NMsgs
        BY Sizes
      <3> QED
        BY <1>1, <3>1, FirstWid DEF QueueTypes, PushPC
    <2>3. \A q \in Producers : ppc'[q] = "tail" => preg'[q] \in Places
      BY <1>1, <1>2 DEF QueueTypes
    <2> QED
      BY <1>1, <2>1, <2>2, <2>3 DEF QueueTypes
  <1>4. NoUnderflow'
    BY <1>1, <1>2 DEF NoUnderflow, QueueTypes
  <1>5. FramedOnce' /\ PlaceInv' /\ CarryInv'
    BY <1>1 DEF FramedOnce, PlaceInv, CarryInv, Carrying
  <1>6. PushInv'
    BY <1>1, <1>2 DEF PushInv, Carrying
  <1>7. NumberInv'
    BY <1>1, <1>2 DEF NumberInv, QueueTypes
  <1> QED
    BY <1>3, <1>4, <1>5, <1>6, <1>7

----------------------------------------------------------------------------
(* The drain                                                               *)

LEMMA DrainTakeStep ==
    ASSUME IInv, DrainTake
    PROVE  IInv'
  <1> USE DEF IInv, MessageInv
  <1> DEFINE h == qhead[dwid]
  <1>1. /\ dpc = "look" /\ dwid \in Wids /\ h \in Places /\ qcount[dwid] > 0
        /\ dmsg' = slot[dwid][h]
        /\ dpc' = IF dmsg' = 0 THEN "consume" ELSE "alloc"
        /\ QueueStays /\ UNCHANGED <<dwid, dreg>>
    BY DEF DrainTake, QueueTypes, QueueStays, queueVars, pushVars, ghosts
  <1>2. dmsg' \in 0 .. NMsgs
    BY <1>1 DEF QueueTypes
  <1>3. QueueTypes'
    BY <1>1, <1>2 DEF QueueTypes, QueueStays, DrainPC
  <1>4. NoUnderflow'
    BY <1>1 DEF NoUnderflow, QueueStays, QueueTypes
  <1>5. /\ \A w \in Wids : dmsg' \notin ToSet(framed[w])
        /\ \A p \in Producers : ppc[p] = "write" => pmsg[p] # dmsg'
    BY <1>1 DEF PlaceInv, PushInv
  <1>6. dmsg' # 0 => \A w \in Wids, i \in Places : slot[w][i] = dmsg' => w = dwid /\ i = qhead[w]
    BY <1>1 DEF PlaceInv
  <1>7. PlaceInv'
    BY <1>1 DEF PlaceInv, QueueStays
  <1>8. PushInv' /\ CarryInv'
    BY <1>1, <1>5, <1>6 DEF PushInv, CarryInv, QueueStays, Carrying
  <1>9. NumberInv' /\ FramedOnce'
    BY <1>1 DEF NumberInv, FramedOnce, QueueStays
  <1> QED
    BY <1>3, <1>4, <1>7, <1>8, <1>9

\* The last of the four words: the message is framed.
LEMMA FrameStep ==
    ASSUME IInv, DrainWordStore, ~(dword < Words)
    PROVE  IInv'
  <1> USE DEF IInv, MessageInv
  <1>1. /\ dpc = "wstore" /\ dwid \in Wids /\ dpc' = "wake" /\ dreg' = 0
        /\ framed' = [framed EXCEPT ![dwid] = Append(@, dmsg)]
        /\ UNCHANGED <<slot, qhead, qtail, qcount, ppc, pwid, pmsg, preg, dwid, dmsg, nmsg>>
    BY DEF DrainWordStore, QueueTypes, queueVars, pushVars
  <1>2. dmsg # 0 /\ \A w \in Wids : dmsg \notin ToSet(framed[w])
    BY <1>1 DEF CarryInv, Carrying
  <1>3. dmsg \in Msgs
    BY <1>2, Sizes DEF QueueTypes, Msgs
  <1> DEFINE s == Append(framed[dwid], dmsg)
  <1>4. s \in Seq(Msgs) /\ ToSet(s) = ToSet(framed[dwid]) \union {dmsg} /\ IsInjective(s)
    BY <1>1, <1>2, <1>3, AppendMembers DEF QueueTypes, FramedOnce
  <1>5. \A w \in Wids : framed'[w] = IF w = dwid THEN s ELSE framed[w]
    BY <1>1 DEF QueueTypes
  <1>6. QueueTypes'
    <2>1. framed' \in [Wids -> Seq(Msgs)]
      BY <1>1, <1>4 DEF QueueTypes
    <2> QED
      BY <1>1, <2>1 DEF QueueTypes, DrainPC
  <1> HIDE DEF s
  <1>7. NoUnderflow'
    BY <1>1 DEF NoUnderflow
  <1>8. FramedOnce'
    BY <1>4, <1>5 DEF FramedOnce
  <1>9. PlaceInv'
    <2>1. ASSUME NEW v \in Wids, NEW w \in Wids, NEW i \in Places, slot[v][i] \in ToSet(framed'[w])
          PROVE  v = dwid /\ i = qhead[v]
      <3>1. slot[v][i] \notin ToSet(framed[w])
        BY <1>1 DEF PlaceInv
      <3>2. slot[v][i] = dmsg
        BY <1>4, <1>5, <2>1, <3>1
      <3> QED
        BY <1>1, <3>2 DEF CarryInv, Carrying
    <2> QED
      BY <1>1, <2>1 DEF PlaceInv
  <1>10. PushInv' /\ CarryInv'
    <2>1. \A p \in Producers : ppc[p] = "write" => \A w \in Wids : pmsg[p] \notin ToSet(framed'[w])
      BY <1>1, <1>4, <1>5 DEF PushInv, Carrying
    <2> QED
      BY <1>1, <2>1 DEF PushInv, CarryInv, Carrying
  <1>11. NumberInv'
    BY <1>1, <1>4, <1>5 DEF NumberInv
  <1> QED
    BY <1>6, <1>7, <1>8, <1>9, <1>10, <1>11

LEMMA DrainWakeStep ==
    ASSUME IInv, DrainWake
    PROVE  IInv'
  <1> USE DEF IInv, MessageInv
  <1>1. /\ QueueStays /\ UNCHANGED <<dwid, dmsg, dreg>>
        /\ dpc = "wake" /\ dpc' = "consume"
    BY DEF DrainWake, QueueStays, queueVars, pushVars, ghosts
  <1>2. QueueTypes' /\ NoUnderflow'
    BY <1>1 DEF QueueTypes, NoUnderflow, QueueStays, DrainPC
  <1>3. PlaceInv' /\ PushInv' /\ CarryInv'
    BY <1>1 DEF PlaceInv, PushInv, CarryInv, QueueStays, Carrying
  <1>4. NumberInv' /\ FramedOnce'
    BY <1>1 DEF NumberInv, FramedOnce, QueueStays
  <1> QED
    BY <1>2, <1>3, <1>4

\* The message leaves the queue, and no message that was framed is left there.
LEMMA DrainConsumeStep ==
    ASSUME IInv, DrainConsume
    PROVE  IInv'
  <1> USE DEF IInv, MessageInv
  <1> DEFINE h == qhead[dwid]
  <1>1. /\ dpc = "consume" /\ dpc' = "store" /\ dwid \in Wids /\ h \in Places
        /\ slot' = [slot EXCEPT ![dwid][h] = 0]
        /\ qhead' = [qhead EXCEPT ![dwid] = NextQ(@)]
        /\ dreg' = qcount[dwid]
        /\ UNCHANGED <<qtail, qcount, ppc, pwid, pmsg, preg, dwid, dmsg, nmsg, framed>>
    BY DEF DrainConsume, QueueTypes, pushVars
  <1>2. \A v \in Wids, i \in Places : slot'[v][i] = IF v = dwid /\ i = h THEN 0 ELSE slot[v][i]
    BY <1>1 DEF QueueTypes
  <1>3. QueueTypes'
    <2>1. 0 \in 0 .. NMsgs
      BY Sizes
    <2>2. slot' \in [Wids -> [Places -> 0 .. NMsgs]]
      BY <1>1, <2>1 DEF QueueTypes
    <2>3. NextQ(h) \in Places
      BY <1>1, Sizes
    <2>4. qhead' \in [Wids -> Places]
      BY <1>1, <2>3 DEF QueueTypes
    <2> QED
      BY <1>1, <2>2, <2>4 DEF QueueTypes, DrainPC
  <1>4. NoUnderflow'
    BY <1>1 DEF NoUnderflow
  <1>5. PlaceInv'
    <2>1. \A v, w \in Wids, i \in Places : slot'[v][i] \notin ToSet(framed[w])
      BY <1>1, <1>2, FramedMessages DEF PlaceInv
    <2>2. \A v, w \in Wids, i, j \in Places :
            slot'[v][i] # 0 /\ slot'[v][i] = slot'[w][j] => v = w /\ i = j
      BY <1>2 DEF PlaceInv
    <2> QED
      BY <1>1, <2>1, <2>2 DEF PlaceInv
  <1>6. PushInv' /\ CarryInv'
    BY <1>1, <1>2 DEF PushInv, CarryInv, Carrying
  <1>7. NumberInv'
    <2>1. 0 <= nmsg
      BY Sizes DEF QueueTypes
    <2> QED
      BY <1>1, <1>2, <2>1 DEF NumberInv
  <1>8. FramedOnce'
    BY <1>1 DEF FramedOnce
  <1> QED
    BY <1>3, <1>4, <1>5, <1>6, <1>7, <1>8

LEMMA DrainStoreStep ==
    ASSUME IInv, DrainStore
    PROVE  IInv'
  <1> USE DEF IInv, MessageInv
  <1>1. /\ dpc = "store" /\ dpc' = "look" /\ dwid \in Wids /\ dreg \in Nat /\ dreg >= 1
        /\ qcount' = [qcount EXCEPT ![dwid] = dreg - 1]
        /\ dmsg' = 0 /\ dreg' = 0
        /\ UNCHANGED <<slot, qhead, qtail, ppc, pwid, pmsg, preg, dwid, nmsg, framed>>
    BY DEF DrainStore, QueueTypes, NoUnderflow, pushVars, ghosts
  <1>2. QueueTypes'
    <2>1. qcount' \in [Wids -> Nat]
      BY <1>1 DEF QueueTypes
    <2>2. dmsg' \in 0 .. NMsgs
      BY <1>1, Sizes
    <2> QED
      BY <1>1, <2>1, <2>2 DEF QueueTypes, DrainPC
  <1>3. NoUnderflow' /\ FramedOnce' /\ PlaceInv' /\ CarryInv' /\ PushInv'
    BY <1>1 DEF NoUnderflow, FramedOnce, PlaceInv, CarryInv, PushInv, Carrying
  <1>4. NumberInv'
    <2>1. 0 <= nmsg
      BY Sizes DEF QueueTypes
    <2> QED
      BY <1>1, <2>1 DEF NumberInv
  <1> QED
    BY <1>2, <1>3, <1>4

LEMMA DrainStep ==
    ASSUME IInv, Drain
    PROVE  IInv'
  <1> USE DEF QueueStays, queueVars, pushVars, ghosts
  <1>1. CASE DrainStart
    <2>1. Least(Wids) \in Wids
      BY FirstWid
    <2> QED
      BY <1>1, <2>1, LookStep DEF DrainStart
  <1>2. CASE DrainNext
    <2>1. Least(Wids) \in Wids
      BY FirstWid
    <2>2. Above(dwid) # {} => Least(Above(dwid)) \in Wids
      BY LeastWid DEF Above
    <2>3. dwid' \in Wids /\ dpc' \in {"idle", "look"}
      BY <1>2, <2>1, <2>2 DEF DrainNext
    <2> QED
      BY <1>2, <2>3, LookStep DEF DrainNext
  <1>3. CASE DrainAlloc
    BY <1>3, DeliveryStep DEF DrainAlloc, Carrying
  <1>4. CASE DrainCopy
    BY <1>4, DeliveryStep DEF DrainCopy, Carrying
  <1>5. CASE DrainRoom
    BY <1>5, DeliveryStep DEF DrainRoom, Carrying
  <1>6. CASE DrainWord
    BY <1>6, DeliveryStep DEF DrainWord, Carrying
  <1>7. CASE DrainWordStore /\ dword < Words
    BY <1>7, DeliveryStep DEF DrainWordStore, Carrying
  <1>8. CASE DrainWordStore /\ ~(dword < Words)
    BY <1>8, FrameStep
  <1> QED
    BY <1>1, <1>2, <1>3, <1>4, <1>5, <1>6, <1>7, <1>8, DrainTakeStep, DrainWakeStep,
       DrainConsumeStep, DrainStoreStep DEF Drain

----------------------------------------------------------------------------
(* Theorems                                                                *)

LEMMA TickStep ==
    ASSUME IInv, NEW w \in Inited, Tick(w)
    PROVE  IInv'
  <1>1. QueueStays /\ UNCHANGED <<dpc, dwid, dmsg, dreg>>
    BY DEF Tick, WaitData, WaitRelease, FreeGeneration, WaitPark, WaitRecheck, Pop, PopStore,
           Body, BodyFree, BodyEnd, QueueStays, queueVars, pushVars, drainVars, ghosts
  <1> QED
    BY <1>1, WorkerStep

LEMMA NextInv == IInv /\ [Next]_vars => IInv'
  <1> SUFFICES ASSUME IInv, [Next]_vars PROVE IInv'
    OBVIOUS
  <1>1. ASSUME NEW p \in Producers, Push(p) PROVE IInv'
    BY <1>1, PushCheckStep, PushWriteStep, PushTailStep, PushCountStep DEF Push
  <1>2. CASE Drain
    BY <1>2, DrainStep
  <1>3. ASSUME NEW w \in Inited, Tick(w) PROVE IInv'
    BY <1>3, TickStep
  <1>4. CASE UNCHANGED vars
    <2>1. QueueStays /\ UNCHANGED <<dpc, dwid, dmsg, dreg>>
      BY <1>4 DEF vars, QueueStays, queueVars, pushVars, drainVars, ghosts
    <2> QED
      BY <2>1, WorkerStep
  <1> QED
    BY <1>1, <1>2, <1>3, <1>4 DEF Next

\* The inductive invariant of the queues: where a message can be, whatever updates overlap.
THEOREM Invariance == Spec => []IInv
  <1>1. Init => IInv
    BY InitInv
  <1>2. IInv /\ [Next]_vars => IInv'
    BY NextInv
  <1> QED
    BY <1>1, <1>2, PTL DEF Spec

\* However the unlocked updates of count overlap, the drain never takes it below zero
\* (q->count-- of epa_kernel_drain_ingress).
THEOREM NoUnderflowTheorem == Spec => []NoUnderflow
  <1>1. IInv => NoUnderflow
    BY DEF IInv
  <1> QED
    BY <1>1, Invariance, PTL

\* However pushes, failed deliveries and retries overlap, no message goes into a ring twice.
THEOREM FramedOnceTheorem == Spec => []FramedOnce
  <1>1. IInv => FramedOnce
    BY DEF IInv, MessageInv
  <1> QED
    BY <1>1, Invariance, PTL

----------------------------------------------------------------------------
(* A queue on which nothing has overlapped                                 *)

\* The place k behind h in the ring of a queue.
Pos(h, k) == (h + k) % QMax

\* The number of messages that are accepted and not gone.
Pend(w) == Len(log[w]) - Gone(w)

Pushes(p, w) == ppc[p] # "idle" /\ pwid[p] = w
Counting(w) == \E p \in Producers : ppc[p] = "count" /\ pwid[p] = w
Storing(w) == dwid = w /\ dpc = "store"

\* Head, tail and count agree about the messages that are there.
RingOf(w) ==
    /\ log[w] \in Seq(Msgs) /\ Gone(w) \in Nat /\ Pend(w) \in 0 .. QMax
    /\ qcount[w] = IF Storing(w) THEN Pend(w) + 1 ELSE Pend(w)
    /\ \A i \in 1 .. Pend(w) : slot[w][Pos(qhead[w], i - 1)] = log[w][Gone(w) + i]
    /\ qtail[w] = Pos(qhead[w], IF Counting(w) THEN Pend(w) + 1 ELSE Pend(w))

\* One producer at most is inside a push, there is room for its message, and what it has loaded
\* is still true.
PushOf(p, w) ==
    Pushes(p, w) =>
        /\ \A q \in Producers : Pushes(q, w) => q = p
        /\ Pend(w) < QMax /\ pmsg[p] \in Msgs
        /\ ppc[p] = "tail" => preg[p] = qtail[w] /\ slot[w][qtail[w]] = pmsg[p]
        /\ ppc[p] = "count" => /\ ~Storing(w) /\ preg[p] = qcount[w]
                               /\ slot[w][Pos(qhead[w], Pend(w))] = pmsg[p]

\* What the drain has in hand is the first of them.
DrainOf(w) ==
    dwid = w =>
        /\ Carrying => Pend(w) >= 1 /\ dmsg = log[w][Gone(w) + 1]
        /\ dpc \in {"wake", "consume"} => Pend(w) >= 1
        /\ dpc = "store" => dreg = qcount[w]

QueueOf(w) == RingOf(w) /\ DrainOf(w) /\ \A p \in Producers : PushOf(p, w)

Exact == \A w \in Wids : QueueOf(w)

\* What the properties of pushes and drains hold under until two updates overlap.
ExactInv == log \in [Wids -> Seq(Nat)] /\ ("queue" \notin raced => Exact)

LEMMA Wraps ==
    ASSUME NEW x \in Nat
    PROVE  /\ x < QMax => x % QMax = x
           /\ QMax <= x /\ x < 2 * QMax => x % QMax = x - QMax
  BY Sizes

LEMMA Positions ==
    ASSUME NEW h \in Places
    PROVE  /\ Pos(h, 0) = h
           /\ \A k \in 0 .. QMax : Pos(h, k) \in Places
           /\ \A k \in 0 .. QMax - 1 : NextQ(Pos(h, k)) = Pos(h, k + 1)
           /\ \A k \in 0 .. QMax - 1 : Pos(NextQ(h), k) = Pos(h, k + 1)
           /\ \A j, k \in 0 .. QMax - 1 : Pos(h, j) = Pos(h, k) => j = k
  <1>1. QMax \in Nat /\ QMax # 0 /\ h \in Nat /\ h < QMax
    BY Sizes DEF Places
  <1>2. ASSUME NEW i \in Places
        PROVE  NextQ(i) = IF i + 1 < QMax THEN i + 1 ELSE 0
    <2>1. i \in Nat /\ i + 1 \in Nat /\ i + 1 <= QMax
      BY <1>1 DEF Places
    <2> QED
      BY <1>1, <2>1, Wraps DEF NextQ
  <1>3. ASSUME NEW i \in Places, NEW k \in 0 .. QMax
        PROVE  Pos(i, k) = IF i + k < QMax THEN i + k ELSE i + k - QMax
    <2>1. i \in Nat /\ k \in Nat /\ i + k \in Nat /\ i + k < 2 * QMax
      BY <1>1 DEF Places
    <2> QED
      BY <1>1, <2>1, Wraps DEF Pos
  <1>4. \A i \in Places : NextQ(i) \in Places
    BY Sizes
  <1>5. Pos(h, 0) = h /\ \A k \in 0 .. QMax : Pos(h, k) \in Places
    BY <1>1, <1>3 DEF Places
  <1>6. ASSUME NEW k \in 0 .. QMax - 1
        PROVE  NextQ(Pos(h, k)) = Pos(h, k + 1) /\ Pos(NextQ(h), k) = Pos(h, k + 1)
    <2>1. k \in 0 .. QMax /\ k + 1 \in 0 .. QMax /\ k \in Nat
      BY <1>1
    <2>2. /\ Pos(h, k) = IF h + k < QMax THEN h + k ELSE h + k - QMax
          /\ Pos(h, k + 1) = IF h + (k + 1) < QMax THEN h + (k + 1) ELSE h + (k + 1) - QMax
      BY <1>3, <2>1
    <2>3. /\ Pos(h, k) \in Places
          /\ NextQ(Pos(h, k)) = IF Pos(h, k) + 1 < QMax THEN Pos(h, k) + 1 ELSE 0
      BY <1>2, <1>5, <2>1
    <2>4. NextQ(h) = IF h + 1 < QMax THEN h + 1 ELSE 0
      BY <1>2
    <2>5. Pos(NextQ(h), k) = IF NextQ(h) + k < QMax THEN NextQ(h) + k ELSE NextQ(h) + k - QMax
      BY <1>3, <1>4, <2>1
    <2> QED
      BY <1>1, <2>1, <2>2, <2>3, <2>4, <2>5
  <1>7. ASSUME NEW j \in 0 .. QMax - 1, NEW k \in 0 .. QMax - 1, Pos(h, j) = Pos(h, k)
        PROVE  j = k
    <2>1. j \in 0 .. QMax /\ k \in 0 .. QMax
      BY <1>1
    <2> QED
      BY <1>1, <1>3, <1>7, <2>1
  <1> QED
    BY <1>5, <1>6, <1>7

\* A queue that a step leaves alone, and its pushes; the drain may go on with it.
LEMMA SameQueue ==
    ASSUME NEW w \in Wids, QueueOf(w), log'[w] = log[w], slot'[w] = slot[w],
           qhead'[w] = qhead[w], qtail'[w] = qtail[w], qcount'[w] = qcount[w],
           Gone(w)' = Gone(w), Storing(w)' <=> Storing(w),
           \A p \in Producers :
                /\ Pushes(p, w)' <=> Pushes(p, w)
                /\ Pushes(p, w) => ppc'[p] = ppc[p] /\ pmsg'[p] = pmsg[p] /\ preg'[p] = preg[p],
           DrainOf(w)'
    PROVE  QueueOf(w)'
  <1>1. Pend(w)' = Pend(w)
    BY DEF Pend
  <1>2. Counting(w)' <=> Counting(w)
    BY DEF Counting, Pushes
  <1>3. RingOf(w)'
    BY <1>1, <1>2 DEF QueueOf, RingOf
  <1>4. \A p \in Producers : PushOf(p, w)'
    BY <1>1 DEF QueueOf, PushOf
  <1> QED
    BY <1>3, <1>4 DEF QueueOf

\* What the drain has in hand stays the first message when another joins the end.
LEMMA DrainStays ==
    ASSUME NEW w \in Wids, RingOf(w), DrainOf(w), Gone(w)' = Gone(w), Pend(w)' \in Nat,
           Pend(w)' >= Pend(w), qcount'[w] = qcount[w] \/ ~Storing(w),
           Pend(w) >= 1 => log'[w][Gone(w) + 1] = log[w][Gone(w) + 1],
           UNCHANGED <<dwid, dpc, dmsg, dreg>>
    PROVE  DrainOf(w)'
  BY DEF DrainOf, Carrying, Storing, RingOf

LEMMA NotCounting ==
    ASSUME NEW w \in Wids, QueueOf(w), NEW p \in Producers, Pushes(p, w), ppc[p] # "count"
    PROVE  ~Counting(w) /\ qtail[w] = Pos(qhead[w], Pend(w))
  <1>1. ~Counting(w)
    BY DEF QueueOf, PushOf, Counting, Pushes
  <1> QED
    BY <1>1 DEF QueueOf, RingOf

\* A push has room, and its queue to itself.
LEMMA Alone ==
    ASSUME NEW w \in Wids, QueueOf(w), NEW p \in Producers, Pushes(p, w)
    PROVE  /\ Pend(w) \in 0 .. QMax - 1 /\ Pend(w) \in Nat /\ Pend(w) < QMax
           /\ pmsg[p] \in Msgs
           /\ \A q \in Producers : Pushes(q, w) => q = p
  <1>1. Pend(w) \in 0 .. QMax
    BY DEF QueueOf, RingOf
  <1>2. /\ Pend(w) < QMax /\ pmsg[p] \in Msgs
        /\ \A q \in Producers : Pushes(q, w) => q = p
    BY DEF QueueOf, PushOf
  <1> QED
    BY <1>1, <1>2, Sizes

LEMMA CheckExact ==
    ASSUME IInv, Exact, NEW p \in Producers, NEW v \in Wids, PushCheck(p, v), "queue" \notin raced'
    PROVE  Exact'
  <1>1. /\ ppc[p] = "idle" /\ nmsg < NMsgs /\ qcount[v] < QMax /\ ~Pushing(v)
        /\ ppc' = [ppc EXCEPT ![p] = "write"] /\ pwid' = [pwid EXCEPT ![p] = v]
        /\ pmsg' = [pmsg EXCEPT ![p] = nmsg + 1]
        /\ UNCHANGED <<slot, qhead, qtail, qcount, preg, dpc, dwid, dmsg, dreg, log, framed>>
    BY DEF PushCheck, queueVars, drainVars
  <1>2. /\ \A q \in Producers : ppc'[q] = IF q = p THEN "write" ELSE ppc[q]
        /\ \A q \in Producers : pwid'[q] = IF q = p THEN v ELSE pwid[q]
        /\ \A q \in Producers : pmsg'[q] = IF q = p THEN nmsg + 1 ELSE pmsg[q]
    BY <1>1 DEF IInv, QueueTypes
  <1>3. \A w \in Wids : Gone(w)' = Gone(w) /\ Pend(w)' = Pend(w) /\ (Storing(w)' <=> Storing(w))
    BY <1>1 DEF Gone, Pend, Storing
  <1>4. \A w \in Wids : DrainOf(w)'
    BY <1>1, <1>3 DEF Exact, QueueOf, DrainOf, Carrying
  <1>5. ASSUME NEW w \in Wids, w # v PROVE QueueOf(w)'
    BY <1>1, <1>2, <1>3, <1>4, <1>5, SameQueue DEF Exact, Pushes
  <1>6. RingOf(v)'
    <2>1. Counting(v)' <=> Counting(v)
      BY <1>1, <1>2 DEF Counting
    <2> QED
      BY <1>1, <1>3, <2>1 DEF Exact, QueueOf, RingOf
  <1>7. ASSUME NEW q \in Producers PROVE PushOf(q, v)'
    <2>1. \A r \in Producers : Pushes(r, v)' => r = p
      BY <1>1, <1>2 DEF Pushes, Pushing
    <2>2. Pend(v) < QMax /\ Pend(v) \in Nat
      <3>1. Pend(v) \in 0 .. QMax /\ (qcount[v] = Pend(v) \/ qcount[v] = Pend(v) + 1)
        BY DEF Exact, QueueOf, RingOf
      <3> QED
        BY <1>1, <3>1, Sizes
    <2>3. nmsg + 1 \in Msgs
      BY <1>1, Sizes DEF IInv, QueueTypes, Msgs
    <2> QED
      BY <1>2, <1>3, <2>1, <2>2, <2>3 DEF PushOf
  <1>8. QueueOf(v)'
    BY <1>4, <1>6, <1>7 DEF QueueOf
  <1> QED
    BY <1>5, <1>8 DEF Exact

LEMMA WriteExact ==
    ASSUME IInv, Exact, NEW p \in Producers, PushWrite(p)
    PROVE  Exact'
  <1>0. PICK v \in Wids : v = pwid[p]
    BY DEF IInv, QueueTypes
  <1> DEFINE t == qtail[v]
             h == qhead[v]
  <1>1. /\ ppc[p] = "write" /\ v \in Wids /\ t \in Places /\ h \in Places
        /\ slot' = [slot EXCEPT ![v][t] = pmsg[p]] /\ preg' = [preg EXCEPT ![p] = t]
        /\ ppc' = [ppc EXCEPT ![p] = "tail"]
        /\ UNCHANGED <<qhead, qtail, qcount, pwid, pmsg, dpc, dwid, dmsg, dreg, log, framed>>
    BY <1>0 DEF PushWrite, drainVars, ghosts, IInv, QueueTypes
  <1>2. /\ \A q \in Producers : ppc'[q] = IF q = p THEN "tail" ELSE ppc[q]
        /\ \A q \in Producers : preg'[q] = IF q = p THEN t ELSE preg[q]
        /\ \A w \in Wids : w # v => slot'[w] = slot[w]
        /\ \A i \in Places : slot'[v][i] = IF i = t THEN pmsg[p] ELSE slot[v][i]
    BY <1>1 DEF IInv, QueueTypes
  <1>3. \A w \in Wids : Gone(w)' = Gone(w) /\ Pend(w)' = Pend(w) /\ (Storing(w)' <=> Storing(w))
    BY <1>1 DEF Gone, Pend, Storing
  <1>4. \A w \in Wids : DrainOf(w)'
    BY <1>1, <1>3 DEF Exact, QueueOf, DrainOf, Carrying
  <1>5. ASSUME NEW w \in Wids, w # v PROVE QueueOf(w)'
    BY <1>0, <1>1, <1>2, <1>3, <1>4, <1>5, SameQueue DEF Exact, Pushes
  <1>6. QueueOf(v) /\ Pushes(p, v) /\ ~Counting(v) /\ t = Pos(h, Pend(v))
    BY <1>0, <1>1, NotCounting DEF Exact, Pushes
  <1>7. Pend(v) \in 0 .. QMax - 1 /\ \A q \in Producers : Pushes(q, v) => q = p
    BY <1>6, Alone
  <1> HIDE DEF t, h
  <1>8. RingOf(v)'
    <2>1. ~Counting(v)'
      BY <1>0, <1>1, <1>2, <1>6 DEF Counting
    <2>2. ASSUME NEW i \in 1 .. Pend(v)
          PROVE  slot'[v][Pos(h, i - 1)] = slot[v][Pos(h, i - 1)]
      <3>1. i - 1 \in 0 .. QMax - 1 /\ i - 1 \in 0 .. QMax /\ i - 1 # Pend(v)
        BY <1>7, Sizes
      <3>2. Pos(h, i - 1) \in Places /\ Pos(h, i - 1) # t
        BY <1>1, <1>6, <1>7, <3>1, Positions
      <3> QED
        BY <1>2, <3>2
    <2>3. RingOf(v)
      BY <1>6 DEF QueueOf
    <2> QED
      BY <1>1, <1>3, <1>6, <2>1, <2>2, <2>3 DEF RingOf, h
  <1>9. ASSUME NEW q \in Producers PROVE PushOf(q, v)'
    <2>1. \A r \in Producers : Pushes(r, v)' => r = p
      BY <1>0, <1>1, <1>2, <1>7 DEF Pushes
    <2>2. pmsg[p] \in Msgs
      BY <1>6 DEF QueueOf, PushOf
    <2>3. slot'[v][t] = pmsg[p]
      BY <1>1, <1>2
    <2> QED
      BY <1>1, <1>2, <1>3, <1>7, <2>1, <2>2, <2>3, Sizes DEF PushOf, t
  <1>10. QueueOf(v)'
    BY <1>1, <1>4, <1>8, <1>9 DEF QueueOf
  <1> QED
    BY <1>5, <1>10 DEF Exact

LEMMA TailExact ==
    ASSUME IInv, Exact, NEW p \in Producers, PushTail(p), "queue" \notin raced'
    PROVE  Exact'
  <1>0. PICK v \in Wids : v = pwid[p]
    BY DEF IInv, QueueTypes
  <1> DEFINE h == qhead[v]
  <1>1. /\ ppc[p] = "tail" /\ v \in Wids /\ h \in Places /\ ~Storing(v)
        /\ qtail' = [qtail EXCEPT ![v] = NextQ(preg[p])]
        /\ preg' = [preg EXCEPT ![p] = qcount[v]] /\ ppc' = [ppc EXCEPT ![p] = "count"]
        /\ UNCHANGED <<slot, qhead, qcount, pwid, pmsg, dpc, dwid, dmsg, dreg, log, framed>>
    BY <1>0 DEF PushTail, drainVars, IInv, QueueTypes, Storing
  <1>2. /\ \A q \in Producers : ppc'[q] = IF q = p THEN "count" ELSE ppc[q]
        /\ \A q \in Producers : preg'[q] = IF q = p THEN qcount[v] ELSE preg[q]
        /\ \A w \in Wids : qtail'[w] = IF w = v THEN NextQ(preg[p]) ELSE qtail[w]
    BY <1>1 DEF IInv, QueueTypes
  <1>3. \A w \in Wids : Gone(w)' = Gone(w) /\ Pend(w)' = Pend(w) /\ (Storing(w)' <=> Storing(w))
    BY <1>1 DEF Gone, Pend, Storing
  <1>4. \A w \in Wids : DrainOf(w)'
    BY <1>1, <1>3 DEF Exact, QueueOf, DrainOf, Carrying
  <1>5. ASSUME NEW w \in Wids, w # v PROVE QueueOf(w)'
    BY <1>0, <1>1, <1>2, <1>3, <1>4, <1>5, SameQueue DEF Exact, Pushes
  <1>6. QueueOf(v) /\ Pushes(p, v) /\ qtail[v] = Pos(h, Pend(v))
    BY <1>0, <1>1, NotCounting DEF Exact, Pushes
  <1>7. /\ Pend(v) \in 0 .. QMax - 1 /\ \A q \in Producers : Pushes(q, v) => q = p
        /\ preg[p] = qtail[v] /\ slot[v][qtail[v]] = pmsg[p] /\ pmsg[p] \in Msgs
    <2>1. preg[p] = qtail[v] /\ slot[v][qtail[v]] = pmsg[p]
      BY <1>1, <1>6 DEF QueueOf, PushOf
    <2> QED
      BY <1>6, <2>1, Alone
  <1> HIDE DEF h
  <1>8. RingOf(v)'
    <2>1. Counting(v)'
      BY <1>0, <1>1, <1>2 DEF Counting
    <2>2. qtail'[v] = Pos(h, Pend(v) + 1)
      BY <1>1, <1>2, <1>6, <1>7, Positions
    <2>3. RingOf(v)
      BY <1>6 DEF QueueOf
    <2> QED
      BY <1>1, <1>3, <2>1, <2>2, <2>3 DEF RingOf, h
  <1>9. ASSUME NEW q \in Producers PROVE PushOf(q, v)'
    <2>1. \A r \in Producers : Pushes(r, v)' => r = p
      BY <1>0, <1>1, <1>2, <1>7 DEF Pushes
    <2>2. slot'[v][Pos(qhead'[v], Pend(v)')] = pmsg'[p]
      BY <1>1, <1>3, <1>6, <1>7 DEF h
    <2>3. Pend(v)' < QMax
      BY <1>1, <1>3, <1>7, Sizes
    <2>4. ~Storing(v)' /\ preg'[p] = qcount'[v] /\ pmsg'[p] \in Msgs /\ ppc'[p] = "count"
      BY <1>1, <1>2, <1>3, <1>7
    <2> QED
      BY <2>1, <2>2, <2>3, <2>4 DEF PushOf
  <1>10. QueueOf(v)'
    BY <1>1, <1>4, <1>8, <1>9 DEF QueueOf
  <1> QED
    BY <1>5, <1>10 DEF Exact

LEMMA CountExact ==
    ASSUME IInv, log \in [Wids -> Seq(Nat)], Exact, NEW p \in Producers, PushCount(p)
    PROVE  Exact'
  <1>0. PICK v \in Wids : v = pwid[p]
    BY DEF IInv, QueueTypes
  <1> DEFINE h == qhead[v]
             m == pmsg[p]
  <1>1. /\ ppc[p] = "count" /\ h \in Places
        /\ qcount' = [qcount EXCEPT ![v] = preg[p] + 1] /\ ppc' = [ppc EXCEPT ![p] = "idle"]
        /\ log' = [log EXCEPT ![v] = Append(@, m)]
        /\ pwid' = [pwid EXCEPT ![p] = Least(Wids)]
        /\ pmsg' = [pmsg EXCEPT ![p] = 0] /\ preg' = [preg EXCEPT ![p] = 0]
        /\ UNCHANGED <<slot, qhead, qtail, dpc, dwid, dmsg, dreg, framed>>
    BY <1>0 DEF PushCount, drainVars, IInv, QueueTypes
  <1>2. /\ \A q \in Producers : ppc'[q] = IF q = p THEN "idle" ELSE ppc[q]
        /\ \A q \in Producers : q # p => pwid'[q] = pwid[q] /\ pmsg'[q] = pmsg[q] /\ preg'[q] = preg[q]
        /\ \A w \in Wids : qcount'[w] = IF w = v THEN preg[p] + 1 ELSE qcount[w]
        /\ \A w \in Wids : log'[w] = IF w = v THEN Append(log[v], m) ELSE log[w]
    BY <1>1 DEF IInv, QueueTypes
  <1>3. \A w \in Wids : Gone(w)' = Gone(w) /\ (Storing(w)' <=> Storing(w))
    BY <1>1 DEF Gone, Storing
  <1>4. ASSUME NEW w \in Wids, w # v PROVE QueueOf(w)'
    <2>1. Pend(w)' = Pend(w)
      BY <1>2, <1>3, <1>4 DEF Pend
    <2>2. DrainOf(w)'
      BY <1>1, <1>2, <1>3, <1>4, <2>1 DEF Exact, QueueOf, DrainOf, Carrying
    <2>3. \A q \in Producers :
            /\ Pushes(q, w)' <=> Pushes(q, w)
            /\ Pushes(q, w) => ppc'[q] = ppc[q] /\ pmsg'[q] = pmsg[q] /\ preg'[q] = preg[q]
      BY <1>0, <1>1, <1>2, <1>4 DEF Pushes
    <2> QED
      BY <1>1, <1>2, <1>3, <1>4, <2>2, <2>3, SameQueue DEF Exact
  <1>5. QueueOf(v) /\ RingOf(v) /\ DrainOf(v) /\ Pushes(p, v) /\ Counting(v)
    BY <1>0, <1>1 DEF Exact, QueueOf, Pushes, Counting
  <1>6. /\ Pend(v) \in Nat /\ Pend(v) < QMax /\ m \in Msgs
        /\ \A q \in Producers : Pushes(q, v) => q = p
    BY <1>5, Alone
  <1>7. ~Storing(v) /\ preg[p] = qcount[v] /\ slot[v][Pos(h, Pend(v))] = m
    BY <1>1, <1>5 DEF QueueOf, PushOf
  <1>8. /\ qcount[v] = Pend(v) /\ qtail[v] = Pos(h, Pend(v) + 1)
        /\ log[v] \in Seq(Msgs) /\ Gone(v) \in Nat
    BY <1>5, <1>7 DEF RingOf
  <1> HIDE DEF h, m
  <1>9. /\ log'[v] \in Seq(Msgs)
        /\ Len(log'[v]) = Len(log[v]) + 1 /\ log'[v][Len(log[v]) + 1] = m
        /\ \A i \in 1 .. Len(log[v]) : log'[v][i] = log[v][i]
        /\ Len(log[v]) = Gone(v) + Pend(v) /\ Len(log[v]) \in Nat
    <2>1. log'[v] = Append(log[v], m)
      BY <1>2
    <2>2. Len(log[v]) \in Nat
      BY <1>8
    <2>3. Len(log[v]) = Gone(v) + Pend(v)
      BY <1>8, <2>2 DEF Pend
    <2> QED
      BY <1>6, <1>8, <2>1, <2>2, <2>3
  <1>10. Pend(v)' = Pend(v) + 1
    BY <1>3, <1>8, <1>9 DEF Pend
  <1>11. \A q \in Producers : ~Pushes(q, v)'
    BY <1>2, <1>6 DEF Pushes
  <1>12. RingOf(v)'
    <2>1. ~Counting(v)'
      BY <1>11 DEF Counting, Pushes
    <2>2. ASSUME NEW i \in 1 .. Pend(v) + 1
          PROVE  slot[v][Pos(h, i - 1)] = log'[v][Gone(v) + i]
      <3>1. CASE i = Pend(v) + 1
        <4>1. i - 1 = Pend(v) /\ Gone(v) + i = Len(log[v]) + 1
          BY <1>6, <1>8, <1>9, <3>1
        <4> QED
          BY <1>7, <1>9, <4>1
      <3>2. CASE i # Pend(v) + 1
        <4>1. i \in 1 .. Pend(v) /\ Gone(v) + i \in 1 .. Len(log[v])
          BY <1>6, <1>8, <1>9, <3>2
        <4> QED
          BY <1>5, <1>9, <4>1 DEF RingOf, h
      <3> QED
        BY <3>1, <3>2
    <2>3. Pend(v)' \in 0 .. QMax
      <3>1. QMax \in Nat
        BY Sizes
      <3> QED
        BY <1>6, <1>10, <3>1
    <2>4. qcount'[v] = Pend(v)' /\ ~Storing(v)' /\ qtail'[v] = Pos(qhead'[v], Pend(v)')
      BY <1>1, <1>2, <1>3, <1>7, <1>8, <1>10 DEF h
    <2> QED
      BY <1>1, <1>3, <1>8, <1>9, <1>10, <2>1, <2>2, <2>3, <2>4 DEF RingOf, h
  <1>13. DrainOf(v)'
    <2>1. Pend(v) >= 1 => log'[v][Gone(v) + 1] = log[v][Gone(v) + 1]
      <3>1. Pend(v) >= 1 => Gone(v) + 1 \in 1 .. Len(log[v])
        BY <1>6, <1>8, <1>9
      <3> QED
        BY <1>9, <3>1
    <2>2. Pend(v)' \in Nat /\ Pend(v)' >= Pend(v)
      BY <1>6, <1>10
    <2> QED
      BY <1>1, <1>3, <1>5, <1>7, <2>1, <2>2, DrainStays
  <1>14. QueueOf(v)'
    BY <1>11, <1>12, <1>13 DEF QueueOf, PushOf
  <1> QED
    BY <1>4, <1>14 DEF Exact

LEMMA ConsumeExact ==
    ASSUME IInv, Exact, DrainConsume, "queue" \notin raced'
    PROVE  Exact'
  <1>0. PICK v \in Wids : v = dwid
    BY DEF IInv, QueueTypes
  <1> DEFINE h == qhead[v]
  <1>1. /\ dpc = "consume" /\ dpc' = "store" /\ h \in Places /\ ~Counting(v)
        /\ slot' = [slot EXCEPT ![v][h] = 0] /\ qhead' = [qhead EXCEPT ![v] = NextQ(@)]
        /\ dreg' = qcount[v]
        /\ UNCHANGED <<qtail, qcount, ppc, pwid, pmsg, preg, dwid, dmsg, log, framed>>
    BY <1>0 DEF DrainConsume, pushVars, IInv, QueueTypes, Counting
  <1>2. /\ \A w \in Wids : w # v => slot'[w] = slot[w] /\ qhead'[w] = qhead[w]
        /\ \A i \in Places : slot'[v][i] = IF i = h THEN 0 ELSE slot[v][i]
        /\ qhead'[v] = NextQ(h)
    BY <1>1 DEF IInv, QueueTypes
  <1>3. /\ \A q \in Producers, w \in Wids : Pushes(q, w)' <=> Pushes(q, w)
        /\ \A w \in Wids : Counting(w)' <=> Counting(w)
    BY <1>1 DEF Pushes, Counting
  <1>4. ASSUME NEW w \in Wids, w # v PROVE QueueOf(w)'
    <2>1. Gone(w)' = Gone(w) /\ (Storing(w)' <=> Storing(w))
      BY <1>0, <1>1, <1>4 DEF Gone, Storing
    <2>2. DrainOf(w)'
      BY <1>0, <1>1, <1>4 DEF DrainOf
    <2> QED
      BY <1>1, <1>2, <1>3, <1>4, <2>1, <2>2, SameQueue DEF Exact
  <1>5. QueueOf(v) /\ RingOf(v) /\ DrainOf(v) /\ ~Storing(v) /\ Storing(v)'
    BY <1>0, <1>1 DEF Exact, QueueOf, Storing
  <1>6. /\ Gone(v) \in Nat /\ Pend(v) \in Nat /\ Pend(v) <= QMax /\ Pend(v) >= 1
        /\ qcount[v] = Pend(v) /\ qtail[v] = Pos(h, Pend(v)) /\ log[v] \in Seq(Msgs)
        /\ QMax \in Nat
    <2>1. Pend(v) \in 0 .. QMax /\ QMax \in Nat
      BY <1>5, Sizes DEF RingOf
    <2>2. Pend(v) >= 1
      BY <1>0, <1>1, <1>5 DEF DrainOf
    <2> QED
      BY <1>1, <1>5, <2>1, <2>2 DEF RingOf
  <1>7. Gone(v)' = Gone(v) + 1 /\ Pend(v)' = Pend(v) - 1
    <2>1. Len(framed[v]) \in Nat /\ Len(log[v]) \in Nat
      BY <1>6 DEF IInv, QueueTypes
    <2>2. Gone(v) = Len(framed[v]) - 1 /\ Gone(v)' = Len(framed[v])
      BY <1>0, <1>1, <2>1 DEF Gone
    <2> QED
      BY <1>1, <2>1, <2>2 DEF Pend
  <1> HIDE DEF h
  <1>8. ASSUME NEW k \in Nat, 0 < k, k < QMax
        PROVE  Pos(h, k) \in Places /\ Pos(h, k) # h /\ Pos(NextQ(h), k - 1) = Pos(h, k)
    <2>1. 0 \in 0 .. QMax - 1 /\ k \in 0 .. QMax - 1 /\ k \in 0 .. QMax /\ k - 1 \in 0 .. QMax - 1
      BY <1>6, <1>8
    <2>2. Pos(h, 0) = h /\ Pos(h, k) \in Places /\ (Pos(h, 0) = Pos(h, k) => 0 = k)
      BY <1>1, <2>1, Positions
    <2>3. Pos(NextQ(h), k - 1) = Pos(h, (k - 1) + 1)
      BY <1>1, <2>1, Positions
    <2> QED
      BY <1>8, <2>2, <2>3
  <1>9. RingOf(v)'
    <2>1. qtail'[v] = Pos(qhead'[v], Pend(v)')
      <3>1. Pend(v) - 1 \in 0 .. QMax - 1 /\ (Pend(v) - 1) + 1 = Pend(v)
        BY <1>6
      <3> QED
        BY <1>1, <1>2, <1>6, <1>7, <3>1, Positions
    <2>2. ASSUME NEW i \in 1 .. Pend(v)'
          PROVE  slot'[v][Pos(qhead'[v], i - 1)] = log'[v][Gone(v)' + i]
      <3>1. i \in Nat /\ 0 < i /\ i < QMax /\ i + 1 \in 1 .. Pend(v) /\ (i + 1) - 1 = i
        BY <1>6, <1>7
      <3>2. slot'[v][Pos(qhead'[v], i - 1)] = slot[v][Pos(h, i)]
        BY <1>2, <1>8, <3>1
      <3>3. slot[v][Pos(h, i)] = log[v][Gone(v) + (i + 1)]
        BY <1>5, <3>1 DEF RingOf, h
      <3>4. Gone(v) + (i + 1) = Gone(v)' + i
        BY <1>6, <1>7, <3>1
      <3> QED
        BY <1>1, <3>2, <3>3, <3>4
    <2>3. /\ Gone(v)' \in Nat /\ Pend(v)' \in 0 .. QMax
          /\ qcount'[v] = Pend(v)' + 1
      BY <1>1, <1>6, <1>7
    <2> QED
      BY <1>1, <1>3, <1>5, <1>6, <2>1, <2>2, <2>3 DEF RingOf
  <1>10. ASSUME NEW q \in Producers PROVE PushOf(q, v)'
    <2>1. Pushes(q, v) => ppc[q] # "count"
      BY <1>1 DEF Counting, Pushes
    <2>2. Pend(v)' < QMax
      BY <1>6, <1>7
    <2>3. Pushes(q, v) /\ ppc[q] = "tail" => slot'[v][qtail[v]] = slot[v][qtail[v]]
      <3>1. Pushes(q, v) => Pend(v) < QMax
        BY <1>5 DEF QueueOf, PushOf
      <3> QED
        BY <1>2, <1>6, <1>8, <3>1
    <2> QED
      BY <1>1, <1>3, <1>5, <2>1, <2>2, <2>3 DEF QueueOf, PushOf
  <1>11. DrainOf(v)'
    BY <1>1 DEF DrainOf, Carrying
  <1>12. QueueOf(v)'
    BY <1>9, <1>10, <1>11 DEF QueueOf
  <1> QED
    BY <1>4, <1>12 DEF Exact

LEMMA StoreExact ==
    ASSUME IInv, Exact, DrainStore
    PROVE  Exact'
  <1>0. PICK v \in Wids : v = dwid
    BY DEF IInv, QueueTypes
  <1>1. /\ dpc = "store" /\ dpc' = "look" /\ qcount' = [qcount EXCEPT ![v] = dreg - 1]
        /\ UNCHANGED <<slot, qhead, qtail, ppc, pwid, pmsg, preg, dwid, log, framed>>
    BY <1>0 DEF DrainStore, pushVars, ghosts
  <1>2. \A w \in Wids : qcount'[w] = IF w = v THEN dreg - 1 ELSE qcount[w]
    BY <1>1 DEF IInv, QueueTypes
  <1>3. /\ \A q \in Producers, w \in Wids : Pushes(q, w)' <=> Pushes(q, w)
        /\ \A w \in Wids : /\ Counting(w)' <=> Counting(w)
                           /\ Gone(w)' = Gone(w) /\ Pend(w)' = Pend(w)
    BY <1>1 DEF Pushes, Counting, Gone, Pend
  <1>4. \A w \in Wids : DrainOf(w)'
    BY <1>1 DEF DrainOf, Carrying
  <1>5. ASSUME NEW w \in Wids, w # v PROVE QueueOf(w)'
    <2>1. Storing(w)' <=> Storing(w)
      BY <1>0, <1>1, <1>5 DEF Storing
    <2> QED
      BY <1>1, <1>2, <1>3, <1>4, <1>5, <2>1, SameQueue DEF Exact
  <1>6. /\ QueueOf(v) /\ RingOf(v) /\ Storing(v) /\ ~Storing(v)'
        /\ Pend(v) \in Nat /\ qcount[v] = Pend(v) + 1 /\ dreg = qcount[v]
    BY <1>0, <1>1 DEF Exact, QueueOf, Storing, RingOf, DrainOf
  <1>7. qcount'[v] = Pend(v)
    BY <1>2, <1>6
  <1>8. RingOf(v)'
    BY <1>1, <1>3, <1>6, <1>7 DEF RingOf
  <1>9. \A q \in Producers : PushOf(q, v)'
    BY <1>1, <1>3, <1>6 DEF QueueOf, PushOf
  <1>10. QueueOf(v)'
    BY <1>4, <1>8, <1>9 DEF QueueOf
  <1> QED
    BY <1>5, <1>10 DEF Exact

\* The other steps of the drain, and those of a worker, leave all queues alone.
QueueRests == UNCHANGED <<slot, qhead, qtail, qcount, ppc, pwid, pmsg, preg, log>>

LEMMA RestExact ==
    ASSUME Exact, QueueRests, \A w \in Wids : Gone(w)' = Gone(w),
           dpc = "store" <=> dpc' = "store", dpc = "store" => dwid' = dwid,
           \A w \in Wids : DrainOf(w)'
    PROVE  Exact'
  <1> SUFFICES ASSUME NEW w \in Wids PROVE QueueOf(w)'
    BY DEF Exact
  <1>1. \A p \in Producers : /\ Pushes(p, w)' <=> Pushes(p, w)
                             /\ ppc'[p] = ppc[p] /\ pmsg'[p] = pmsg[p] /\ preg'[p] = preg[p]
    BY DEF QueueRests, Pushes
  <1>2. Storing(w)' <=> Storing(w)
    BY DEF Storing
  <1> QED
    BY <1>1, <1>2, SameQueue DEF Exact, QueueRests

LEMMA LookExact ==
    ASSUME Exact, QueueRests, framed' = framed,
           dpc \in {"idle", "failed", "look"}, dpc' \in {"idle", "look"}
    PROVE  Exact'
  <1>1. \A w \in Wids : Gone(w)' = Gone(w) /\ DrainOf(w)'
    BY DEF Gone, DrainOf, Carrying
  <1> QED
    BY <1>1, RestExact

LEMMA DeliveryExact ==
    ASSUME Exact, QueueRests, framed' = framed, dwid' = dwid, dmsg' = dmsg, Carrying,
           dpc' \in {"failed", "copy", "room", "word", "wstore"}
    PROVE  Exact'
  <1>1. \A w \in Wids : Gone(w)' = Gone(w)
    BY DEF Gone, Carrying
  <1>2. \A w \in Wids : Pend(w)' = Pend(w)
    BY <1>1 DEF Pend, QueueRests
  <1>3. \A w \in Wids : DrainOf(w)'
    BY <1>1, <1>2 DEF Exact, QueueOf, DrainOf, Carrying, QueueRests
  <1>4. dpc # "store" /\ dpc' # "store"
    BY DEF Carrying
  <1> QED
    BY <1>1, <1>3, <1>4, RestExact

\* A queue that is not empty has a message at its head.
LEMMA TakeExact ==
    ASSUME IInv, Exact, DrainTake
    PROVE  Exact'
  <1>0. PICK v \in Wids : v = dwid
    BY DEF IInv, QueueTypes
  <1>1. /\ QueueRests /\ UNCHANGED <<dwid, framed>> /\ dpc = "look" /\ qcount[v] > 0
        /\ dmsg' = slot[v][qhead[v]] /\ dpc' = (IF dmsg' = 0 THEN "consume" ELSE "alloc")
    BY <1>0 DEF DrainTake, QueueRests, queueVars, pushVars, ghosts
  <1>2. /\ RingOf(v) /\ ~Storing(v) /\ qhead[v] \in Places
    BY <1>0, <1>1 DEF Exact, QueueOf, Storing, IInv, QueueTypes
  <1>3. /\ log[v] \in Seq(Msgs) /\ Gone(v) \in Nat /\ Pend(v) \in Nat /\ Pend(v) >= 1
    BY <1>1, <1>2 DEF RingOf
  <1>4. dmsg' = log[v][Gone(v) + 1]
    <2>1. 1 \in 1 .. Pend(v) /\ 1 - 1 = 0 /\ Pos(qhead[v], 0) = qhead[v]
      BY <1>2, <1>3, Positions
    <2> QED
      BY <1>1, <1>2, <2>1 DEF RingOf
  <1>5. dmsg' # 0 /\ dpc' = "alloc"
    <2>1. Gone(v) + 1 \in 1 .. Len(log[v])
      <3>1. Len(log[v]) \in Nat
        BY <1>3
      <3> QED
        BY <1>3, <3>1 DEF Pend
    <2>2. log[v][Gone(v) + 1] \in Msgs
      BY <1>3, <2>1
    <2>3. \A m \in Msgs : m # 0
      BY DEF Msgs
    <2> QED
      BY <1>1, <1>4, <2>2, <2>3
  <1>6. \A w \in Wids : Gone(w)' = Gone(w) /\ Pend(w)' = Pend(w)
    BY <1>1, <1>5 DEF Gone, Pend, QueueRests
  <1>7. \A w \in Wids : DrainOf(w)'
    BY <1>0, <1>1, <1>3, <1>4, <1>5, <1>6 DEF DrainOf, Carrying, QueueRests
  <1> QED
    BY <1>1, <1>5, <1>6, <1>7, RestExact

\* The last word: the message counts as framed, and as there until its head is passed.
LEMMA FrameExact ==
    ASSUME IInv, Exact, DrainWordStore, ~(dword < Words)
    PROVE  Exact'
  <1>1. /\ QueueRests /\ dpc = "wstore" /\ dpc' = "wake" /\ dwid' = dwid /\ dwid \in Wids
        /\ framed' = [framed EXCEPT ![dwid] = Append(@, dmsg)]
    BY DEF DrainWordStore, QueueRests, queueVars, pushVars, IInv, QueueTypes
  <1>2. dmsg \in Msgs
    BY <1>1, Sizes DEF IInv, QueueTypes, MessageInv, CarryInv, Carrying, Msgs
  <1>3. ASSUME NEW w \in Wids PROVE Gone(w)' = Gone(w)
    <2>1. CASE w = dwid
      <3>1. framed[w] \in Seq(Msgs) /\ framed'[w] = Append(framed[w], dmsg)
        BY <1>1, <2>1 DEF IInv, QueueTypes
      <3>2. Len(framed'[w]) = Len(framed[w]) + 1 /\ Len(framed[w]) \in Nat
        BY <1>2, <3>1
      <3> QED
        BY <1>1, <2>1, <3>2 DEF Gone
    <2>2. CASE w # dwid
      BY <1>1, <2>2 DEF Gone, IInv, QueueTypes
    <2> QED
      BY <2>1, <2>2
  <1>4. \A w \in Wids : Pend(w)' = Pend(w)
    BY <1>1, <1>3 DEF Pend, QueueRests
  <1>5. \A w \in Wids : DrainOf(w)'
    BY <1>1, <1>3, <1>4 DEF Exact, QueueOf, DrainOf, Carrying
  <1> QED
    BY <1>1, <1>3, <1>5, RestExact

LEMMA WakeExact ==
    ASSUME Exact, DrainWake
    PROVE  Exact'
  <1>1. QueueRests /\ UNCHANGED <<dwid, framed>> /\ dpc = "wake" /\ dpc' = "consume"
    BY DEF DrainWake, QueueRests, queueVars, pushVars, ghosts
  <1>2. \A w \in Wids : Gone(w)' = Gone(w) /\ Pend(w)' = Pend(w)
    BY <1>1 DEF Gone, Pend, QueueRests
  <1>3. \A w \in Wids : DrainOf(w)'
    BY <1>1, <1>2 DEF Exact, QueueOf, DrainOf, Carrying
  <1> QED
    BY <1>1, <1>2, <1>3, RestExact

LEMMA DrainExact ==
    ASSUME IInv, Exact, Drain, "queue" \notin raced'
    PROVE  Exact'
  <1> USE DEF QueueRests, queueVars, pushVars, ghosts
  <1>1. CASE DrainStart
    BY <1>1, LookExact DEF DrainStart
  <1>2. CASE DrainNext
    BY <1>2, LookExact DEF DrainNext
  <1>3. CASE DrainAlloc
    BY <1>3, DeliveryExact DEF DrainAlloc, Carrying
  <1>4. CASE DrainCopy
    BY <1>4, DeliveryExact DEF DrainCopy, Carrying
  <1>5. CASE DrainRoom
    BY <1>5, DeliveryExact DEF DrainRoom, Carrying
  <1>6. CASE DrainWord
    BY <1>6, DeliveryExact DEF DrainWord, Carrying
  <1>7. CASE DrainWordStore /\ dword < Words
    BY <1>7, DeliveryExact DEF DrainWordStore, Carrying
  <1>8. CASE DrainWordStore /\ ~(dword < Words)
    BY <1>8, FrameExact
  <1> QED
    BY <1>1, <1>2, <1>3, <1>4, <1>5, <1>6, <1>7, <1>8, TakeExact, WakeExact, ConsumeExact,
       StoreExact DEF Drain

LEMMA IdleExact ==
    ASSUME Exact, QueueRests, UNCHANGED <<framed, dpc, dwid, dmsg, dreg>>
    PROVE  Exact'
  <1>1. \A w \in Wids : Gone(w)' = Gone(w) /\ Pend(w)' = Pend(w)
    BY DEF Gone, Pend, QueueRests
  <1>2. \A w \in Wids : DrainOf(w)'
    BY <1>1 DEF Exact, QueueOf, DrainOf, Carrying, QueueRests
  <1> QED
    BY <1>1, <1>2, RestExact

LEMMA RacedStays == [Next]_vars /\ "queue" \notin raced' => "queue" \notin raced
  BY DEF Next, vars, ghosts, Push, PushCheck, PushWrite, PushTail, PushCount, Drain, DrainStart,
         DrainNext, DrainTake, DrainAlloc, DrainCopy, DrainRoom, DrainWord, DrainWordStore,
         DrainWake, DrainConsume, DrainStore, Tick, WaitData, WaitRelease, FreeGeneration,
         WaitPark, WaitRecheck, Pop, PopStore, Body, BodyFree, BodyEnd

LEMMA NextExact == IInv /\ ExactInv /\ [Next]_vars => ExactInv'
  <1> SUFFICES ASSUME IInv, ExactInv, [Next]_vars PROVE ExactInv'
    OBVIOUS
  <1>1. log' \in [Wids -> Seq(Nat)]
    <2>1. ASSUME NEW p \in Producers, PushCount(p) PROVE log' \in [Wids -> Seq(Nat)]
      <3>1. /\ log' = [log EXCEPT ![pwid[p]] = Append(@, pmsg[p])]
            /\ pwid[p] \in Wids /\ pmsg[p] \in Nat /\ log \in [Wids -> Seq(Nat)]
        BY <2>1, Sizes DEF PushCount, IInv, QueueTypes, ExactInv
      <3> QED
        BY <3>1
    <2>2. log' = log \/ \E p \in Producers : PushCount(p)
      BY DEF Next, vars, ghosts, Push, PushCheck, PushWrite, PushTail, Drain, DrainStart,
             DrainNext, DrainTake, DrainAlloc, DrainCopy, DrainRoom, DrainWord, DrainWordStore,
             DrainWake, DrainConsume, DrainStore, Tick, WaitData, WaitRelease, FreeGeneration,
             WaitPark, WaitRecheck, Pop, PopStore, Body, BodyFree, BodyEnd
    <2> QED
      BY <2>1, <2>2 DEF ExactInv
  <1>2. ASSUME "queue" \notin raced' PROVE Exact'
    <2>1. Exact /\ log \in [Wids -> Seq(Nat)]
      BY <1>2, RacedStays DEF ExactInv
    <2>2. ASSUME NEW p \in Producers, Push(p) PROVE Exact'
      BY <1>2, <2>1, <2>2, CheckExact, WriteExact, TailExact, CountExact DEF Push
    <2>3. CASE Drain
      BY <1>2, <2>1, <2>3, DrainExact
    <2>4. ASSUME NEW w \in Inited, Tick(w) PROVE Exact'
      <3>1. QueueRests /\ UNCHANGED <<framed, dpc, dwid, dmsg, dreg>>
        BY <2>4 DEF Tick, WaitData, WaitRelease, FreeGeneration, WaitPark, WaitRecheck, Pop,
               PopStore, Body, BodyFree, BodyEnd, QueueRests, queueVars, pushVars, drainVars, ghosts
      <3> QED
        BY <2>1, <3>1, IdleExact
    <2>5. CASE UNCHANGED vars
      <3>1. QueueRests /\ UNCHANGED <<framed, dpc, dwid, dmsg, dreg>>
        BY <2>5 DEF vars, QueueRests, queueVars, pushVars, drainVars, ghosts
      <3> QED
        BY <2>1, <3>1, IdleExact
    <2> QED
      BY <2>2, <2>3, <2>4, <2>5 DEF Next
  <1> QED
    BY <1>1, <1>2 DEF ExactInv

LEMMA InitExact == Init => ExactInv
  <1> SUFFICES ASSUME Init PROVE ExactInv
    OBVIOUS
  <1>1. PICK v \in Wids :
            /\ slot = [w \in Wids |-> [i \in 0 .. QMax - 1 |->
                                        IF w = v /\ i < Before THEN i + 1 ELSE 0]]
            /\ qtail = [w \in Wids |-> IF w = v THEN Before % QMax ELSE 0]
            /\ qcount = [w \in Wids |-> IF w = v THEN Before ELSE 0]
            /\ log = [w \in Wids |-> IF w = v THEN [i \in 1 .. Before |-> i] ELSE <<>>]
    BY DEF Init
  <1>2. /\ Before \in Nat /\ Before <= QMax /\ Before <= NMsgs /\ NMsgs \in Nat /\ QMax \in Nat
        /\ QMax # 0
    BY Sizes, IngressConstants
  <1> DEFINE s == [i \in 1 .. Before |-> i]
             c(w) == IF w = v THEN Before ELSE 0
  <1>3. /\ s \in Seq(Msgs) /\ s \in Seq(Nat) /\ Len(s) = Before
        /\ << >> \in Seq(Msgs) /\ << >> \in Seq(Nat) /\ Len(<< >>) = 0
    <2>1. \A i \in 1 .. Before : i \in Msgs /\ i \in Nat
      BY <1>2 DEF Msgs
    <2>2. s \in Seq(Msgs) /\ s \in Seq(Nat)
      BY <1>2, <2>1
    <2>3. Len(s) = Before
      BY <1>2
    <2>4. << >> \in Seq(Msgs) /\ << >> \in Seq(Nat) /\ Len(<< >>) = 0
      OBVIOUS
    <2> HIDE DEF s
    <2> QED
      BY <2>2, <2>3, <2>4
  <1>4. log \in [Wids -> Seq(Nat)]
    BY <1>1, <1>3
  <1>5. ASSUME NEW w \in Wids PROVE QueueOf(w)
    <2>1. /\ log[w] = IF w = v THEN s ELSE << >>
          /\ qhead[w] = 0 /\ qtail[w] = (IF w = v THEN Before % QMax ELSE 0)
          /\ qcount[w] = c(w) /\ framed[w] = << >> /\ dpc = "idle"
          /\ \A q \in Producers : ppc[q] = "idle"
          /\ \A i \in Places : slot[w][i] = IF w = v /\ i < Before THEN i + 1 ELSE 0
      BY <1>1 DEF Init, Places
    <2>2. c(w) \in Nat /\ c(w) <= QMax
      BY <1>2
    <2> HIDE DEF s, c
    <2>3. Gone(w) = 0 /\ Pend(w) = c(w) /\ log[w] \in Seq(Msgs)
      <3>1. Len(log[w]) = c(w) /\ log[w] \in Seq(Msgs)
        BY <1>3, <2>1 DEF c
      <3>2. Gone(w) = 0
        BY <1>3, <2>1 DEF Gone
      <3> QED
        BY <2>2, <3>1, <3>2 DEF Pend
    <2>4. ~Counting(w) /\ ~Storing(w) /\ DrainOf(w) /\ \A q \in Producers : PushOf(q, w)
      BY <2>1 DEF Counting, Storing, DrainOf, Carrying, PushOf, Pushes
    <2>5. ASSUME NEW i \in 1 .. Pend(w)
          PROVE  slot[w][Pos(qhead[w], i - 1)] = log[w][Gone(w) + i]
      <3>1. w = v /\ i \in 1 .. Before
        BY <2>2, <2>3 DEF c
      <3>2. i - 1 \in Nat /\ i - 1 < QMax /\ i - 1 \in Places /\ i - 1 < Before /\ (i - 1) + 1 = i
        BY <1>2, <3>1 DEF Places
      <3>3. Pos(0, i - 1) = i - 1
        BY <3>2, Wraps DEF Pos
      <3>4. log[w][i] = i /\ Gone(w) + i = i
        BY <2>1, <2>3, <3>1 DEF s
      <3> QED
        BY <2>1, <3>1, <3>2, <3>3, <3>4
    <2>6. qtail[w] = Pos(qhead[w], Pend(w))
      <3>1. CASE w = v
        BY <1>2, <2>1, <2>3, <3>1 DEF Pos, c
      <3>2. CASE w # v
        <4>1. Pos(0, 0) = 0
          BY <1>2, Wraps DEF Pos
        <4> QED
          BY <2>1, <2>3, <3>2, <4>1 DEF c
      <3> QED
        BY <3>1, <3>2
    <2>7. RingOf(w)
      BY <1>2, <2>1, <2>2, <2>3, <2>4, <2>5, <2>6 DEF RingOf
    <2> QED
      BY <2>4, <2>7 DEF QueueOf
  <1> QED
    BY <1>4, <1>5 DEF ExactInv, Exact

\* Until two updates of its queue overlap, the queue of a worker holds exactly the messages that
\* were accepted and not yet delivered, in that order, and count is their number, for any number
\* of producers and any length of the queue (epa_kernel_ingress_push_framed and the loop of
\* epa_kernel_drain_ingress).
THEOREM QueueExactTheorem == Spec => []QueueExact
  <1>1. Init => ExactInv
    BY InitExact
  <1>2. IInv /\ ExactInv /\ [Next]_vars => ExactInv'
    BY NextExact
  <1>3. IInv /\ ExactInv => QueueExact
    <2> SUFFICES ASSUME IInv, ExactInv, "queue" \notin raced, NEW w \in Wids
                 PROVE  /\ Len(log[w]) - Gone(w) \in 0 .. QMax
                        /\ qcount[w] = Len(log[w]) - Gone(w)
                                        + (IF dwid = w /\ dpc = "store" THEN 1 ELSE 0)
                        /\ \A i \in 1 .. Len(log[w]) - Gone(w) :
                                slot[w][(qhead[w] + i - 1) % QMax] = log[w][Gone(w) + i]
      BY DEF QueueExact
    <2>1. RingOf(w)
      BY DEF ExactInv, Exact, QueueOf
    <2>2. Pend(w) = Len(log[w]) - Gone(w)
      BY DEF Pend
    <2>3. Pend(w) \in 0 .. QMax /\ Pend(w) \in Int
      BY <2>1 DEF RingOf
    <2>4. qcount[w] = Pend(w) + (IF dwid = w /\ dpc = "store" THEN 1 ELSE 0)
      BY <2>1, <2>3 DEF RingOf, Storing
    <2>5. ASSUME NEW i \in 1 .. Pend(w)
          PROVE  slot[w][(qhead[w] + i - 1) % QMax] = log[w][Gone(w) + i]
      <3>1. qhead[w] \in Nat
        BY Sizes DEF IInv, QueueTypes, Places
      <3>2. qhead[w] + i - 1 = qhead[w] + (i - 1)
        BY <2>3, <3>1
      <3> QED
        BY <2>1, <3>2 DEF RingOf, Pos
    <2> QED
      BY <2>2, <2>3, <2>4, <2>5
  <1> QED
    BY <1>1, <1>2, <1>3, Invariance, PTL DEF Spec

----------------------------------------------------------------------------
(* The frames in the input rings and the objects behind them               *)

Room == 0 .. Cap - 1
At(w, k) == (rhead[w] + k) % Cap

InFrame    == dpc \in {"word", "wstore"}
Delivering == dpc \in {"copy", "room", "word", "wstore"}
Filling(w) == dwid = w /\ dpc = "wstore"
Freeing(w) == wpc[w] \in {"freeing", "bfreeing"}

\* How many words of a frame that is not complete the drain has stored, how many words the ring
\* holds that count may not show yet, and how many its worker has popped since the beginning.
Pushed(w) ==
    IF dwid # w THEN 0 ELSE IF dpc = "word" THEN dword - 1 ELSE IF dpc = "wstore" THEN dword ELSE 0
Phys(w) == Held(w) + (IF Filling(w) THEN 1 ELSE 0)
Base(w) == 4 * Len(read[w]) + (IF wpc[w] = "body" THEN 4 ELSE 0) + Popped(w)

\* The complete frames whose message was not read, and the handle in frame f: its two words are
\* in the ring, or the index in r0, or both in the current object.
Pending(w) == Len(read[w]) + 1 .. Len(framed[w])
IndexAt(w, k) == IF k >= 0 THEN RingWord(w, k) ELSE IF k = -1 THEN r0[w] ELSE cur[w][1]
GenAt(w, k)   == IF k >= 0 THEN RingWord(w, k) ELSE cur[w][2]
IndexOf(w, f) == IndexAt(w, 4 * f - 3 - Base(w))
GenOf(w, f)   == GenAt(w, 4 * f - 2 - Base(w))
Taken(w) == Popped(w) >= 3 \/ wpc[w] = "body"

Live(i, g, o, m) ==
    i \in Slots /\ obj[i].used /\ obj[i].gen = g /\ obj[i].owner = o /\ obj[i].msg = m

Objects == [Slots -> [used : BOOLEAN, gen : Nat \ {0}, owner : Wids \union {0}, msg : 0 .. NMsgs]]

\* The types of what the ring, the handle space and the workers keep.
RingTypes ==
    /\ rbuf \in [Wids -> [Room -> Nat]]
    /\ rhead \in [Wids -> Room] /\ rtail \in [Wids -> Room]
    /\ rcount \in [Wids -> Nat]
    /\ obj \in Objects
    /\ dh \in Nat \X Nat /\ dword \in 1 .. 4 /\ dreg \in Nat
    /\ wpc \in [Inited -> WorkPC] /\ wword \in [Inited -> 1 .. 4]
    /\ wreg \in [Inited -> Nat]
    /\ \A w \in Inited : wpc[w] = "pstore" => wreg[w] >= 1
    /\ r0 \in [Inited -> Nat] /\ cur \in [Inited -> Nat \X Nat]
    /\ parked \in [Inited -> BOOLEAN] /\ faulted \in [Inited -> BOOLEAN]
    /\ read \in [Wids -> Seq(0 .. NMsgs)]

\* The ring of w holds the words from head to tail, as many as count and the update under way
\* say, and they are those of the frames pushed and not popped.
RingFits(w) ==
    /\ Held(w) \in Nat /\ Phys(w) \in 0 .. Cap
    /\ rtail[w] = At(w, Phys(w))
    /\ wpc[w] = "pstore" => wreg[w] = rcount[w] /\ ~Filling(w)
    /\ Filling(w) => dreg = rcount[w]
    /\ dwid = w /\ InFrame => rcount[w] + (IF Filling(w) THEN 1 ELSE 0) + 4 - Pushed(w) <= Cap
    /\ Base(w) + Phys(w) = 4 * Len(framed[w]) + Pushed(w)

\* The worker has read the first messages of those framed for it.
ReadOf(w) ==
    /\ Len(read[w]) <= Len(framed[w])
    /\ \A j \in 1 .. Len(read[w]) : read[w][j] = framed[w][j]

\* Each frame has a live object of its own, w's, with its message.
FramesOf(w) ==
    /\ \A f \in Pending(w) : Live(IndexOf(w, f), GenOf(w, f), w, framed[w][f])
    /\ \A f, g \in Pending(w) : IndexOf(w, f) = IndexOf(w, g) => f = g

\* The words of the frame that is not complete are those of the handle of the drain,
PartOf(w) ==
    /\ Pushed(w) >= 2 => IndexOf(w, Len(framed[w]) + 1) = dh[1]
    /\ Pushed(w) >= 3 => GenOf(w, Len(framed[w]) + 1) = dh[2]

\* whose object is live and in no complete frame.
DeliveryOf ==
    Delivering =>
      /\ Live(dh[1], dh[2], IF dpc = "copy" THEN 0 ELSE dwid, dmsg)
      /\ \A w \in Inited : \A f \in Pending(w) : IndexOf(w, f) # dh[1]
      /\ InFrame => dwid \in Inited

\* The current object of a worker is live and its own, or is being freed, or its generation has
\* passed; if the worker does not have it from the frame it is at, no frame has it.
CurOf(w) ==
    /\ cur[w][1] \in Slots /\ cur[w][2] <= obj[cur[w][1]].gen
    /\ cur[w][2] = obj[cur[w][1]].gen /\ ~Freeing(w) =>
            obj[cur[w][1]].used /\ obj[cur[w][1]].owner = w
    /\ Freeing(w) => cur[w][2] = obj[cur[w][1]].gen /\ ~obj[cur[w][1]].used
    /\ Valid(cur[w]) /\ ~Taken(w) =>
        /\ \A f \in Pending(w) : IndexOf(w, f) # cur[w][1]
        /\ Delivering => dh[1] # cur[w][1]

FreesApart == \A v, w \in Inited : Freeing(v) /\ Freeing(w) /\ cur[v][1] = cur[w][1] => v = w

\* Somebody has a handle of the object at s.
Refd(s) == \/ Delivering /\ s = dh[1]
           \/ \E w \in Inited : Valid(cur[w]) /\ s = cur[w][1]
           \/ \E w \in Inited : \E f \in Pending(w) : s = IndexOf(w, f)

OrphansOf == \A s \in orphans : s \in Slots /\ obj[s].used /\ ~Refd(s)
Covered   == \A s \in Slots : obj[s].used => s \in orphans \/ Refd(s)

Rings == \A w \in Inited : RingFits(w)
Heap  == /\ \A w \in Inited : ReadOf(w) /\ FramesOf(w) /\ PartOf(w) /\ CurOf(w)
         /\ DeliveryOf /\ FreesApart /\ OrphansOf /\ Covered

\* No update of a ring and no allocation has overlapped another.
Calm == "ring" \notin raced /\ "ghs" \notin raced

HeapInv == RingTypes /\ (Calm => Rings /\ Heap)

LEMMA RingSizes ==
    /\ Cap \in Nat /\ Cap # 0 /\ NSlots \in Nat /\ 0 \in Slots /\ 0 \in Room
    /\ \A i \in Nat : i % Cap \in Room
    /\ \A i \in Room : i \in Nat /\ NextR(i) \in Room
    /\ \A w \in Inited : w \in Wids
    /\ \A w \in Wids : w \in Nat /\ w # 0
  <1>1. Cap \in Nat /\ Cap # 0 /\ NSlots \in Nat /\ NSlots # 0
    BY IngressConstants
  <1>2. 0 \in Slots /\ 0 \in Room
    BY <1>1 DEF Slots, Room
  <1>3. ASSUME NEW i \in Nat PROVE i % Cap \in Room
    BY <1>1 DEF Room
  <1>4. ASSUME NEW i \in Room PROVE i \in Nat /\ NextR(i) \in Room
    <2>1. i \in Nat /\ i + 1 \in Nat
      BY <1>1 DEF Room
    <2> QED
      BY <1>3, <2>1 DEF NextR
  <1>5. /\ \A w \in Inited : w \in Wids
        /\ \A w \in Wids : w \in Nat /\ w # 0
    BY IngressConstants
  <1> QED
    BY <1>1, <1>2, <1>3, <1>4, <1>5

LEMMA RingWraps ==
    ASSUME NEW x \in Nat
    PROVE  /\ x < Cap => x % Cap = x
           /\ Cap <= x /\ x < 2 * Cap => x % Cap = x - Cap
  BY RingSizes

\* Counting on from the head of a ring.
LEMMA RingPositions ==
    ASSUME NEW h \in Room
    PROVE  /\ h % Cap = h
           /\ \A k \in Nat : k <= Cap => (h + k) % Cap \in Room
           /\ \A k \in Nat : k < Cap => NextR((h + k) % Cap) = (h + (k + 1)) % Cap
           /\ \A k \in Nat : k < Cap => (NextR(h) + k) % Cap = (h + (k + 1)) % Cap
           /\ \A j, k \in Nat :
                j < Cap /\ k < Cap /\ (h + j) % Cap = (h + k) % Cap => j = k
  <1>1. Cap \in Nat /\ Cap # 0 /\ h \in Nat /\ h < Cap
    BY RingSizes DEF Room
  <1>2. ASSUME NEW i \in Room
        PROVE  NextR(i) = IF i + 1 < Cap THEN i + 1 ELSE 0
    <2>1. i \in Nat /\ i + 1 \in Nat /\ i + 1 <= Cap
      BY <1>1 DEF Room
    <2> QED
      BY <1>1, <2>1, RingWraps DEF NextR
  <1>3. ASSUME NEW i \in Room, NEW k \in Nat, k <= Cap
        PROVE  (i + k) % Cap = IF i + k < Cap THEN i + k ELSE i + k - Cap
    <2>1. i \in Nat /\ i + k \in Nat /\ i + k < 2 * Cap
      BY <1>1, <1>3 DEF Room
    <2> QED
      BY <1>1, <2>1, RingWraps
  <1>4. \A i \in Room : NextR(i) \in Room
    BY RingSizes
  <1>5. h % Cap = h
    BY <1>1, RingWraps
  <1>6. ASSUME NEW k \in Nat, k <= Cap PROVE (h + k) % Cap \in Room
    BY <1>1, <1>3, <1>6 DEF Room
  <1>7. ASSUME NEW k \in Nat, k < Cap
        PROVE  /\ NextR((h + k) % Cap) = (h + (k + 1)) % Cap
               /\ (NextR(h) + k) % Cap = (h + (k + 1)) % Cap
    <2>1. k <= Cap /\ k + 1 \in Nat /\ k + 1 <= Cap
      BY <1>1, <1>7
    <2>2. /\ (h + k) % Cap = IF h + k < Cap THEN h + k ELSE h + k - Cap
          /\ (h + (k + 1)) % Cap = IF h + (k + 1) < Cap THEN h + (k + 1) ELSE h + (k + 1) - Cap
      BY <1>3, <2>1
    <2>3. NextR((h + k) % Cap) = IF ((h + k) % Cap) + 1 < Cap THEN ((h + k) % Cap) + 1 ELSE 0
      BY <1>2, <1>6, <2>1
    <2>4. NextR(h) = IF h + 1 < Cap THEN h + 1 ELSE 0
      BY <1>2
    <2>5. (NextR(h) + k) % Cap = IF NextR(h) + k < Cap THEN NextR(h) + k ELSE NextR(h) + k - Cap
      BY <1>3, <1>4, <2>1
    <2>6. (NextR(h) + k) % Cap = (h + (k + 1)) % Cap
      BY <1>1, <1>7, <2>2, <2>4, <2>5
    <2>7. NextR((h + k) % Cap) = (h + (k + 1)) % Cap
      BY <1>1, <1>7, <2>2, <2>3
    <2> QED
      BY <2>6, <2>7
  <1>8. ASSUME NEW j \in Nat, NEW k \in Nat, j < Cap, k < Cap, (h + j) % Cap = (h + k) % Cap
        PROVE  j = k
    <2>1. /\ (h + j) % Cap = IF h + j < Cap THEN h + j ELSE h + j - Cap
          /\ (h + k) % Cap = IF h + k < Cap THEN h + k ELSE h + k - Cap
      BY <1>1, <1>3, <1>8
    <2> QED
      BY <1>1, <1>8, <2>1
  <1> QED
    BY <1>5, <1>6, <1>7, <1>8

----------------------------------------------------------------------------
(* Types                                                                   *)

LEMMA FreeSlot ==
    ASSUME FreeSlots # {}
    PROVE  FirstFree \in Slots /\ ~obj[FirstFree].used /\ FirstFree \in Nat
  <1>1. FreeSlots \in SUBSET Nat
    BY RingSizes DEF FreeSlots, Slots
  <1>2. \E i \in FreeSlots : \A j \in FreeSlots : i <= j
    BY <1>1, LeastNatural
  <1>3. FirstFree \in FreeSlots
    BY <1>2 DEF FirstFree
  <1> QED
    BY <1>1, <1>3 DEF FreeSlots

LEMMA ObjectUpdates ==
    ASSUME obj \in Objects, NEW i
    PROVE  /\ \A u \in Wids : [obj EXCEPT ![i].owner = u] \in Objects
           /\ [obj EXCEPT ![i].gen = @ + 1] \in Objects
           /\ \A m \in 0 .. NMsgs :
                [obj EXCEPT ![i].used = TRUE, ![i].owner = 0, ![i].msg = m] \in Objects
           /\ [obj EXCEPT ![i].used = FALSE, ![i].owner = 0, ![i].msg = 0] \in Objects
  <1>1. 0 \in 0 .. NMsgs
    BY Sizes
  <1>2. \A u \in Wids : [obj EXCEPT ![i].owner = u] \in Objects
    BY DEF Objects
  <1>3. [obj EXCEPT ![i].gen = @ + 1] \in Objects
    <2> DEFINE o == [obj EXCEPT ![i].gen = @ + 1]
               R == [used : BOOLEAN, gen : Nat \ {0}, owner : Wids \union {0}, msg : 0 .. NMsgs]
    <2>1. ASSUME NEW j \in Slots PROVE o[j] \in R
      <3>1. obj[j] \in R /\ obj[j].gen \in Nat /\ obj[j].gen + 1 \in Nat \ {0}
        BY DEF Objects
      <3>2. o[j] = IF j = i THEN [obj[j] EXCEPT !.gen = @ + 1] ELSE obj[j]
        BY DEF Objects
      <3>3. [obj[j] EXCEPT !.gen = @ + 1] \in R
        BY <3>1
      <3> QED
        BY <3>1, <3>2, <3>3
    <2>2. o = [j \in Slots |-> o[j]]
      BY DEF Objects
    <2> HIDE DEF o
    <2>3. o \in [Slots -> R]
      BY <2>1, <2>2
    <2> QED
      BY <2>3 DEF Objects, o
  <1>4. \A m \in 0 .. NMsgs :
            [obj EXCEPT ![i].used = TRUE, ![i].owner = 0, ![i].msg = m] \in Objects
    BY DEF Objects
  <1>5. [obj EXCEPT ![i].used = FALSE, ![i].owner = 0, ![i].msg = 0] \in Objects
    BY <1>1 DEF Objects
  <1> QED
    BY <1>2, <1>3, <1>4, <1>5

LEMMA PushTypes ==
    ASSUME RingTypes, NEW p \in Producers, Push(p)
    PROVE  RingTypes'
  BY DEF RingTypes, Push, PushCheck, PushWrite, PushTail, PushCount, ringVars, drainVars, workVars,
         ghosts

\* Steps of the drain that leave the rings and the handle space alone.
LEMMA DrainQueueTypes ==
    ASSUME IInv, RingTypes,
           DrainStart \/ DrainNext \/ DrainTake \/ DrainWake \/ DrainConsume \/ DrainStore
    PROVE  RingTypes'
  <1> USE DEF ringVars, workVars, ghosts, IInv, QueueTypes
  <1>1. NoHandle \in Nat \X Nat /\ 1 \in 1 .. 4 /\ 0 \in Nat
    BY DEF NoHandle
  <1>2. CASE DrainStart
    BY <1>1, <1>2 DEF RingTypes, DrainStart
  <1>3. CASE DrainNext
    BY <1>3 DEF RingTypes, DrainNext
  <1>4. CASE DrainTake
    BY <1>4 DEF RingTypes, DrainTake
  <1>5. CASE DrainWake
    BY <1>5 DEF RingTypes, DrainWake
  <1>6. CASE DrainConsume
    BY <1>6 DEF RingTypes, DrainConsume
  <1>7. CASE DrainStore
    BY <1>1, <1>7 DEF RingTypes, DrainStore
  <1> QED
    BY <1>2, <1>3, <1>4, <1>5, <1>6, <1>7

LEMMA DrainAllocTypes ==
    ASSUME IInv, RingTypes, DrainAlloc
    PROVE  RingTypes'
  <1> USE DEF ringVars, workVars
  <1>1. CASE FreeSlots = {}
    BY <1>1 DEF RingTypes, DrainAlloc
  <1>2. CASE FreeSlots # {}
    <2>1. /\ FirstFree \in Slots /\ FirstFree \in Nat /\ obj[FirstFree].gen \in Nat
          /\ dmsg \in 0 .. NMsgs
      BY <1>2, FreeSlot DEF RingTypes, IInv, QueueTypes, Objects
    <2>2. /\ obj' = [obj EXCEPT ![FirstFree].used = TRUE, ![FirstFree].owner = 0,
                                ![FirstFree].msg = dmsg]
          /\ dh' = <<FirstFree, obj[FirstFree].gen>>
          /\ UNCHANGED <<ringVars, dword, dreg, workVars, read>>
      BY <1>2 DEF DrainAlloc
    <2>3. obj' \in Objects
      BY <2>1, <2>2, ObjectUpdates DEF RingTypes
    <2> QED
      BY <2>1, <2>2, <2>3 DEF RingTypes
  <1> QED
    BY <1>1, <1>2

LEMMA DrainRingTypes ==
    ASSUME IInv, RingTypes, DrainCopy \/ DrainRoom \/ DrainWord \/ DrainWordStore
    PROVE  RingTypes'
  <1> USE DEF ringVars, workVars
  <1>0. dwid \in Wids /\ dmsg \in 0 .. NMsgs
    BY DEF IInv, QueueTypes
  <1>1. CASE DrainCopy
    <2>1. obj' \in Objects
      <3>1. obj \in Objects
        BY DEF RingTypes
      <3>2. [obj EXCEPT ![dh[1]].owner = dwid] \in Objects
        BY <1>0, <3>1, ObjectUpdates
      <3>3. obj' = obj \/ obj' = [obj EXCEPT ![dh[1]].owner = dwid]
        BY <1>1 DEF DrainCopy
      <3> QED
        BY <3>1, <3>2, <3>3
    <2> QED
      BY <1>1, <2>1 DEF RingTypes, DrainCopy
  <1>2. CASE DrainRoom
    <2>1. dword \in 1 .. 4 /\ faulted \in [Inited -> BOOLEAN] /\ 1 \in 1 .. 4
      BY DEF RingTypes
    <2>2. faulted' = faulted \/ faulted' = [w \in Inited |-> faulted[w] \/ w = dwid]
      BY <1>2 DEF DrainRoom
    <2>3. faulted' \in [Inited -> BOOLEAN]
      BY <2>1, <2>2
    <2>4. dword' \in 1 .. 4
      BY <1>2, <2>1 DEF DrainRoom
    <2> QED
      BY <1>2, <2>3, <2>4 DEF RingTypes, DrainRoom
  <1>3. CASE DrainWord
    <2>1. dmsg \in Nat /\ dh[1] \in Nat /\ dh[2] \in Nat
      BY <1>0, Sizes DEF RingTypes
    <2>2. FrameWord(dh, dmsg, dword) \in Nat
      BY <2>1 DEF FrameWord, RingTypes
    <2>3. rbuf' \in [Wids -> [Room -> Nat]]
      <3>1. PICK m \in Nat : m = FrameWord(dh, dmsg, dword)
        BY <2>2
      <3>2. PICK t : t = rtail[dwid]
        OBVIOUS
      <3>3. rbuf' = rbuf \/ rbuf' = [rbuf EXCEPT ![dwid][t] = m]
        BY <1>3, <3>1, <3>2 DEF DrainWord
      <3>4. rbuf \in [Wids -> [Room -> Nat]]
        BY DEF RingTypes
      <3> QED
        BY <1>0, <3>1, <3>3, <3>4
    <2>4. rtail' \in [Wids -> Room]
      <3>1. NextR(rtail[dwid]) \in Room
        BY <1>0, RingSizes DEF RingTypes
      <3>2. rtail' = rtail \/ rtail' = [rtail EXCEPT ![dwid] = NextR(@)]
        BY <1>3 DEF DrainWord
      <3> QED
        BY <3>1, <3>2 DEF RingTypes
    <2>5. dreg' \in Nat
      BY <1>0, <1>3 DEF RingTypes, DrainWord
    <2> QED
      BY <1>3, <2>3, <2>4, <2>5 DEF RingTypes, DrainWord
  <1>4. CASE DrainWordStore
    <2>1. rcount' \in [Wids -> Nat] /\ dreg' \in Nat
      BY <1>0, <1>4 DEF RingTypes, DrainWordStore
    <2>2. dword' \in 1 .. 4
      BY <1>4 DEF RingTypes, DrainWordStore, Words
    <2> QED
      BY <1>4, <2>1, <2>2 DEF RingTypes, DrainWordStore
  <1> QED
    BY <1>1, <1>2, <1>3, <1>4

\* The value a pop finds, and what a worker may be at.
LEMMA TickTypes ==
    ASSUME IInv, RingTypes, NEW w \in Inited, Tick(w)
    PROVE  RingTypes'
  <1> USE DEF ringVars, drainVars, ghosts, WorkPC
  <1>0. w \in Wids /\ cur[w][1] \in Nat
    BY RingSizes DEF RingTypes
  <1>1. CASE WaitData(w) \/ WaitPark(w) \/ WaitRecheck(w) \/ BodyEnd(w)
    <2>0. wpc \in [Inited -> WorkPC] /\ wword \in [Inited -> 1 .. 4] /\ parked \in [Inited -> BOOLEAN]
      BY DEF RingTypes
    <2>1. PICK q \in WorkPC \ {"pstore"} : wpc' = [wpc EXCEPT ![w] = q]
      BY <1>1 DEF WaitData, WaitPark, WaitRecheck, BodyEnd
    <2>2. wpc' \in [Inited -> WorkPC] /\ \A v \in Inited : wpc'[v] = "pstore" => wpc[v] = "pstore"
      BY <2>0, <2>1
    <2>3. wword' = wword \/ wword' = [wword EXCEPT ![w] = 1]
      BY <1>1 DEF WaitData, WaitPark, WaitRecheck, BodyEnd
    <2>4. wword' \in [Inited -> 1 .. 4]
      BY <2>0, <2>3
    <2>5. \/ parked' = parked \/ parked' = [parked EXCEPT ![w] = TRUE]
          \/ parked' = [parked EXCEPT ![w] = @ /\ rcount[w] = 0]
      BY <1>1 DEF WaitData, WaitPark, WaitRecheck, BodyEnd
    <2>6. parked' \in [Inited -> BOOLEAN]
      BY <2>0, <2>5
    <2>7. UNCHANGED <<rbuf, rhead, rtail, rcount, obj, dh, dword, dreg, wreg, r0, cur,
                      faulted, read>>
      BY <1>1 DEF WaitData, WaitPark, WaitRecheck, BodyEnd
    <2> QED
      BY <2>2, <2>4, <2>6, <2>7 DEF RingTypes
  <1>2. ASSUME FreeFlags(cur[w]) PROVE obj' \in Objects
    <2>1. obj \in Objects
      BY DEF RingTypes
    <2> QED
      BY <1>2, <2>1, ObjectUpdates DEF FreeFlags
  <1>3. CASE WaitRelease(w)
    <2>0. /\ obj \in Objects /\ cur \in [Inited -> Nat \X Nat] /\ wpc \in [Inited -> WorkPC]
          /\ <<0, 0>> \in Nat \X Nat
      BY DEF RingTypes
    <2>1. cur' \in [Inited -> Nat \X Nat]
      <3>1. cur' = cur \/ cur' = [cur EXCEPT ![w] = <<0, 0>>]
        BY <1>3 DEF WaitRelease, NoHandle
      <3> QED
        BY <2>0, <3>1
    <2>2. obj' \in Objects
      BY <1>2, <1>3, <2>0 DEF WaitRelease
    <2>4. wpc' \in [Inited -> WorkPC]
      BY <1>3, <2>0 DEF WaitRelease
    <2>3. \A v \in Inited : wpc'[v] = "pstore" => wpc[v] = "pstore"
      BY <1>3 DEF RingTypes, WaitRelease
    <2> QED
      BY <1>3, <2>1, <2>2, <2>3, <2>4 DEF RingTypes, WaitRelease
  <1>4. CASE FreeGeneration(w)
    <2>0. /\ obj \in Objects /\ cur \in [Inited -> Nat \X Nat] /\ wpc \in [Inited -> WorkPC]
          /\ <<0, 0>> \in Nat \X Nat
      BY DEF RingTypes
    <2>1. cur' \in [Inited -> Nat \X Nat]
      <3>1. cur' = cur \/ cur' = [cur EXCEPT ![w] = <<0, 0>>]
        BY <1>4 DEF FreeGeneration, NoHandle
      <3> QED
        BY <2>0, <3>1
    <2>2. obj' \in Objects
      BY <1>4, <2>0, ObjectUpdates DEF FreeGeneration
    <2>4. wpc' \in [Inited -> WorkPC]
      BY <1>4, <2>0 DEF FreeGeneration
    <2>3. \A v \in Inited : wpc'[v] = "pstore" => wpc[v] = "pstore"
      BY <1>4 DEF RingTypes, FreeGeneration
    <2> QED
      BY <1>4, <2>1, <2>2, <2>3, <2>4 DEF RingTypes, FreeGeneration
  <1>5. CASE Pop(w) /\ rcount[w] = 0
    BY <1>5 DEF RingTypes, Pop
  <1>6. CASE Pop(w) /\ rcount[w] # 0
    <2>1. rbuf[w][rhead[w]] \in Nat /\ rcount[w] \in Nat /\ rcount[w] >= 1
      BY <1>0, <1>6 DEF RingTypes
    <2>2. PICK v \in Nat : v = rbuf[w][rhead[w]]
      BY <2>1
    <2>5. r0' \in [Inited -> Nat]
      BY <1>6, <2>2 DEF RingTypes, Pop
    <2>6. cur' \in [Inited -> Nat \X Nat]
      <3>1. cur' = cur \/ cur' = [cur EXCEPT ![w] = <<r0[w], v>>]
        BY <1>6, <2>2 DEF Pop
      <3>2. r0[w] \in Nat /\ cur \in [Inited -> Nat \X Nat]
        BY DEF RingTypes
      <3> QED
        BY <2>2, <3>1, <3>2
    <2>7. rhead' \in [Wids -> Room]
      <3>1. rhead' = [rhead EXCEPT ![w] = NextR(@)] /\ NextR(rhead[w]) \in Room
        BY <1>0, <1>6, RingSizes DEF RingTypes, Pop
      <3> QED
        BY <3>1 DEF RingTypes
    <2>3. /\ wreg' = [wreg EXCEPT ![w] = rcount[w]] /\ wpc' = [wpc EXCEPT ![w] = "pstore"]
          /\ UNCHANGED <<rbuf, rtail, rcount, obj, dh, dword, dreg, wword, parked, faulted, read>>
      BY <1>6 DEF Pop
    <2>4. \A u \in Inited : wpc'[u] = "pstore" => wreg'[u] >= 1
      BY <2>1, <2>3 DEF RingTypes
    <2> QED
      BY <2>1, <2>3, <2>4, <2>5, <2>6, <2>7 DEF RingTypes
  <1>7. CASE PopStore(w)
    <2>1. wreg[w] - 1 \in Nat
      BY <1>7 DEF RingTypes, PopStore
    <2>2. rcount' \in [Wids -> Nat] /\ wpc' \in [Inited -> WorkPC]
      BY <1>7, <2>1 DEF RingTypes, PopStore
    <2>4. wword' \in [Inited -> 1 .. 4]
      <3>1. /\ wword' = [wword EXCEPT ![w] = IF @ < 4 THEN @ + 1 ELSE 1]
            /\ wword \in [Inited -> 1 .. 4]
        BY <1>7 DEF RingTypes, PopStore, Words
      <3> QED
        BY <3>1
    <2>5. r0' \in [Inited -> Nat]
      BY <1>7 DEF RingTypes, PopStore
    <2>3. /\ wreg' \in [Inited -> Nat]
          /\ \A v \in Inited : wpc'[v] = "pstore" => wreg'[v] >= 1
      BY <1>7 DEF RingTypes, PopStore
    <2> QED
      BY <1>7, <2>2, <2>3, <2>4, <2>5 DEF RingTypes, PopStore
  <1>8. CASE Body(w)
    <2>1. CASE Valid(cur[w])
      <3>1. obj[cur[w][1]].msg \in 0 .. NMsgs
        BY <2>1 DEF RingTypes, Valid, Objects
      <3>3. PICK m \in 0 .. NMsgs : m = obj[cur[w][1]].msg
        BY <3>1
      <3>4. read' = [read EXCEPT ![w] = Append(@, m)] /\ Append(read[w], m) \in Seq(0 .. NMsgs)
        BY <1>0, <1>8, <2>1, <3>3 DEF RingTypes, Body
      <3>2. read' \in [Wids -> Seq(0 .. NMsgs)]
        BY <3>4 DEF RingTypes
      <3> QED
        BY <1>8, <2>1, <3>2 DEF RingTypes, Body
    <2>2. CASE ~Valid(cur[w])
      BY <1>8, <2>2 DEF RingTypes, Body
    <2> QED
      BY <2>1, <2>2
  <1>9. CASE BodyFree(w)
    <2>1. obj' \in Objects
      BY <1>2, <1>9 DEF BodyFree
    <2> QED
      BY <1>9, <2>1 DEF RingTypes, BodyFree
  <1> QED
    BY <1>1, <1>3, <1>4, <1>5, <1>6, <1>7, <1>8, <1>9 DEF Tick

LEMMA NextTypes == IInv /\ RingTypes /\ [Next]_vars => RingTypes'
  <1> SUFFICES ASSUME IInv, RingTypes, [Next]_vars PROVE RingTypes'
    OBVIOUS
  <1>1. CASE Drain
    BY <1>1, DrainQueueTypes, DrainAllocTypes, DrainRingTypes DEF Drain
  <1>2. CASE UNCHANGED vars
    BY <1>2 DEF vars, RingTypes, ringVars, drainVars, workVars, ghosts
  <1> QED
    BY <1>1, <1>2, PushTypes, TickTypes DEF Next

----------------------------------------------------------------------------
(* What a step that does not touch a worker or its ring leaves as it was   *)

WorkerSame(w) ==
    /\ wpc'[w] = wpc[w] /\ wword'[w] = wword[w] /\ wreg'[w] = wreg[w]
    /\ r0'[w] = r0[w] /\ cur'[w] = cur[w] /\ read'[w] = read[w]
RingSame(w) ==
    /\ rbuf'[w] = rbuf[w] /\ rhead'[w] = rhead[w] /\ rtail'[w] = rtail[w]
    /\ rcount'[w] = rcount[w] /\ framed'[w] = framed[w]
FrameSame(w) == \/ UNCHANGED <<dpc, dwid, dword, dreg, dh>>
                \/ ~(dwid = w /\ InFrame) /\ ~(dwid = w /\ InFrame)'

LEMMA SameFrame ==
    ASSUME NEW w \in Inited, FrameSame(w)
    PROVE  /\ Pushed(w)' = Pushed(w) /\ (Filling(w)' <=> Filling(w))
           /\ Filling(w) => dreg' = dreg
           /\ (dwid = w /\ InFrame)' => dwid = w /\ InFrame
           /\ Pushed(w) # 0 => dh' = dh
  <1>1. CASE UNCHANGED <<dpc, dwid, dword, dreg, dh>>
    BY <1>1 DEF Pushed, Filling, InFrame
  <1>2. CASE ~(dwid = w /\ InFrame) /\ ~(dwid = w /\ InFrame)'
    BY <1>2 DEF Pushed, Filling, InFrame
  <1> QED
    BY <1>1, <1>2 DEF FrameSame

LEMMA SameWords ==
    ASSUME NEW w \in Inited, WorkerSame(w), RingSame(w)
    PROVE  /\ Popped(w)' = Popped(w) /\ Held(w)' = Held(w) /\ Base(w)' = Base(w)
           /\ Pending(w)' = Pending(w)
           /\ \A f : IndexOf(w, f)' = IndexOf(w, f) /\ GenOf(w, f)' = GenOf(w, f)
           /\ (Taken(w)' <=> Taken(w)) /\ (Freeing(w)' <=> Freeing(w))
  <1>1. Popped(w)' = Popped(w) /\ Held(w)' = Held(w)
    BY DEF Popped, Held, WorkerSame, RingSame
  <1>2. Base(w)' = Base(w) /\ Pending(w)' = Pending(w)
    BY <1>1 DEF Base, Pending, WorkerSame, RingSame
  <1>3. ASSUME NEW f PROVE IndexOf(w, f)' = IndexOf(w, f) /\ GenOf(w, f)' = GenOf(w, f)
    BY <1>2 DEF IndexOf, GenOf, IndexAt, GenAt, RingWord, WorkerSame, RingSame
  <1>4. (Taken(w)' <=> Taken(w)) /\ (Freeing(w)' <=> Freeing(w))
    BY <1>1 DEF Taken, Freeing, WorkerSame
  <1> QED
    BY <1>1, <1>2, <1>3, <1>4

\* A worker that moves between places where it is not popping words, or not further.
LEMMA SameFits ==
    ASSUME NEW w \in Inited, RingFits(w),
           rhead'[w] = rhead[w], rtail'[w] = rtail[w], rcount'[w] = rcount[w],
           framed'[w] = framed[w],
           wpc'[w] = "pstore" <=> wpc[w] = "pstore", wpc[w] = "pstore" => wreg'[w] = wreg[w],
           Base(w)' = Base(w), FrameSame(w)
    PROVE  RingFits(w)'
  <1>1. Held(w)' = Held(w)
    BY DEF Held
  <1>2. Phys(w)' = Phys(w)
    BY <1>1, SameFrame DEF Phys
  <1>3. At(w, Phys(w))' = At(w, Phys(w))
    BY <1>2 DEF At
  <1> QED
    BY <1>1, <1>2, <1>3, SameFrame DEF RingFits

\* The handle space, the handles and who holds them stay; the drain may go on.
LEMMA KeepHeap ==
    ASSUME Heap, UNCHANGED <<obj, orphans>>,
           \A w \in Inited :
                /\ cur'[w] = cur[w] /\ Pending(w)' = Pending(w)
                /\ \A f \in Pending(w) : /\ IndexOf(w, f)' = IndexOf(w, f)
                                         /\ GenOf(w, f)' = GenOf(w, f)
                                         /\ framed'[w][f] = framed[w][f]
                /\ (Taken(w)' <=> Taken(w)) /\ (Freeing(w)' <=> Freeing(w))
                /\ PartOf(w)' /\ ReadOf(w)',
           Delivering' <=> Delivering,
           Delivering => /\ UNCHANGED <<dh, dmsg, dwid>>
                         /\ dpc' = "copy" <=> dpc = "copy",
           InFrame' => dwid' \in Inited
    PROVE  Heap'
  <1>1. \A i, g, o, m : Live(i, g, o, m)' <=> Live(i, g, o, m)
    BY DEF Live
  <1>2. ASSUME NEW w \in Inited PROVE FramesOf(w)'
    BY <1>1 DEF FramesOf, Heap
  <1>3. \A w \in Inited : Valid(cur[w])' <=> Valid(cur[w])
    BY DEF Valid
  <1>4. ASSUME NEW w \in Inited PROVE CurOf(w)'
    BY <1>3 DEF CurOf, Heap
  <1>5. DeliveryOf'
    BY <1>1 DEF DeliveryOf, Heap
  <1>6. FreesApart'
    BY DEF FreesApart, Heap
  <1>7. \A s : Refd(s)' <=> Refd(s)
    BY <1>3 DEF Refd
  <1>8. OrphansOf' /\ Covered'
    BY <1>7 DEF OrphansOf, Covered, Heap
  <1> QED
    BY <1>2, <1>4, <1>5, <1>6, <1>8 DEF Heap

LEMMA SameRead ==
    ASSUME NEW w \in Inited, ReadOf(w), read'[w] = read[w], framed'[w] = framed[w]
    PROVE  ReadOf(w)'
  BY DEF ReadOf

LEMMA SamePart ==
    ASSUME NEW w \in Inited, PartOf(w), FrameSame(w), framed'[w] = framed[w],
           \A f : IndexOf(w, f)' = IndexOf(w, f) /\ GenOf(w, f)' = GenOf(w, f)
    PROVE  PartOf(w)'
  <1>1. Pushed(w)' = Pushed(w) /\ (Pushed(w) # 0 => dh' = dh)
    BY SameFrame
  <1> QED
    BY <1>1 DEF PartOf

\* Pushes, and what the drain does with its queues.
LEMMA OutsideHeap ==
    ASSUME Rings, Heap, UNCHANGED <<ringVars, obj, orphans, wpc, wword, wreg, r0, cur, read, framed>>,
           \/ UNCHANGED drainVars
           \/ ~Delivering /\ ~Delivering'
    PROVE  Rings' /\ Heap'
  <1>1. ASSUME NEW w \in Inited PROVE WorkerSame(w) /\ RingSame(w) /\ FrameSame(w)
    BY DEF WorkerSame, RingSame, FrameSame, ringVars, drainVars, Delivering, InFrame
  <1>2. ASSUME NEW w \in Inited PROVE RingFits(w)'
    BY <1>1, SameWords, SameFits DEF WorkerSame, RingSame, Rings
  <1>3. ASSUME NEW w \in Inited PROVE PartOf(w)' /\ ReadOf(w)'
    <2>1. PartOf(w) /\ ReadOf(w)
      BY DEF Heap
    <2>2. WorkerSame(w) /\ RingSame(w) /\ FrameSame(w)
      BY <1>1
    <2>3. \A f : IndexOf(w, f)' = IndexOf(w, f) /\ GenOf(w, f)' = GenOf(w, f)
      BY <2>2, SameWords
    <2> QED
      BY <2>1, <2>2, <2>3, SamePart, SameRead DEF WorkerSame, RingSame
  <1>4. ASSUME NEW w \in Inited
        PROVE  /\ cur'[w] = cur[w] /\ Pending(w)' = Pending(w)
               /\ \A f \in Pending(w) : /\ IndexOf(w, f)' = IndexOf(w, f)
                                        /\ GenOf(w, f)' = GenOf(w, f)
                                        /\ framed'[w][f] = framed[w][f]
               /\ (Taken(w)' <=> Taken(w)) /\ (Freeing(w)' <=> Freeing(w))
    BY <1>1, SameWords DEF WorkerSame, RingSame
  <1>5. /\ Delivering' <=> Delivering
        /\ Delivering => UNCHANGED <<dh, dmsg, dwid, dpc>>
        /\ InFrame' => dwid' \in Inited
    BY DEF drainVars, Delivering, InFrame, Heap, DeliveryOf
  <1>6. Heap'
    BY <1>3, <1>4, <1>5, KeepHeap
  <1> QED
    BY <1>2, <1>6 DEF Rings

----------------------------------------------------------------------------
(* Steps of a worker that keep its handle                                  *)

\* One worker moves on with the same handles.
LEMMA OneWorker ==
    ASSUME Rings, Heap, NEW w \in Inited,
           \A v \in Inited : v # w => WorkerSame(v) /\ RingSame(v),
           UNCHANGED <<drainVars, obj, orphans>>,
           RingFits(w)', framed'[w] = framed[w], read'[w] = read[w], cur'[w] = cur[w],
           \A f \in Pending(w) \union {Len(framed[w]) + 1} :
                f \in Pending(w) \/ Pushed(w) >= 2 => IndexOf(w, f)' = IndexOf(w, f),
           \A f \in Pending(w) \union {Len(framed[w]) + 1} :
                f \in Pending(w) \/ Pushed(w) >= 3 => GenOf(w, f)' = GenOf(w, f),
           Taken(w)' <=> Taken(w), Freeing(w)' <=> Freeing(w)
    PROVE  Rings' /\ Heap'
  <1>1. \A v \in Inited : FrameSame(v)
    BY DEF FrameSame, drainVars
  <1>2. ASSUME NEW v \in Inited
        PROVE  /\ RingFits(v)' /\ PartOf(v)' /\ ReadOf(v)'
               /\ cur'[v] = cur[v] /\ Pending(v)' = Pending(v)
               /\ \A f \in Pending(v) : /\ IndexOf(v, f)' = IndexOf(v, f)
                                        /\ GenOf(v, f)' = GenOf(v, f)
                                        /\ framed'[v][f] = framed[v][f]
               /\ (Taken(v)' <=> Taken(v)) /\ (Freeing(v)' <=> Freeing(v))
    <2>1. RingFits(v) /\ PartOf(v) /\ ReadOf(v) /\ FrameSame(v)
      BY <1>1 DEF Rings, Heap
    <2>2. CASE v = w
      <3>1. Pending(v)' = Pending(v)
        BY <2>2 DEF Pending
      <3>2. Pushed(v)' = Pushed(v) /\ UNCHANGED dh
        BY <2>1, SameFrame DEF drainVars
      <3>3. PartOf(v)'
        BY <2>1, <2>2, <3>2 DEF PartOf
      <3>4. ReadOf(v)'
        BY <2>1, <2>2, SameRead
      <3> QED
        BY <2>2, <3>1, <3>3, <3>4
    <2>3. CASE v # w
      <3>1. WorkerSame(v) /\ RingSame(v)
        BY <2>3
      <3>2. RingFits(v)'
        BY <2>1, <3>1, SameWords, SameFits DEF WorkerSame, RingSame
      <3>3. \A f : IndexOf(v, f)' = IndexOf(v, f) /\ GenOf(v, f)' = GenOf(v, f)
        BY <3>1, SameWords
      <3>4. PartOf(v)' /\ ReadOf(v)'
        BY <2>1, <3>1, <3>3, SamePart, SameRead DEF WorkerSame, RingSame
      <3> QED
        BY <3>1, <3>2, <3>4, SameWords DEF WorkerSame, RingSame
    <2> QED
      BY <2>2, <2>3
  <1>3. /\ Delivering' <=> Delivering
        /\ UNCHANGED <<dh, dmsg, dwid, dpc>>
        /\ InFrame' => dwid' \in Inited
    BY DEF drainVars, Delivering, InFrame, Heap, DeliveryOf
  <1>4. Heap'
    BY <1>2, <1>3, KeepHeap
  <1> QED
    BY <1>2, <1>4 DEF Rings

\* Between two places that are not in the middle of a pop.
LEMMA MoveHeap ==
    ASSUME RingTypes, Rings, Heap, NEW w \in Inited,
           UNCHANGED <<ringVars, drainVars, obj, orphans, wreg, r0, cur, read, framed>>,
           \E q \in WorkPC : wpc' = [wpc EXCEPT ![w] = q],
           \E i \in 1 .. 4 : wword' = [wword EXCEPT ![w] = i],
           Popped(w)' = Popped(w), Base(w)' = Base(w), Freeing(w)' <=> Freeing(w),
           wpc[w] # "pstore", wpc'[w] # "pstore",
           wpc[w] = "body" <=> wpc'[w] = "body"
    PROVE  Rings' /\ Heap'
  <1>1. ASSUME NEW v \in Inited, v # w PROVE WorkerSame(v) /\ RingSame(v)
    BY <1>1 DEF WorkerSame, RingSame, ringVars, RingTypes
  <1>2. FrameSame(w) /\ RingFits(w)
    BY DEF FrameSame, drainVars, Rings
  <1>3. RingFits(w)'
    BY <1>2, SameFits DEF ringVars
  <1>4. \A f : IndexOf(w, f)' = IndexOf(w, f) /\ GenOf(w, f)' = GenOf(w, f)
    BY DEF IndexOf, GenOf, IndexAt, GenAt, RingWord, ringVars
  <1>5. Taken(w)' <=> Taken(w)
    BY DEF Taken
  <1> QED
    BY <1>1, <1>3, <1>4, <1>5, OneWorker

LEMMA WalkHeap ==
    ASSUME RingTypes, Rings, Heap, NEW w \in Inited,
           WaitData(w) \/ WaitPark(w) \/ WaitRecheck(w) \/ BodyEnd(w)
    PROVE  Rings' /\ Heap'
  <1>0. wpc \in [Inited -> WorkPC] /\ wword \in [Inited -> 1 .. 4]
    BY DEF RingTypes
  <1>1. UNCHANGED <<ringVars, drainVars, obj, orphans, wreg, r0, cur, read, framed>>
    BY DEF WaitData, WaitPark, WaitRecheck, BodyEnd, ghosts
  <1>2. /\ \/ wpc[w] = "wait" /\ wpc' = [wpc EXCEPT ![w] = "pop"] /\ wword' = [wword EXCEPT ![w] = 1]
           \/ wpc[w] = "park" /\ wpc' = [wpc EXCEPT ![w] = "recheck"] /\ wword' = wword
           \/ /\ wpc[w] = "recheck" /\ wpc' = [wpc EXCEPT ![w] = "pop"]
              /\ wword' = [wword EXCEPT ![w] = 1]
           \/ wpc[w] = "ended" /\ wpc' = [wpc EXCEPT ![w] = "wait"] /\ wword' = wword
    BY DEF WaitData, WaitPark, WaitRecheck, BodyEnd
  <1>3. \E q \in WorkPC : wpc' = [wpc EXCEPT ![w] = q]
    BY <1>2 DEF WorkPC
  <1>4. \E i \in 1 .. 4 : wword' = [wword EXCEPT ![w] = i]
    <2>1. wword = [wword EXCEPT ![w] = wword[w]] /\ wword[w] \in 1 .. 4 /\ 1 \in 1 .. 4
      BY <1>0
    <2> QED
      BY <1>2, <2>1
  <1>5. Popped(w)' = Popped(w) /\ (Freeing(w)' <=> Freeing(w))
        /\ wpc[w] # "pstore" /\ wpc'[w] # "pstore" /\ (wpc[w] = "body" <=> wpc'[w] = "body")
    BY <1>0, <1>2 DEF Popped, Freeing
  <1>6. Base(w)' = Base(w)
    BY <1>1, <1>5 DEF Base
  <1> QED
    BY <1>1, <1>3, <1>4, <1>5, <1>6, MoveHeap

\* A fault of the worker changes nothing else.
LEMMA FaultHeap ==
    ASSUME Rings, Heap, NEW w \in Inited,
           (Pop(w) /\ rcount[w] = 0) \/ (Body(w) /\ ~Valid(cur[w]))
    PROVE  Rings' /\ Heap'
  <1>1. UNCHANGED <<ringVars, drainVars, obj, orphans, wpc, wword, wreg, r0, cur, read, framed>>
    BY DEF Pop, Body, ringVars
  <1> QED
    BY <1>1, OutsideHeap

----------------------------------------------------------------------------
(* Pops                                                                    *)

\* The numbers the positions of frames are counted with.
LEMMA Counts ==
    ASSUME IInv, RingTypes, NEW w \in Inited
    PROVE  /\ w \in Wids /\ Len(read[w]) \in Nat /\ Len(framed[w]) \in Nat
           /\ rcount[w] \in Nat /\ wword[w] \in 1 .. 4 /\ wreg[w] \in Nat
           /\ Popped(w) \in 0 .. 4 /\ Base(w) \in Nat /\ Pushed(w) \in 0 .. 4
           /\ \A f \in Pending(w) : f \in Nat /\ f >= Len(read[w]) + 1 /\ f <= Len(framed[w])
           /\ ~Filling(w) => Pushed(w) <= 3
  <1>1. /\ w \in Wids /\ read[w] \in Seq(0 .. NMsgs) /\ framed[w] \in Seq(Msgs)
        /\ rcount[w] \in Nat /\ wword[w] \in 1 .. 4 /\ wreg[w] \in Nat /\ dword \in 1 .. 4
    BY RingSizes DEF IInv, QueueTypes, RingTypes
  <1>2. Len(read[w]) \in Nat /\ Len(framed[w]) \in Nat
    BY <1>1
  <1>3. Popped(w) \in 0 .. 4
    BY <1>1 DEF Popped
  <1>4. Base(w) \in Nat
    <2>1. PICK l \in Nat, n \in Nat : l = Len(read[w]) /\ n = Popped(w)
      BY <1>2, <1>3
    <2>2. 4 * l + 4 + n \in Nat /\ 4 * l + 0 + n \in Nat
      BY <2>1
    <2> QED
      BY <2>1, <2>2 DEF Base
  <1>5. Pushed(w) \in 0 .. 4 /\ (~Filling(w) => Pushed(w) <= 3)
    BY <1>1 DEF Pushed, Filling
  <1>6. \A f \in Pending(w) : f \in Nat /\ f >= Len(read[w]) + 1 /\ f <= Len(framed[w])
    BY <1>2 DEF Pending
  <1> QED
    BY <1>1, <1>2, <1>3, <1>4, <1>5, <1>6

LEMMA PopStoreHeap ==
    ASSUME IInv, RingTypes, Rings, Heap, NEW w \in Inited, PopStore(w)
    PROVE  Rings' /\ Heap'
  <1>0. /\ w \in Wids /\ Len(read[w]) \in Nat /\ Len(framed[w]) \in Nat
        /\ rcount[w] \in Nat /\ wword[w] \in 1 .. 4 /\ wreg[w] \in Nat
        /\ Popped(w) \in 0 .. 4 /\ Base(w) \in Nat /\ Pushed(w) \in 0 .. 4
    BY Counts
  <1>1. /\ wpc[w] = "pstore" /\ rcount' = [rcount EXCEPT ![w] = wreg[w] - 1]
        /\ wpc' = [wpc EXCEPT ![w] = IF wword[w] < 4 THEN "pop" ELSE "body"]
        /\ wword' = [wword EXCEPT ![w] = IF @ < 4 THEN @ + 1 ELSE 1]
        /\ wreg' = [wreg EXCEPT ![w] = 0]
        /\ r0' = (IF wword[w] < 4 THEN r0 ELSE [r0 EXCEPT ![w] = 0])
        /\ UNCHANGED <<rbuf, rhead, rtail, drainVars, obj, orphans, cur, read, framed>>
    BY DEF PopStore, Words, ghosts
  <1>2. ASSUME NEW v \in Inited, v # w PROVE WorkerSame(v) /\ RingSame(v)
    <2>1. wpc'[v] = wpc[v] /\ wword'[v] = wword[v] /\ wreg'[v] = wreg[v] /\ r0'[v] = r0[v]
      BY <1>1, <1>2 DEF RingTypes
    <2>2. rcount'[v] = rcount[v]
      BY <1>1, <1>2, RingSizes DEF RingTypes
    <2> QED
      BY <1>1, <2>1, <2>2 DEF WorkerSame, RingSame
  <1>3. /\ wpc'[w] = (IF wword[w] < 4 THEN "pop" ELSE "body")
        /\ wword'[w] = (IF wword[w] < 4 THEN wword[w] + 1 ELSE 1)
        /\ r0'[w] = (IF wword[w] < 4 THEN r0[w] ELSE 0)
    BY <1>1 DEF RingTypes
  <1>4. rcount'[w] = wreg[w] - 1
    BY <1>1, RingSizes DEF RingTypes
  <1>5. RingFits(w) /\ FrameSame(w)
    BY <1>1 DEF Rings, FrameSame, drainVars
  <1>6. wreg[w] = rcount[w] /\ ~Filling(w) /\ ~Filling(w)' /\ Pushed(w)' = Pushed(w)
    BY <1>1, <1>5, SameFrame DEF RingFits
  <1>7. Popped(w) = wword[w] /\ Popped(w)' = (IF wword[w] < 4 THEN wword[w] ELSE 0)
    BY <1>0, <1>1, <1>3 DEF Popped
  <1>8. Base(w)' = Base(w)
    <2>1. PICK l \in Nat : l = Len(read[w])
      BY <1>0
    <2>2. /\ Base(w) = 4 * l + 0 + Popped(w)
          /\ Base(w)' = 4 * l + (IF wword[w] < 4 THEN 0 ELSE 4) + Popped(w)'
      <3>1. /\ wpc[w] # "body" /\ (wpc'[w] = "body" <=> ~(wword[w] < 4))
            /\ read'[w] = read[w]
        BY <1>1, <1>3
      <3> QED
        BY <2>1, <3>1 DEF Base
    <2> QED
      BY <1>0, <1>7, <2>2
  <1>9. Held(w)' = Held(w) /\ Phys(w)' = Phys(w) /\ rcount'[w] <= rcount[w] /\ rcount'[w] \in Int
    BY <1>0, <1>1, <1>3, <1>4, <1>6 DEF Held, Phys
  <1>10. RingFits(w)'
    <2>1. At(w, Phys(w))' = At(w, Phys(w))
      BY <1>1, <1>9 DEF At
    <2>2. (dwid = w /\ InFrame)'
            => (rcount[w] + (IF Filling(w) THEN 1 ELSE 0) + 4 - Pushed(w) <= Cap)'
      <3>1. (dwid = w /\ InFrame)' => rcount[w] + 0 + 4 - Pushed(w) <= Cap
        BY <1>5, <1>6, SameFrame DEF RingFits
      <3>2. Cap \in Nat
        BY RingSizes
      <3> QED
        BY <1>0, <1>6, <1>9, <3>1, <3>2
    <2>3. wpc'[w] # "pstore"
      BY <1>3
    <2> QED
      BY <1>1, <1>5, <1>6, <1>8, <1>9, <2>1, <2>2, <2>3 DEF RingFits
  <1>11. (Taken(w)' <=> Taken(w)) /\ (Freeing(w)' <=> Freeing(w))
    BY <1>0, <1>1, <1>3, <1>7 DEF Taken, Freeing
  <1>12. ASSUME NEW f \in Nat PROVE IndexOf(w, f)' = IndexOf(w, f) /\ GenOf(w, f)' = GenOf(w, f)
    <2>1. CASE wword[w] < 4
      BY <1>1, <1>3, <1>8, <2>1 DEF IndexOf, GenOf, IndexAt, GenAt, RingWord
    <2>2. CASE ~(wword[w] < 4)
      <3>1. Base(w) = 4 * Len(read[w]) + 4
        <4>1. Popped(w) = 4 /\ wpc[w] # "body"
          BY <1>0, <1>1, <1>7, <2>2
        <4> QED
          BY <1>0, <4>1 DEF Base
      <3>2. 4 * f - 3 - Base(w) # -1
        BY <1>0, <3>1
      <3> QED
        BY <1>1, <1>8, <3>2 DEF IndexOf, GenOf, IndexAt, GenAt, RingWord
    <2> QED
      BY <2>1, <2>2
  <1>13. \A f \in Pending(w) \union {Len(framed[w]) + 1} : f \in Nat
    BY Counts
  <1> QED
    BY <1>1, <1>2, <1>10, <1>11, <1>12, <1>13, OneWorker

\* Where the index word of frame f lies in the ring when b words have been popped, r are stored, and
\* the popped frame is at its word x - 1: before the end, and behind the head only if already taken.
IndexPopped(l, m, b, r, p, x, f, k) ==
    /\ x >= 1 /\ x <= 4 /\ b = 4 * l + x - 1 /\ b + r = 4 * m + p
    /\ f >= l + 1 /\ (f <= m \/ (f = m + 1 /\ p >= 2)) /\ k = 4 * f - 3 - b

LEMMA IndexWordAhead ==
    ASSUME NEW l \in Nat, NEW m \in Nat, NEW b \in Nat, NEW r \in Nat, NEW p \in Nat, NEW x \in Nat,
           NEW f \in Nat, NEW k \in Int, IndexPopped(l, m, b, r, p, x, f, k)
    PROVE  /\ k < r /\ 4 * f - 3 - (b + 1) = k - 1
           /\ (k = 0 => x = 2) /\ (k = -1 => x = 3) /\ (k < -1 => x # 3) /\ (x = 2 => k >= 0)
  <1>1. k < r
    BY DEF IndexPopped
  <1>2. 4 * f - 3 - (b + 1) = k - 1
    BY DEF IndexPopped
  <1>3. k = 4 * (f - l) - 2 - x /\ f - l >= 1
    BY DEF IndexPopped
  <1>4. PICK d \in Nat : d = f - l /\ d >= 1 /\ k = 4 * d - 2 - x
    BY <1>3
  <1>5. (k = 0 => x = 2) /\ (k = -1 => x = 3)
    BY <1>4 DEF IndexPopped
  <1>6. (k < -1 => x # 3) /\ (x = 2 => k >= 0)
    BY <1>4 DEF IndexPopped
  <1> QED
    BY <1>1, <1>2, <1>5, <1>6

\* The same of the generation word.
GenPopped(l, m, b, r, p, x, f, k) ==
    /\ x >= 1 /\ x <= 4 /\ b = 4 * l + x - 1 /\ b + r = 4 * m + p
    /\ f >= l + 1 /\ (f <= m \/ (f = m + 1 /\ p >= 3)) /\ k = 4 * f - 2 - b

LEMMA GenWordAhead ==
    ASSUME NEW l \in Nat, NEW m \in Nat, NEW b \in Nat, NEW r \in Nat, NEW p \in Nat, NEW x \in Nat,
           NEW f \in Nat, NEW k \in Int, GenPopped(l, m, b, r, p, x, f, k)
    PROVE  /\ k < r /\ 4 * f - 2 - (b + 1) = k - 1
           /\ (k = 0 => x = 3) /\ (k < 0 => x # 3)
  <1>1. k < r
    BY DEF GenPopped
  <1>2. 4 * f - 2 - (b + 1) = k - 1
    BY DEF GenPopped
  <1>3. k = 4 * (f - l) - 1 - x /\ f - l >= 1
    BY DEF GenPopped
  <1>4. PICK d \in Nat : d = f - l /\ d >= 1 /\ k = 4 * d - 1 - x
    BY <1>3
  <1>5. (k = 0 => x = 3) /\ (k < 0 => x # 3)
    BY <1>4 DEF GenPopped
  <1> QED
    BY <1>1, <1>2, <1>5

\* What a pop that finds a word does to its ring, and to the frames of its worker.
LEMMA PopRing ==
    ASSUME IInv, RingTypes, Rings, Heap, NEW w \in Inited, Pop(w), rcount[w] # 0, "ring" \notin raced'
    PROVE  /\ RingFits(w)'
           /\ \A f \in Nat :
                /\ f >= Len(read[w]) + 1
                /\ f <= Len(framed[w]) \/ (f = Len(framed[w]) + 1 /\ Pushed(w) >= 2)
                => IndexOf(w, f)' = IndexOf(w, f)
           /\ \A f \in Nat :
                /\ f >= Len(read[w]) + 1
                /\ f <= Len(framed[w]) \/ (f = Len(framed[w]) + 1 /\ Pushed(w) >= 3)
                => GenOf(w, f)' = GenOf(w, f)
           /\ (Freeing(w)' <=> Freeing(w)) /\ Base(w) = 4 * Len(read[w]) + wword[w] - 1
           /\ Popped(w) = wword[w] - 1 /\ Popped(w)' = wword[w]
           /\ Phys(w) >= 1
  <1> DEFINE x == rbuf[w][rhead[w]]
  <1>1. /\ w \in Wids /\ Len(read[w]) \in Nat /\ Len(framed[w]) \in Nat
        /\ rcount[w] \in Nat /\ wword[w] \in 1 .. 4 /\ wreg[w] \in Nat
        /\ Popped(w) \in 0 .. 4 /\ Base(w) \in Nat /\ Pushed(w) \in 0 .. 4
    BY Counts
  <1>2. /\ wpc[w] = "pop" /\ rhead' = [rhead EXCEPT ![w] = NextR(@)]
        /\ wreg' = [wreg EXCEPT ![w] = rcount[w]]
        /\ r0' = (IF wword[w] = 2 THEN [r0 EXCEPT ![w] = x] ELSE r0)
        /\ cur' = (IF wword[w] = 3 THEN [cur EXCEPT ![w] = <<r0[w], x>>] ELSE cur)
        /\ ~(dpc = "wstore" /\ dwid = w) /\ wpc' = [wpc EXCEPT ![w] = "pstore"]
        /\ UNCHANGED <<rbuf, rtail, rcount, obj, drainVars, wword, framed, read>>
    BY DEF Pop
  <1>3. /\ w \in Wids /\ rhead[w] \in Room /\ rhead'[w] = NextR(rhead[w]) /\ wreg'[w] = rcount[w]
        /\ wpc'[w] = "pstore"
        /\ r0'[w] = (IF wword[w] = 2 THEN x ELSE r0[w])
        /\ cur'[w] = (IF wword[w] = 3 THEN <<r0[w], x>> ELSE cur[w])
    BY <1>2, RingSizes DEF RingTypes
  <1>4. RingFits(w) /\ FrameSame(w) /\ ~Filling(w) /\ ~Filling(w)' /\ Pushed(w)' = Pushed(w)
    BY <1>2, SameFrame DEF Rings, FrameSame, drainVars, Filling
  <1>5. Popped(w) = wword[w] - 1 /\ Popped(w)' = wword[w]
    BY <1>2, <1>3 DEF Popped
  <1>6. /\ Base(w) = 4 * Len(read[w]) + wword[w] - 1 /\ Base(w)' = Base(w) + 1
        /\ Base(w) \in Nat
    <2>1. wpc[w] # "body" /\ wpc'[w] # "body" /\ read'[w] = read[w]
      BY <1>2, <1>3
    <2>2. Base(w) = 4 * Len(read[w]) + (wword[w] - 1)
      BY <1>1, <1>5, <2>1 DEF Base
    <2>3. Base(w)' = 4 * Len(read[w]) + wword[w]
      BY <1>1, <1>5, <2>1 DEF Base
    <2> QED
      BY <1>1, <2>2, <2>3
  <1>7. /\ Phys(w) = rcount[w] /\ Phys(w)' = Phys(w) - 1 /\ Held(w)' = Phys(w) - 1
        /\ Phys(w) \in Nat /\ Phys(w) >= 1 /\ Phys(w) <= Cap
    <2>1. Held(w) = rcount[w] /\ Held(w)' = rcount[w] - 1
      BY <1>1, <1>2, <1>3 DEF Held
    <2>2. Phys(w) = rcount[w] /\ Phys(w)' = rcount[w] - 1
      BY <1>1, <1>4, <2>1 DEF Phys
    <2>3. Phys(w) \in 0 .. Cap /\ Cap \in Nat
      BY <1>4, RingSizes DEF RingFits
    <2> QED
      BY <1>1, <2>1, <2>2, <2>3
  <1>8. ASSUME NEW k \in Nat, k < Cap PROVE RingWord(w, k)' = RingWord(w, k + 1)
    <2>1. (NextR(rhead[w]) + k) % Cap = (rhead[w] + (k + 1)) % Cap
      BY <1>3, <1>8, RingPositions
    <2> QED
      BY <1>2, <1>3, <2>1 DEF RingWord
  <1>9. x = RingWord(w, 0)
    <2>1. rhead[w] \in Nat /\ rhead[w] + 0 = rhead[w]
      BY <1>3, RingSizes
    <2>2. (rhead[w] + 0) % Cap = rhead[w]
      BY <1>3, <2>1, RingPositions
    <2> QED
      BY <2>2 DEF RingWord
  <1>10. rtail[w] = At(w, Phys(w)) /\ (NextR(rhead[w]) + (Phys(w) - 1)) % Cap = At(w, Phys(w))
    <2>1. Phys(w) - 1 \in Nat /\ Phys(w) - 1 < Cap /\ (Phys(w) - 1) + 1 = Phys(w)
      BY <1>7, RingSizes
    <2>2. (NextR(rhead[w]) + (Phys(w) - 1)) % Cap = (rhead[w] + Phys(w)) % Cap
      BY <1>3, <2>1, RingPositions
    <2> QED
      BY <1>4, <2>2 DEF At, RingFits
  <1>11. RingFits(w)'
    <2>1. rtail'[w] = At(w, Phys(w))'
      BY <1>2, <1>3, <1>7, <1>10 DEF At
    <2>2. (Held(w) \in Nat /\ Phys(w) \in 0 .. Cap)'
      BY <1>7, RingSizes
    <2>3. (Base(w) + Phys(w) = 4 * Len(framed[w]) + Pushed(w))'
      <3>1. /\ Base(w) + Phys(w) = 4 * Len(framed[w]) + Pushed(w) /\ framed'[w] = framed[w]
            /\ Base(w)' + Phys(w)' = (Base(w) + 1) + (Phys(w) - 1)
        BY <1>2, <1>4, <1>6, <1>7 DEF RingFits
      <3>2. (Base(w) + 1) + (Phys(w) - 1) = Base(w) + Phys(w)
        BY <1>1, <1>7
      <3> QED
        BY <1>4, <3>1, <3>2
    <2>4. (dwid = w /\ InFrame => rcount[w] + (IF Filling(w) THEN 1 ELSE 0) + 4 - Pushed(w) <= Cap)'
      BY <1>2, <1>4, SameFrame DEF RingFits
    <2> QED
      BY <1>2, <1>3, <1>4, <2>1, <2>2, <2>3, <2>4 DEF RingFits
  <1>12. Base(w) + Phys(w) = 4 * Len(framed[w]) + Pushed(w)
    BY <1>4 DEF RingFits
  <1> HIDE DEF x
  <1>13. ASSUME NEW f \in Nat, f >= Len(read[w]) + 1,
                f <= Len(framed[w]) \/ (f = Len(framed[w]) + 1 /\ Pushed(w) >= 2)
         PROVE  IndexOf(w, f)' = IndexOf(w, f)
    <2>1. PICK k \in Int : k = 4 * f - 3 - Base(w)
      BY <1>6
    <2>2. PICK l \in Nat, m \in Nat : l = Len(read[w]) /\ m = Len(framed[w])
      BY <1>1
    <2>3. PICK b \in Nat, r \in Nat : b = Base(w) /\ r = Phys(w)
      BY <1>1, <1>7
    <2>4. PICK p \in Nat, x4 \in Nat : p = Pushed(w) /\ x4 = wword[w]
      BY <1>1
    <2>5. x4 >= 1 /\ x4 <= 4
      BY <1>1, <2>2, <2>3, <2>4
    <2>6. b = 4 * l + x4 - 1
      BY <1>6, <2>2, <2>3, <2>4
    <2>7. b + r = 4 * m + p
      BY <1>12, <2>2, <2>3, <2>4
    <2>8. /\ f >= l + 1
          /\ f <= m \/ (f = m + 1 /\ p >= 2)
      BY <1>13, <2>2, <2>3, <2>4
    <2>9. k = 4 * f - 3 - b
      BY <2>1, <2>2, <2>3, <2>4
    <2>10. x4 \in 1 .. 4
      BY <2>5
    <2>11. IndexPopped(l, m, b, r, p, x4, f, k)
      BY <2>5, <2>6, <2>7, <2>8, <2>9 DEF IndexPopped
    <2>12. /\ k < r /\ 4 * f - 3 - (b + 1) = k - 1
           /\ (k = 0 => x4 = 2) /\ (k = -1 => x4 = 3) /\ (k < -1 => x4 # 3) /\ (x4 = 2 => k >= 0)
      BY <2>11, IndexWordAhead
    <2>13. k < Phys(w) /\ 4 * f - 3 - (Base(w) + 1) = k - 1
      BY <2>3, <2>12
    <2>14. wword[w] \in 1 .. 4 /\ (k = 0 => wword[w] = 2) /\ (k = -1 => wword[w] = 3)
           /\ (k < -1 => wword[w] # 3) /\ (wword[w] = 2 => k >= 0)
      BY <2>4, <2>10, <2>12
    <2>15. IndexOf(w, f)' = IndexAt(w, k - 1)' /\ IndexOf(w, f) = IndexAt(w, k)
      BY <1>6, <2>1, <2>13 DEF IndexOf, IndexAt
    <2>16. CASE k >= 1
      <3>1. k - 1 \in Nat /\ k - 1 < Cap /\ (k - 1) + 1 = k
        BY <1>7, <2>13, <2>16, RingSizes
      <3> QED
        BY <1>8, <2>15, <2>16, <3>1 DEF IndexAt
    <2>17. CASE k = 0
      BY <1>3, <1>9, <2>14, <2>15, <2>17 DEF IndexAt
    <2>18. CASE k = -1
      BY <1>3, <2>14, <2>15, <2>18 DEF IndexAt
    <2>19. CASE k < -1
      BY <1>3, <2>13, <2>14, <2>15, <2>19 DEF IndexAt
    <2> QED
      BY <2>13, <2>16, <2>17, <2>18, <2>19
  <1>14. ASSUME NEW f \in Nat, f >= Len(read[w]) + 1,
                f <= Len(framed[w]) \/ (f = Len(framed[w]) + 1 /\ Pushed(w) >= 3)
         PROVE  GenOf(w, f)' = GenOf(w, f)
    <2>1. PICK k \in Int : k = 4 * f - 2 - Base(w)
      BY <1>6
    <2>2. PICK l \in Nat, m \in Nat : l = Len(read[w]) /\ m = Len(framed[w])
      BY <1>1
    <2>3. PICK b \in Nat, r \in Nat : b = Base(w) /\ r = Phys(w)
      BY <1>1, <1>7
    <2>4. PICK p \in Nat, x4 \in Nat : p = Pushed(w) /\ x4 = wword[w]
      BY <1>1
    <2>5. x4 >= 1 /\ x4 <= 4
      BY <1>1, <2>2, <2>3, <2>4
    <2>6. b = 4 * l + x4 - 1
      BY <1>6, <2>2, <2>3, <2>4
    <2>7. b + r = 4 * m + p
      BY <1>12, <2>2, <2>3, <2>4
    <2>8. /\ f >= l + 1
          /\ f <= m \/ (f = m + 1 /\ p >= 3)
      BY <1>14, <2>2, <2>3, <2>4
    <2>9. k = 4 * f - 2 - b
      BY <2>1, <2>2, <2>3, <2>4
    <2>10. x4 \in 1 .. 4
      BY <2>5
    <2>11. GenPopped(l, m, b, r, p, x4, f, k)
      BY <2>5, <2>6, <2>7, <2>8, <2>9 DEF GenPopped
    <2>12. /\ k < r /\ 4 * f - 2 - (b + 1) = k - 1
           /\ (k = 0 => x4 = 3) /\ (k < 0 => x4 # 3)
      BY <2>11, GenWordAhead
    <2>13. k < Phys(w) /\ 4 * f - 2 - (Base(w) + 1) = k - 1
      BY <2>3, <2>12
    <2>14. wword[w] \in 1 .. 4 /\ (k = 0 => wword[w] = 3) /\ (k < 0 => wword[w] # 3)
      BY <2>4, <2>10, <2>12
    <2>15. GenOf(w, f)' = GenAt(w, k - 1)' /\ GenOf(w, f) = GenAt(w, k)
      BY <1>6, <2>1, <2>13 DEF GenOf, GenAt
    <2>16. CASE k >= 1
      <3>1. k - 1 \in Nat /\ k - 1 < Cap /\ (k - 1) + 1 = k
        BY <1>7, <2>13, <2>16, RingSizes
      <3> QED
        BY <1>8, <2>15, <2>16, <3>1 DEF GenAt
    <2>17. CASE k = 0
      BY <1>3, <1>9, <2>14, <2>15, <2>17 DEF GenAt
    <2>18. CASE k < 0
      BY <1>3, <2>13, <2>14, <2>15, <2>18 DEF GenAt
    <2> QED
      BY <2>13, <2>16, <2>17, <2>18
  <1>15. Freeing(w)' <=> Freeing(w)
    BY <1>2, <1>3 DEF Freeing
  <1> QED
    BY <1>5, <1>6, <1>7, <1>11, <1>13, <1>14, <1>15

\* The other workers at a pop.
LEMMA PopOthers ==
    ASSUME RingTypes, NEW w \in Inited, Pop(w), rcount[w] # 0
    PROVE  \A v \in Inited : v # w => WorkerSame(v) /\ RingSame(v)
  <1>1. /\ rhead' = [rhead EXCEPT ![w] = NextR(@)]
        /\ wreg' = [wreg EXCEPT ![w] = rcount[w]]
        /\ \E x : r0' = (IF wword[w] = 2 THEN [r0 EXCEPT ![w] = x] ELSE r0)
        /\ \E h : cur' = (IF wword[w] = 3 THEN [cur EXCEPT ![w] = h] ELSE cur)
        /\ wpc' = [wpc EXCEPT ![w] = "pstore"]
        /\ UNCHANGED <<rbuf, rtail, rcount, wword, framed, read>>
    BY DEF Pop
  <1> SUFFICES ASSUME NEW v \in Inited, v # w PROVE WorkerSame(v) /\ RingSame(v)
    OBVIOUS
  <1>2. wreg'[v] = wreg[v] /\ r0'[v] = r0[v] /\ cur'[v] = cur[v] /\ wpc'[v] = wpc[v]
    BY <1>1 DEF RingTypes
  <1>3. rhead'[v] = rhead[v]
    BY <1>1, RingSizes DEF RingTypes
  <1> QED
    BY <1>1, <1>2, <1>3 DEF WorkerSame, RingSame

LEMMA PopWordHeap ==
    ASSUME IInv, RingTypes, Rings, Heap, NEW w \in Inited, Pop(w), rcount[w] # 0, wword[w] # 3,
           "ring" \notin raced'
    PROVE  Rings' /\ Heap'
  <1>1. UNCHANGED <<drainVars, obj, framed, read, cur, orphans>> /\ wpc'[w] = "pstore" /\ wpc[w] = "pop"
    BY DEF Pop, RingTypes
  <1>2. Taken(w)' <=> Taken(w)
    BY <1>1, PopRing, Counts DEF Taken
  <1>3. \A f \in Pending(w) \union {Len(framed[w]) + 1} :
            /\ f \in Nat /\ f >= Len(read[w]) + 1
            /\ f \in Pending(w) => f <= Len(framed[w])
    BY Counts DEF Heap, ReadOf
  <1>4. \A f \in Pending(w) \union {Len(framed[w]) + 1} :
            f \in Pending(w) \/ Pushed(w) >= 2 => IndexOf(w, f)' = IndexOf(w, f)
    BY <1>3, PopRing
  <1>5. \A f \in Pending(w) \union {Len(framed[w]) + 1} :
            f \in Pending(w) \/ Pushed(w) >= 3 => GenOf(w, f)' = GenOf(w, f)
    BY <1>3, PopRing
  <1>6. RingFits(w)' /\ (Freeing(w)' <=> Freeing(w))
    BY PopRing
  <1>7. \A v \in Inited : v # w => WorkerSame(v) /\ RingSame(v)
    BY PopOthers
  <1> QED
    BY <1>1, <1>2, <1>4, <1>5, <1>6, <1>7, OneWorker

----------------------------------------------------------------------------
(* Handles that change hands, and objects that are freed                   *)

\* The frame whose handle a worker has popped is complete, or is the one the drain is at.
LEMMA TakenFrame ==
    ASSUME IInv, RingTypes, Rings, NEW w \in Inited, Base(w) + Phys(w) >= 4 * Len(read[w]) + 3
    PROVE  /\ Len(read[w]) + 1 \in Pending(w) \/ (Len(framed[w]) <= Len(read[w]) /\ Pushed(w) >= 3)
           /\ Len(read[w]) + 1 \in Nat
  <1>1. PICK l \in Nat, m \in Nat, p \in 0 .. 4 :
                l = Len(read[w]) /\ m = Len(framed[w]) /\ p = Pushed(w)
    BY Counts
  <1>2. 4 * m + p >= 4 * l + 3
    BY <1>1 DEF Rings, RingFits
  <1>3. m >= l + 1 \/ (m <= l /\ p >= 3)
    BY <1>2
  <1>4. m >= l + 1 => l + 1 \in l + 1 .. m
    OBVIOUS
  <1> QED
    BY <1>1, <1>3, <1>4 DEF Pending

\* Whoever is past the words of a frame has it, and what is in frames or with the drain is live.
LEMMA PopHandleHeap ==
    ASSUME IInv, RingTypes, Rings, Heap, NEW w \in Inited, Pop(w), rcount[w] # 0, wword[w] = 3,
           "ring" \notin raced'
    PROVE  Rings' /\ Heap'
  <1> DEFINE h == <<r0[w], rbuf[w][rhead[w]]>>
  <1>1. /\ wpc[w] = "pop" /\ cur' = [cur EXCEPT ![w] = h]
        /\ orphans' = (IF Valid(cur[w]) /\ cur[w] # h THEN orphans \union {cur[w][1]} ELSE orphans)
        /\ wpc' = [wpc EXCEPT ![w] = "pstore"]
        /\ UNCHANGED <<obj, drainVars, framed, read>>
    BY DEF Pop
  <1>2. /\ w \in Wids /\ cur'[w] = h /\ wpc'[w] = "pstore"
        /\ \A v \in Inited : v # w => cur'[v] = cur[v] /\ wpc'[v] = wpc[v]
    BY <1>1, RingSizes DEF RingTypes
  <1>3. PICK l \in Nat : l = Len(read[w])
    BY Counts
  <1>4. /\ Base(w) = 4 * l + 2 /\ Popped(w) = 2 /\ Popped(w)' = 3
        /\ Base(w) + Phys(w) >= 4 * l + 3
    <2>1. PICK b \in Int, r \in Int : b = Base(w) /\ r = Phys(w)
      BY Counts DEF Rings, RingFits
    <2>2. b = 4 * l + 3 - 1 /\ r >= 1
      BY <1>3, <2>1, PopRing
    <2>3. b = 4 * l + 2 /\ b + r >= 4 * l + 3
      BY <2>2
    <2> QED
      BY <2>1, <2>3, PopRing
  <1>5. ~Taken(w) /\ Taken(w)' /\ ~Freeing(w) /\ ~Freeing(w)'
    BY <1>1, <1>2, <1>4 DEF Taken, Freeing
  <1>6. IndexOf(w, l + 1) = h[1] /\ GenOf(w, l + 1) = h[2]
    <2>1. 4 * (l + 1) - 3 - (4 * l + 2) = -1 /\ 4 * (l + 1) - 2 - (4 * l + 2) = 0
      OBVIOUS
    <2>2. RingWord(w, 0) = rbuf[w][rhead[w]]
      <3>1. rhead[w] \in Room /\ rhead[w] \in Nat /\ rhead[w] + 0 = rhead[w]
        <4>1. rhead[w] \in Room
          BY <1>2 DEF RingTypes
        <4> QED
          BY <4>1, RingSizes
      <3>2. (rhead[w] + 0) % Cap = rhead[w]
        BY <3>1, RingPositions
      <3> QED
        BY <3>2 DEF RingWord, h
    <2> QED
      BY <1>4, <2>1, <2>2 DEF IndexOf, GenOf, IndexAt, GenAt, h
  <1> HIDE DEF h
  <1>7. \A v \in Inited : Pending(v)' = Pending(v)
    BY <1>1 DEF Pending
  <1>8. ASSUME NEW v \in Inited, NEW f \in Pending(v)
        PROVE  IndexOf(v, f)' = IndexOf(v, f) /\ GenOf(v, f)' = GenOf(v, f)
    <2>1. f \in Nat /\ f >= Len(read[v]) + 1 /\ f <= Len(framed[v])
      BY Counts
    <2>2. CASE v = w
      BY <2>1, <2>2, PopRing
    <2>3. CASE v # w
      BY <2>3, PopOthers, SameWords
    <2> QED
      BY <2>2, <2>3
  <1>9. ASSUME NEW v \in Inited, v # w
        PROVE  RingFits(v)' /\ PartOf(v)' /\ (Taken(v)' <=> Taken(v)) /\ (Freeing(v)' <=> Freeing(v))
    <2>1. WorkerSame(v) /\ RingSame(v) /\ FrameSame(v) /\ RingFits(v) /\ PartOf(v)
      BY <1>1, <1>9, PopOthers DEF FrameSame, drainVars, Rings, Heap
    <2>2. RingFits(v)'
      BY <2>1, SameWords, SameFits DEF WorkerSame, RingSame
    <2>3. PartOf(v)'
      BY <2>1, SameWords, SamePart DEF RingSame
    <2> QED
      BY <2>1, <2>2, <2>3, SameWords
  <1>10. Rings'
    BY <1>9, PopRing DEF Rings
  <1>11. PartOf(w)'
    <2>1. Pushed(w)' = Pushed(w) /\ UNCHANGED dh /\ framed'[w] = framed[w] /\ PartOf(w)
      BY <1>1, SameFrame DEF FrameSame, drainVars, Heap
    <2>2. PICK f \in Nat : f = Len(framed[w]) + 1 /\ f >= Len(read[w]) + 1
      BY Counts DEF Heap, ReadOf
    <2>3. Pushed(w) >= 2 => IndexOf(w, f)' = IndexOf(w, f)
      BY <2>2, PopRing
    <2>4. Pushed(w) >= 3 => GenOf(w, f)' = GenOf(w, f)
      BY <2>2, PopRing
    <2> QED
      BY <2>1, <2>2, <2>3, <2>4 DEF PartOf
  <1>12. \A i, g, o, m : Live(i, g, o, m)' <=> Live(i, g, o, m)
    BY <1>1 DEF Live
  <1>13. ASSUME NEW v \in Inited PROVE ReadOf(v)' /\ FramesOf(v)'
    <2>1. ReadOf(v) /\ FramesOf(v) /\ UNCHANGED <<framed, read>>
      BY <1>1 DEF Heap
    <2> QED
      BY <1>7, <1>8, <1>12, <2>1 DEF ReadOf, FramesOf
  <1>14. UNCHANGED <<dpc, dwid, dmsg, dh>> /\ (Delivering' <=> Delivering) /\ (InFrame' <=> InFrame)
    BY <1>1 DEF drainVars, Delivering, InFrame
  <1>15. DeliveryOf'
    BY <1>7, <1>8, <1>12, <1>14 DEF DeliveryOf, Heap
  <1>16. /\ \E m : Live(h[1], h[2], w, m)
         /\ \/ l + 1 \in Pending(w)
            \/ Delivering /\ h[1] = dh[1]
    <2>1. l + 1 \in Pending(w) \/ (Len(framed[w]) <= l /\ Pushed(w) >= 3)
      BY <1>3, <1>4, TakenFrame
    <2>2. CASE l + 1 \in Pending(w)
      BY <1>6, <2>2 DEF Heap, FramesOf
    <2>3. CASE Len(framed[w]) <= l /\ Pushed(w) >= 3
      <3>1. Len(framed[w]) + 1 = l + 1 /\ Pushed(w) >= 2
        BY <1>3, <2>3, Counts DEF Heap, ReadOf
      <3>2. h[1] = dh[1] /\ h[2] = dh[2]
        BY <1>6, <2>3, <3>1 DEF Heap, PartOf
      <3>3. dwid = w /\ Delivering /\ dpc # "copy"
        BY <2>3 DEF Pushed, Delivering
      <3> QED
        BY <3>2, <3>3 DEF Heap, DeliveryOf
    <2> QED
      BY <2>1, <2>2, <2>3
  <1>17. \A v \in Inited : v # w => (Valid(cur[v])' <=> Valid(cur[v]))
    BY <1>1, <1>2 DEF Valid
  <1>18. Valid(cur[w])' /\ h[1] \in Slots /\ obj[h[1]].used /\ obj[h[1]].owner = w
         /\ obj[h[1]].gen = h[2]
    BY <1>1, <1>2, <1>16 DEF Valid, Live
  <1>19. ASSUME NEW v \in Inited PROVE CurOf(v)'
    <2>1. CASE v = w
      <3>1. h[2] <= obj[h[1]].gen
        BY <1>18 DEF RingTypes, Objects
      <3> QED
        BY <1>1, <1>2, <1>5, <1>18, <2>1, <3>1 DEF CurOf
    <2>2. CASE v # w
      BY <1>1, <1>2, <1>7, <1>8, <1>9, <1>14, <1>17, <2>2 DEF CurOf, Heap
    <2> QED
      BY <2>1, <2>2
  <1>20. FreesApart'
    BY <1>2, <1>5, <1>9 DEF FreesApart, Heap
  <1>21. \A s : Refd(s)' =>
            \/ Refd(s) /\ ~(Valid(cur[w]) /\ s = cur[w][1])
            \/ \E v \in Inited : v # w /\ Valid(cur[v]) /\ s = cur[v][1]
            \/ Refd(s) /\ s = h[1]
    <2> SUFFICES ASSUME NEW s, Refd(s)' PROVE
            \/ Refd(s) /\ ~(Valid(cur[w]) /\ s = cur[w][1])
            \/ \E v \in Inited : v # w /\ Valid(cur[v]) /\ s = cur[v][1]
            \/ Refd(s) /\ s = h[1]
      OBVIOUS
    <2>1. CASE Delivering' /\ s = dh'[1]
      <3>1. Valid(cur[w]) => s # cur[w][1]
        BY <1>5, <1>14, <2>1 DEF Heap, CurOf
      <3> QED
        BY <1>14, <2>1, <3>1 DEF Refd
    <2>2. CASE \E v \in Inited : Valid(cur[v])' /\ s = cur'[v][1]
      <3>1. CASE Valid(cur[w])' /\ s = cur'[w][1]
        <4>1. s = h[1]
          BY <1>2, <3>1
        <4>2. Refd(s)
          BY <1>6, <1>16, <4>1 DEF Refd
        <4> QED
          BY <4>1, <4>2
      <3> QED
        BY <1>2, <1>17, <2>2, <3>1
    <2>3. CASE \E v \in Inited : \E f \in Pending(v)' : s = IndexOf(v, f)'
      <3>1. PICK v \in Inited : \E f \in Pending(v) : s = IndexOf(v, f)
        BY <1>7, <1>8, <2>3
      <3>2. Refd(s)
        BY <3>1 DEF Refd
      <3>3. CASE v = w
        BY <1>5, <3>1, <3>2, <3>3 DEF Heap, CurOf
      <3>4. CASE v # w
        <4>1. obj[s].owner = v
          BY <3>1 DEF Heap, FramesOf, Live
        <4>2. Valid(cur[w]) => obj[cur[w][1]].owner = w
          BY <1>5 DEF Heap, CurOf, Valid
        <4> QED
          BY <3>2, <3>4, <4>1, <4>2
      <3> QED
        BY <3>3, <3>4
    <2> QED
      BY <2>1, <2>2, <2>3 DEF Refd
  <1>22. ASSUME Valid(cur[w]) PROVE cur[w][1] # h[1]
    <2>1. CASE l + 1 \in Pending(w)
      BY <1>5, <1>6, <1>22, <2>1 DEF Heap, CurOf
    <2>2. CASE Delivering /\ h[1] = dh[1]
      BY <1>5, <1>22, <2>2 DEF Heap, CurOf
    <2> QED
      BY <1>16, <2>1, <2>2
  <1>23. ASSUME NEW v \in Inited, v # w, Valid(cur[v]), Valid(cur[w]) PROVE cur[v][1] # cur[w][1]
    <2>1. \A u \in Inited : CurOf(u)
      BY DEF Heap
    <2>2. ~Freeing(v)
      BY <1>23, <2>1 DEF CurOf, Valid
    <2>3. obj[cur[v][1]].owner = v /\ obj[cur[w][1]].owner = w
      BY <1>5, <1>23, <2>1, <2>2 DEF CurOf, Valid
    <2> QED
      BY <1>23, <2>3
  <1>24. OrphansOf'
    <2>1. ASSUME NEW s \in orphans PROVE ~Refd(s)'
      <3>1. ~Refd(s)
        BY DEF Heap, OrphansOf
      <3> QED
        BY <1>21, <3>1 DEF Refd
    <2>2. ASSUME NEW s \in Slots, Valid(cur[w]), s = cur[w][1]
          PROVE  obj[s].used /\ ~Refd(s)'
      <3>1. \A v \in Inited : v # w /\ Valid(cur[v]) => cur[v][1] # cur[w][1]
        BY <1>23, <2>2
      <3>2. cur[w][1] # h[1]
        BY <1>22, <2>2
      <3>3. ~Refd(s)'
        BY <1>21, <2>2, <3>1, <3>2
      <3> QED
        BY <2>2, <3>3 DEF Valid
    <2>3. \A s \in orphans : s \in Slots /\ obj[s].used
      BY DEF Heap, OrphansOf
    <2> QED
      BY <1>1, <2>1, <2>2, <2>3 DEF OrphansOf, Valid
  <1>25. Covered'
    <2> SUFFICES ASSUME NEW s \in Slots, obj[s].used PROVE s \in orphans' \/ Refd(s)'
      BY <1>1 DEF Covered
    <2>1. s \in orphans \/ Refd(s)
      BY DEF Heap, Covered
    <2>2. CASE s \in orphans
      BY <1>1, <2>2
    <2>3. CASE Delivering /\ s = dh[1]
      BY <1>14, <2>3 DEF Refd
    <2>4. CASE \E v \in Inited : Valid(cur[v]) /\ s = cur[v][1]
      <3>1. CASE Valid(cur[w]) /\ s = cur[w][1]
        BY <1>1, <1>22, <3>1
      <3>2. CASE \E v \in Inited : v # w /\ Valid(cur[v]) /\ s = cur[v][1]
        BY <1>2, <1>17, <3>2 DEF Refd
      <3> QED
        BY <2>4, <3>1, <3>2
    <2>5. CASE \E v \in Inited : \E f \in Pending(v) : s = IndexOf(v, f)
      BY <1>7, <1>8, <2>5 DEF Refd
    <2> QED
      BY <2>1, <2>2, <2>3, <2>4, <2>5 DEF Refd
  <1>26. \A v \in Inited : PartOf(v)'
    BY <1>9, <1>11
  <1> QED
    BY <1>10, <1>13, <1>15, <1>19, <1>20, <1>24, <1>25, <1>26 DEF Heap

\* A body has the object of the first frame it has not read.
LEMMA BodyObject ==
    ASSUME IInv, RingTypes, Rings, Heap, NEW w \in Inited, wpc[w] = "body"
    PROVE  /\ Len(read[w]) + 1 \in Pending(w)
           /\ IndexOf(w, Len(read[w]) + 1) = cur[w][1]
           /\ Live(cur[w][1], cur[w][2], w, framed[w][Len(read[w]) + 1])
           /\ Valid(cur[w])
  <1>1. PICK l \in Nat, m \in Nat, p \in 0 .. 4 :
                l = Len(read[w]) /\ m = Len(framed[w]) /\ p = Pushed(w)
    BY Counts
  <1>2. PICK r \in Int : r = Phys(w)
    BY DEF Rings, RingFits
  <1>3. Popped(w) = 0 /\ Base(w) = 4 * l + 4
    BY <1>1 DEF Popped, Base
  <1>4. 4 * l + 4 + r = 4 * m + p /\ r >= 0
    BY <1>1, <1>2, <1>3 DEF Rings, RingFits
  <1>5. p = 4 => r >= 1
    <2>1. p = 4 => Filling(w)
      <3>1. ~Filling(w) => p <= 3
        BY <1>1, Counts
      <3> QED
        BY <3>1
    <2>2. Filling(w) => Phys(w) = Held(w) + 1 /\ Held(w) \in Nat
      BY DEF Phys, Rings, RingFits
    <2> QED
      BY <1>2, <2>1, <2>2
  <1>6. m >= l + 1
    BY <1>4, <1>5
  <1>7. l + 1 \in Pending(w)
    BY <1>1, <1>6 DEF Pending
  <1>8. IndexOf(w, l + 1) = cur[w][1] /\ GenOf(w, l + 1) = cur[w][2]
    <2>1. 4 * (l + 1) - 3 - (4 * l + 4) = -3 /\ 4 * (l + 1) - 2 - (4 * l + 4) = -2
      OBVIOUS
    <2> QED
      BY <1>3, <2>1 DEF IndexOf, GenOf, IndexAt, GenAt
  <1>9. Live(cur[w][1], cur[w][2], w, framed[w][l + 1])
    BY <1>7, <1>8 DEF Heap, FramesOf
  <1> QED
    BY <1>1, <1>7, <1>8, <1>9 DEF Valid, Live

LEMMA BodyHeap ==
    ASSUME IInv, RingTypes, Rings, Heap, NEW w \in Inited, Body(w), Valid(cur[w])
    PROVE  Rings' /\ Heap'
  <1>1. /\ wpc[w] = "body" /\ wpc' = [wpc EXCEPT ![w] = "ended"]
        /\ read' = [read EXCEPT ![w] = Append(@, obj[cur[w][1]].msg)]
        /\ UNCHANGED <<ringVars, obj, drainVars, wword, wreg, r0, cur, framed, orphans>>
    BY DEF Body
  <1>2. PICK l \in Nat : l = Len(read[w]) /\ w \in Wids
    BY Counts
  <1>3. /\ l + 1 \in Pending(w) /\ IndexOf(w, l + 1) = cur[w][1]
        /\ Live(cur[w][1], cur[w][2], w, framed[w][l + 1])
    BY <1>1, <1>2, BodyObject
  <1>4. PICK x \in 0 .. NMsgs : x = obj[cur[w][1]].msg /\ x = framed[w][l + 1]
    BY <1>3 DEF Live, RingTypes, Objects
  <1>5. /\ read'[w] = Append(read[w], x) /\ wpc'[w] = "ended"
        /\ \A v \in Inited : v # w => read'[v] = read[v] /\ wpc'[v] = wpc[v]
    BY <1>1, <1>2, <1>4, RingSizes DEF RingTypes
  <1>6. /\ Len(read'[w]) = l + 1 /\ read'[w][l + 1] = x
        /\ \A j \in 1 .. l : read'[w][j] = read[w][j]
    <2>1. read[w] \in Seq(0 .. NMsgs)
      BY <1>2 DEF RingTypes
    <2> QED
      BY <1>2, <1>5, <2>1, AppendMembers
  <1>7. ASSUME NEW v \in Inited, v # w PROVE WorkerSame(v) /\ RingSame(v) /\ FrameSame(v)
    BY <1>1, <1>5, <1>7 DEF WorkerSame, RingSame, FrameSame, ringVars, drainVars
  <1>8. Popped(w) = 0 /\ Popped(w)' = 0 /\ Base(w) = 4 * l + 4 /\ Base(w)' = 4 * l + 4
    <2>1. Popped(w) = 0 /\ Popped(w)' = 0
      BY <1>1, <1>5 DEF Popped
    <2>2. Base(w) = 4 * l + 4
      BY <1>1, <1>2, <2>1 DEF Base
    <2>3. Base(w)' = 4 * (l + 1)
      BY <1>5, <1>6, <2>1 DEF Base
    <2> QED
      BY <2>1, <2>2, <2>3
  <1>9. RingFits(w)'
    BY <1>1, <1>5, <1>8, SameFits DEF Rings, FrameSame, ringVars, drainVars
  <1>10. Rings'
    <2>1. ASSUME NEW v \in Inited, v # w PROVE RingFits(v)'
      BY <1>7, <2>1, SameWords, SameFits DEF WorkerSame, RingSame, Rings
    <2> QED
      BY <1>9, <2>1 DEF Rings
  <1>11. \A v \in Inited : \A f : IndexOf(v, f)' = IndexOf(v, f) /\ GenOf(v, f)' = GenOf(v, f)
    <2>1. \A f : IndexOf(w, f)' = IndexOf(w, f) /\ GenOf(w, f)' = GenOf(w, f)
      BY <1>1, <1>8 DEF IndexOf, GenOf, IndexAt, GenAt, RingWord, ringVars
    <2> QED
      BY <1>7, <2>1, SameWords
  <1>12. \A v \in Inited : PartOf(v)'
    BY <1>1, <1>11, SamePart DEF Heap, FrameSame, drainVars
  <1>13. /\ Pending(w)' = Pending(w) \ {l + 1}
         /\ \A v \in Inited : v # w => Pending(v)' = Pending(v)
    <2>1. PICK m \in Nat : m = Len(framed[w]) /\ framed' = framed
      BY <1>1, Counts
    <2>2. (l + 1) + 1 .. m = (l + 1 .. m) \ {l + 1}
      OBVIOUS
    <2> QED
      BY <1>2, <1>5, <1>6, <2>1, <2>2 DEF Pending
  <1>14. ASSUME NEW v \in Inited PROVE ReadOf(v)'
    <2>1. CASE v = w
      <3>1. PICK m \in Nat : m = Len(framed[w]) /\ l + 1 <= m
        BY <1>3, Counts
      <3>2. \A j \in 1 .. l + 1 : j \in 1 .. l \/ j = l + 1
        OBVIOUS
      <3>3. \A j \in 1 .. l + 1 : read'[w][j] = framed[w][j]
        BY <1>2, <1>4, <1>6, <3>2 DEF Heap, ReadOf
      <3> QED
        BY <1>1, <1>6, <2>1, <3>1, <3>3 DEF ReadOf
    <2>2. CASE v # w
      BY <1>1, <1>5, <2>2, SameRead DEF Heap
    <2> QED
      BY <2>1, <2>2
  <1>15. \A i, g, o, m : Live(i, g, o, m)' <=> Live(i, g, o, m)
    BY <1>1 DEF Live
  <1>16. \A v \in Inited : FramesOf(v)'
    BY <1>1, <1>11, <1>13, <1>15 DEF FramesOf, Heap
  <1>17. UNCHANGED <<dpc, dwid, dmsg, dh>> /\ (Delivering' <=> Delivering) /\ (InFrame' <=> InFrame)
    BY <1>1 DEF drainVars, Delivering, InFrame
  <1>18. DeliveryOf'
    BY <1>11, <1>13, <1>15, <1>17 DEF DeliveryOf, Heap
  <1>19. \A v \in Inited : (Valid(cur[v])' <=> Valid(cur[v])) /\ (Freeing(v)' <=> Freeing(v))
    BY <1>1, <1>5 DEF Valid, Freeing
  <1>20. ASSUME NEW v \in Inited PROVE CurOf(v)'
    <2>1. CASE v = w
      <3>1. \A f \in Pending(w)' : IndexOf(w, f)' # cur[w][1]
        BY <1>3, <1>11, <1>13 DEF Heap, FramesOf
      <3>2. Delivering => dh[1] # cur[w][1]
        BY <1>3 DEF Heap, DeliveryOf
      <3>3. CurOf(w)
        BY DEF Heap
      <3> QED
        BY <1>1, <1>17, <1>19, <2>1, <3>1, <3>2, <3>3 DEF CurOf
    <2>2. CASE v # w
      <3>1. Taken(v)' <=> Taken(v)
        BY <1>7, <2>2, SameWords
      <3> QED
        BY <1>1, <1>11, <1>13, <1>17, <1>19, <2>2, <3>1 DEF CurOf, Heap
    <2> QED
      BY <2>1, <2>2
  <1>21. FreesApart'
    BY <1>1, <1>19 DEF FreesApart, Heap
  <1>22. ASSUME NEW s PROVE Refd(s)' <=> Refd(s)
    <2>1. Delivering' /\ s = dh'[1] <=> Delivering /\ s = dh[1]
      BY <1>17
    <2>2. (\E v \in Inited : Valid(cur[v])' /\ s = cur'[v][1])
            <=> \E v \in Inited : Valid(cur[v]) /\ s = cur[v][1]
      BY <1>1, <1>19
    <2>3. (\E v \in Inited : \E f \in Pending(v)' : s = IndexOf(v, f)')
            => \E v \in Inited : \E f \in Pending(v) : s = IndexOf(v, f)
      BY <1>11, <1>13
    <2>4. (\E v \in Inited : \E f \in Pending(v) : s = IndexOf(v, f))
            => \/ \E v \in Inited : \E f \in Pending(v)' : s = IndexOf(v, f)'
               \/ \E v \in Inited : Valid(cur[v]) /\ s = cur[v][1]
      <3> SUFFICES ASSUME NEW v \in Inited, NEW f \in Pending(v), s = IndexOf(v, f)
                   PROVE  \/ \E u \in Inited : \E g \in Pending(u)' : s = IndexOf(u, g)'
                          \/ \E u \in Inited : Valid(cur[u]) /\ s = cur[u][1]
        OBVIOUS
      <3>1. CASE v = w /\ f = l + 1
        BY <1>3, <3>1
      <3>2. CASE ~(v = w /\ f = l + 1)
        BY <1>11, <1>13, <3>2
      <3> QED
        BY <3>1, <3>2
    <2> QED
      BY <2>1, <2>2, <2>3, <2>4 DEF Refd
  <1>23. OrphansOf' /\ Covered'
    BY <1>1, <1>22 DEF OrphansOf, Covered, Heap
  <1> QED
    BY <1>10, <1>12, <1>14, <1>16, <1>18, <1>20, <1>21, <1>23 DEF Heap

----------------------------------------------------------------------------
(* Frees                                                                   *)

\* The current object of a worker that holds no frame's handle, when its entry changes: nobody
\* else refers to the entry.
LEMMA FreedAlone ==
    ASSUME Heap, NEW w \in Inited, ~Taken(w), Valid(cur[w]) \/ Freeing(w)
    PROVE  /\ \A v \in Inited : \A f \in Pending(v) : IndexOf(v, f) # cur[w][1]
           /\ Delivering => dh[1] # cur[w][1]
           /\ cur[w][1] \in Slots /\ cur[w][1] \notin orphans
           /\ \A v \in Inited : v # w /\ cur[v][1] = cur[w][1] =>
                cur[v][2] # obj[cur[v][1]].gen /\ ~Freeing(v) /\ ~Valid(cur[v])
  <1>1. \A v \in Inited : CurOf(v)
    BY DEF Heap
  <1>2. CASE Freeing(w)
    <2>1. ~obj[cur[w][1]].used /\ cur[w][1] \in Slots
      BY <1>1, <1>2 DEF CurOf
    <2>2. \A v \in Inited : \A f \in Pending(v) : IndexOf(v, f) # cur[w][1]
      BY <2>1 DEF Heap, FramesOf, Live
    <2>3. Delivering => dh[1] # cur[w][1]
      BY <2>1 DEF Heap, DeliveryOf, Live
    <2>4. cur[w][1] \notin orphans
      BY <2>1 DEF Heap, OrphansOf
    <2>5. ASSUME NEW v \in Inited, v # w, cur[v][1] = cur[w][1]
          PROVE  cur[v][2] # obj[cur[v][1]].gen /\ ~Freeing(v) /\ ~Valid(cur[v])
      <3>1. ~Freeing(v)
        BY <1>2, <2>5 DEF Heap, FreesApart
      <3> QED
        BY <1>1, <2>1, <2>5, <3>1 DEF CurOf, Valid
    <2> QED
      BY <2>1, <2>2, <2>3, <2>4, <2>5
  <1>3. CASE Valid(cur[w]) /\ ~Freeing(w)
    <2>1. obj[cur[w][1]].used /\ cur[w][1] \in Slots /\ obj[cur[w][1]].owner = w
      BY <1>1, <1>3 DEF CurOf, Valid
    <2>2. \A f \in Pending(w) : IndexOf(w, f) # cur[w][1]
      BY <1>1, <1>3 DEF CurOf
    <2>3. \A v \in Inited : v # w => \A f \in Pending(v) : IndexOf(v, f) # cur[w][1]
      BY <2>1 DEF Heap, FramesOf, Live
    <2>4. Delivering => dh[1] # cur[w][1]
      BY <1>1, <1>3 DEF CurOf
    <2>5. cur[w][1] \notin orphans
      BY <1>3 DEF Heap, OrphansOf, Refd
    <2>6. ASSUME NEW v \in Inited, v # w, cur[v][1] = cur[w][1]
          PROVE  cur[v][2] # obj[cur[v][1]].gen /\ ~Freeing(v) /\ ~Valid(cur[v])
      BY <1>1, <2>1, <2>6 DEF CurOf, Valid
    <2> QED
      BY <2>1, <2>2, <2>3, <2>4, <2>5, <2>6
  <1> QED
    BY <1>2, <1>3

\* Steps at which a worker does something to the entry of its current object, or forgets it.
LEMMA FreeRings ==
    ASSUME IInv, RingTypes, Rings, Heap, NEW w \in Inited, wpc[w] \in {"wait", "ended", "freeing", "bfreeing"},
           \E q \in {"freeing", "bfreeing", "park", "wait"} : wpc' = [wpc EXCEPT ![w] = q],
           \E h : cur' = [cur EXCEPT ![w] = h],
           UNCHANGED <<ringVars, drainVars, wword, wreg, r0, read, framed>>
    PROVE  /\ Rings'
           /\ \A v \in Inited : /\ Pending(v)' = Pending(v)
                                /\ v # w => WorkerSame(v) /\ RingSame(v)
                                /\ PartOf(v)'
                                /\ \A f \in Pending(v) : /\ IndexOf(v, f)' = IndexOf(v, f)
                                                         /\ GenOf(v, f)' = GenOf(v, f)
           /\ ~Taken(w) /\ ~Taken(w)'
           /\ \A v \in Inited : Taken(v)' <=> Taken(v)
  <1>1. PICK q \in {"freeing", "bfreeing", "park", "wait"} : wpc' = [wpc EXCEPT ![w] = q]
    OBVIOUS
  <1>2. ASSUME NEW v \in Inited, v # w PROVE WorkerSame(v) /\ RingSame(v)
    BY <1>1, <1>2 DEF WorkerSame, RingSame, ringVars, RingTypes
  <1>3. \A v \in Inited : FrameSame(v)
    BY DEF FrameSame, drainVars
  <1>4. wpc'[w] = q
    BY <1>1 DEF RingTypes
  <1>5. Popped(w) = 0 /\ Popped(w)' = 0 /\ ~Taken(w) /\ ~Taken(w)'
    <2>1. Popped(w) = 0 /\ Popped(w)' = 0
      BY <1>4 DEF Popped
    <2> QED
      BY <1>4, <2>1 DEF Taken
  <1>6. Base(w)' = Base(w) /\ Base(w) = 4 * Len(read[w]) + 0 + 0
    BY <1>4, <1>5 DEF Base
  <1>7. \A v \in Inited : Pending(v)' = Pending(v)
    BY DEF Pending
  <1>8. RingFits(w)'
    BY <1>3, <1>4, <1>6, SameFits DEF Rings, ringVars
  <1>9. Rings'
    <2>1. ASSUME NEW v \in Inited, v # w PROVE RingFits(v)'
      BY <1>2, <1>3, <2>1, SameWords, SameFits DEF WorkerSame, RingSame, Rings
    <2> QED
      BY <1>8, <2>1 DEF Rings
  <1>10. ASSUME NEW f \in Nat, f >= 1, NEW l \in Nat, l = Len(read[w]), f >= l + 1
         PROVE  IndexOf(w, f)' = IndexOf(w, f) /\ GenOf(w, f)' = GenOf(w, f)
    <2>1. Base(w) = 4 * l
      BY <1>6, <1>10
    <2>7. 4 * f - 3 - 4 * l \in Int /\ 4 * f - 3 - 4 * l >= 0
      BY <1>10
    <2>8. 4 * f - 2 - 4 * l \in Int /\ 4 * f - 2 - 4 * l >= 0
      BY <1>10
    <2>2. PICK j \in Nat : j = 4 * f - 3 - 4 * l
      BY <2>7
    <2>3. PICK k \in Nat : k = 4 * f - 2 - 4 * l
      BY <2>8
    <2>4. IndexOf(w, f) = RingWord(w, j) /\ IndexOf(w, f)' = RingWord(w, j)'
      BY <1>6, <2>1, <2>2 DEF IndexOf, IndexAt
    <2>9. 4 * f - 2 - Base(w) = k /\ 4 * f - 2 - Base(w)' = k
      BY <1>6, <2>1, <2>3
    <2>5. GenOf(w, f) = RingWord(w, k) /\ GenOf(w, f)' = RingWord(w, k)'
      <3>1. GenOf(w, f) = GenAt(w, k) /\ GenOf(w, f)' = GenAt(w, k)'
        BY <2>9 DEF GenOf
      <3> QED
        BY <3>1, k >= 0 DEF GenAt
    <2>6. \A i : RingWord(w, i)' = RingWord(w, i)
      BY DEF RingWord, ringVars
    <2> QED
      BY <2>4, <2>5, <2>6
  <1>11. ASSUME NEW v \in Inited, NEW f \in Pending(v)
         PROVE  IndexOf(v, f)' = IndexOf(v, f) /\ GenOf(v, f)' = GenOf(v, f)
    <2>1. CASE v # w
      BY <1>2, <2>1, SameWords
    <2>2. CASE v = w
      <3>1. PICK l \in Nat : l = Len(read[w]) /\ f \in Nat /\ f >= l + 1
        BY <1>11, <2>2, Counts
      <3> QED
        BY <1>10, <2>2, <3>1
    <2> QED
      BY <2>1, <2>2
  <1>12. ASSUME NEW v \in Inited PROVE PartOf(v)'
    <2>1. CASE v # w
      BY <1>2, <1>3, <2>1, SameWords, SamePart DEF RingSame, Heap
    <2>2. CASE v = w
      <3>1. Pushed(w)' = Pushed(w) /\ dh' = dh /\ framed' = framed /\ PartOf(w)
        BY <1>3, SameFrame DEF drainVars, Heap
      <3>2. PICK f \in Nat, l \in Nat : f = Len(framed[w]) + 1 /\ l = Len(read[w]) /\ f >= l + 1
        BY Counts DEF Heap, ReadOf
      <3>3. IndexOf(w, f)' = IndexOf(w, f) /\ GenOf(w, f)' = GenOf(w, f)
        BY <1>10, <3>2
      <3> QED
        BY <2>2, <3>1, <3>2, <3>3 DEF PartOf
    <2> QED
      BY <2>1, <2>2
  <1> QED
    BY <1>2, <1>5, <1>7, <1>9, <1>11, <1>12, SameWords

\* epa_ghs_free begins: the flags are cleared.
LEMMA FlagsHeap ==
    ASSUME IInv, RingTypes, Rings, Heap, NEW w \in Inited, Valid(cur[w]), FreeFlags(cur[w]),
           \/ wpc[w] = "wait" /\ wpc' = [wpc EXCEPT ![w] = "freeing"]
           \/ wpc[w] = "ended" /\ wpc' = [wpc EXCEPT ![w] = "bfreeing"],
           UNCHANGED <<ringVars, drainVars, wword, wreg, r0, read, framed, cur, orphans>>
    PROVE  Rings' /\ Heap'
  <1>1. PICK c \in Slots : c = cur[w][1]
    BY DEF Valid
  <1>2. /\ \A s \in Slots : s # c => obj'[s] = obj[s]
        /\ ~obj'[c].used /\ obj'[c].gen = obj[c].gen
    BY <1>1 DEF FreeFlags, RingTypes, Objects
  <1>3. \E h : cur' = [cur EXCEPT ![w] = h]
    <2>1. cur' = [cur EXCEPT ![w] = cur[w]]
      BY DEF RingTypes
    <2> QED
      BY <2>1
  <1>4. /\ wpc[w] \in {"wait", "ended", "freeing", "bfreeing"}
        /\ \E q \in {"freeing", "bfreeing", "park", "wait"} : wpc' = [wpc EXCEPT ![w] = q]
    OBVIOUS
  <1>5. /\ Rings' /\ ~Taken(w) /\ ~Taken(w)'
        /\ \A v \in Inited :
            /\ Pending(v)' = Pending(v) /\ PartOf(v)' /\ (Taken(v)' <=> Taken(v))
            /\ v # w => WorkerSame(v) /\ RingSame(v)
            /\ \A f \in Pending(v) : IndexOf(v, f)' = IndexOf(v, f) /\ GenOf(v, f)' = GenOf(v, f)
    BY <1>3, <1>4, FreeRings
  <1>6. /\ \A v \in Inited : \A f \in Pending(v) : IndexOf(v, f) # c
        /\ Delivering => dh[1] # c
        /\ c \notin orphans
        /\ \A v \in Inited : v # w /\ cur[v][1] = c =>
                cur[v][2] # obj[c].gen /\ ~Freeing(v) /\ ~Valid(cur[v])
    BY <1>1, <1>5, FreedAlone
  <1>7. \A i, g, o, m : i # c => (Live(i, g, o, m)' <=> Live(i, g, o, m))
    BY <1>2 DEF Live
  <1>8. /\ ~Freeing(w) /\ Freeing(w)' /\ cur[w][2] = obj[c].gen /\ UNCHANGED cur
        /\ \A v \in Inited : v # w => (Freeing(v)' <=> Freeing(v))
    <2>1. wpc'[w] \in {"freeing", "bfreeing"} /\ wpc[w] \notin {"freeing", "bfreeing"}
      BY DEF RingTypes
    <2> QED
      BY <1>1, <1>5, <2>1 DEF Freeing, Valid, WorkerSame
  <1>9. UNCHANGED <<dpc, dwid, dmsg, dh>> /\ (Delivering' <=> Delivering) /\ (InFrame' <=> InFrame)
    BY DEF drainVars, Delivering, InFrame
  <1>10. ASSUME NEW v \in Inited PROVE ReadOf(v)' /\ FramesOf(v)'
    <2>1. ReadOf(v) /\ FramesOf(v) /\ UNCHANGED <<read, framed>>
      BY DEF Heap
    <2> QED
      BY <1>5, <1>6, <1>7, <2>1 DEF ReadOf, FramesOf
  <1>11. DeliveryOf'
    BY <1>5, <1>6, <1>7, <1>9 DEF DeliveryOf, Heap
  <1>12. ASSUME NEW v \in Inited, v # w PROVE Valid(cur[v])' <=> Valid(cur[v])
    BY <1>2, <1>6, <1>8, <1>12 DEF Valid
  <1>13. ~Valid(cur[w])'
    BY <1>1, <1>2, <1>8 DEF Valid
  <1>14. ASSUME NEW v \in Inited PROVE CurOf(v)'
    <2>1. CurOf(v) /\ \A s \in Slots : obj'[s].gen = obj[s].gen
      BY <1>2 DEF Heap
    <2>2. CASE v = w
      BY <1>1, <1>2, <1>8, <1>13, <2>1, <2>2 DEF CurOf
    <2>3. CASE v # w
      <3>1. cur[v][1] = c => cur[v][2] # obj[c].gen /\ ~Freeing(v)
        BY <1>6, <2>3
      <3>2. cur[v][1] # c => obj'[cur[v][1]] = obj[cur[v][1]]
        BY <1>2, <2>1 DEF CurOf
      <3>3. /\ Valid(cur[v])' <=> Valid(cur[v])
            /\ Freeing(v)' <=> Freeing(v)
            /\ Taken(v)' <=> Taken(v)
        BY <1>5, <1>8, <1>12, <2>3
      <3>4. cur'[v] = cur[v]
        BY <1>8
      <3> QED
        BY <1>2, <1>5, <1>9, <2>1, <3>1, <3>2, <3>3, <3>4 DEF CurOf
    <2> QED
      BY <2>2, <2>3
  <1>15. FreesApart'
    <2>1. \A u, v \in Inited : u # w /\ v # w /\ Freeing(u)' /\ Freeing(v)' /\ cur'[u][1] = cur'[v][1] => u = v
      BY <1>8 DEF Heap, FreesApart
    <2>2. \A v \in Inited : v # w /\ Freeing(v)' => cur'[v][1] # cur'[w][1]
      BY <1>1, <1>6, <1>8
    <2> QED
      BY <2>1, <2>2 DEF FreesApart
  <1>16. ASSUME NEW s, s # c PROVE Refd(s)' <=> Refd(s)
    BY <1>1, <1>5, <1>8, <1>9, <1>12, <1>13, <1>16 DEF Refd
  <1>17. OrphansOf'
    BY <1>2, <1>6, <1>16 DEF OrphansOf, Heap
  <1>18. Covered'
    BY <1>2, <1>16 DEF Covered, Heap
  <1> QED
    BY <1>5, <1>10, <1>11, <1>14, <1>15, <1>17, <1>18 DEF Heap

\* A worker leaves an object that is already free, or none at all: the generation may advance.
LEMMA LeaveHeap ==
    ASSUME IInv, RingTypes, Rings, Heap, NEW w \in Inited, NEW c \in Slots,
           wpc[w] \in {"wait", "freeing", "bfreeing"},
           \E q \in {"park", "wait"} : wpc' = [wpc EXCEPT ![w] = q],
           \E h : cur' = [cur EXCEPT ![w] = h],
           UNCHANGED <<ringVars, drainVars, wword, wreg, r0, read, framed, orphans>>,
           \A s \in Slots : s # c => obj'[s] = obj[s],
           obj'[c].used = obj[c].used,
           \/ obj'[c] = obj[c]
           \/ /\ ~obj[c].used /\ obj'[c].gen \in Nat /\ obj'[c].gen > obj[c].gen
              /\ \A v \in Inited : v # w /\ cur[v][1] = c => ~Freeing(v),
           ~Valid(cur[w]), cur'[w][1] \in Slots, cur'[w][2] \in Nat,
           cur'[w][2] < obj'[cur'[w][1]].gen
    PROVE  Rings' /\ Heap'
  <1>1. PICK q \in {"park", "wait"} : wpc' = [wpc EXCEPT ![w] = q]
    OBVIOUS
  <1>2. /\ Rings' /\ ~Taken(w) /\ ~Taken(w)'
        /\ \A v \in Inited :
            /\ Pending(v)' = Pending(v) /\ PartOf(v)' /\ (Taken(v)' <=> Taken(v))
            /\ v # w => WorkerSame(v) /\ RingSame(v)
            /\ \A f \in Pending(v) : IndexOf(v, f)' = IndexOf(v, f) /\ GenOf(v, f)' = GenOf(v, f)
    <2>1. /\ wpc[w] \in {"wait", "ended", "freeing", "bfreeing"}
          /\ \E x \in {"freeing", "bfreeing", "park", "wait"} : wpc' = [wpc EXCEPT ![w] = x]
      BY <1>1
    <2> QED
      BY <2>1, FreeRings
  <1>3. /\ \A s \in Slots : obj[s].gen \in Nat /\ obj'[s].gen \in Nat
        /\ \A s \in Slots : /\ obj'[s].used <=> obj[s].used
                            /\ obj[s].gen <= obj'[s].gen
                            /\ obj[s].used => obj'[s] = obj[s]
    <2>1. \A s \in Slots : obj[s].gen \in Nat /\ obj[s].used \in BOOLEAN
      BY DEF RingTypes, Objects
    <2>2. ASSUME NEW s \in Slots, s # c
          PROVE  obj'[s] = obj[s] /\ obj[s].gen <= obj[s].gen
      BY <2>1, <2>2
    <2>3. CASE obj'[c] = obj[c]
      <3>1. obj[c].gen <= obj[c].gen
        BY <2>1
      <3> QED
        BY <2>1, <2>2, <2>3, <3>1
    <2>4. CASE obj'[c] # obj[c]
      <3>1. ~obj[c].used /\ obj'[c].gen \in Nat /\ obj[c].gen <= obj'[c].gen
        BY <2>1, <2>4
      <3> QED
        BY <2>1, <2>2, <3>1
    <2> QED
      BY <2>3, <2>4
  <1>4. /\ ~Freeing(w)' /\ wpc' \in [Inited -> WorkPC]
        /\ \A v \in Inited : v # w => (Freeing(v)' <=> Freeing(v)) /\ cur'[v] = cur[v]
    <2>1. wpc'[w] = q
      BY <1>1 DEF RingTypes
    <2> QED
      BY <1>1, <1>2, <2>1 DEF Freeing, WorkerSame, RingTypes, WorkPC
  <1>5. ~Valid(cur[w])'
    BY <1>3 DEF Valid
  <1>6. ASSUME NEW v \in Inited, v # w
        PROVE  /\ Valid(cur[v])' <=> Valid(cur[v])
               /\ cur[v][2] = obj'[cur[v][1]].gen => cur[v][2] = obj[cur[v][1]].gen
               /\ Freeing(v) => obj'[cur[v][1]] = obj[cur[v][1]]
               /\ cur[v][2] <= obj'[cur[v][1]].gen
    <2>1. cur[v][1] \in Slots /\ cur[v][2] <= obj[cur[v][1]].gen /\ cur[v][2] \in Nat
      BY DEF Heap, CurOf, RingTypes
    <2>2. CASE obj'[cur[v][1]] = obj[cur[v][1]]
      <3>1. cur'[v] = cur[v]
        BY <1>4, <1>6
      <3> QED
        BY <2>1, <2>2, <3>1 DEF Valid
    <2>3. CASE obj'[cur[v][1]] # obj[cur[v][1]]
      <3>1. /\ cur[v][1] = c /\ ~obj[c].used /\ obj'[c].gen > obj[c].gen
            /\ obj'[c].gen \in Nat /\ obj[c].gen \in Nat /\ ~Freeing(v) /\ cur'[v] = cur[v]
        BY <1>3, <1>4, <1>6, <2>1, <2>3
      <3>2. cur[v][2] < obj'[c].gen
        BY <2>1, <3>1
      <3> QED
        BY <2>1, <3>1, <3>2 DEF Valid
    <2> QED
      BY <2>2, <2>3
  <1>7. UNCHANGED <<dpc, dwid, dmsg, dh>> /\ (Delivering' <=> Delivering) /\ (InFrame' <=> InFrame)
    BY DEF drainVars, Delivering, InFrame
  <1>8. \A i, g, o, m : Live(i, g, o, m) => Live(i, g, o, m)'
    BY <1>3 DEF Live
  <1>9. ASSUME NEW v \in Inited PROVE ReadOf(v)' /\ FramesOf(v)'
    <2>1. ReadOf(v) /\ FramesOf(v) /\ UNCHANGED <<read, framed>>
      BY DEF Heap
    <2> QED
      BY <1>2, <1>8, <2>1 DEF ReadOf, FramesOf
  <1>10. DeliveryOf'
    BY <1>2, <1>7, <1>8 DEF DeliveryOf, Heap
  <1>11. ASSUME NEW v \in Inited PROVE CurOf(v)'
    <2>1. CurOf(v)
      BY DEF Heap
    <2>2. CASE v = w
      <3>1. cur'[w][2] <= obj'[cur'[w][1]].gen /\ cur'[w][2] # obj'[cur'[w][1]].gen
        BY <1>3
      <3> QED
        BY <1>4, <1>5, <2>2, <3>1 DEF CurOf
    <2>3. CASE v # w
      <3>1. /\ cur'[v] = cur[v] /\ (Freeing(v)' <=> Freeing(v)) /\ (Taken(v)' <=> Taken(v))
            /\ Pending(v)' = Pending(v) /\ \A f \in Pending(v) : IndexOf(v, f)' = IndexOf(v, f)
        BY <1>2, <1>4, <2>3
      <3>2. cur[v][1] \in Slots /\ (obj[cur[v][1]].used => obj'[cur[v][1]] = obj[cur[v][1]])
        BY <1>3, <2>1 DEF CurOf
      <3>3. /\ cur'[v][1] \in Slots /\ cur'[v][2] <= obj'[cur'[v][1]].gen
            /\ Freeing(v)' => cur'[v][2] = obj'[cur'[v][1]].gen /\ ~obj'[cur'[v][1]].used
        BY <1>6, <2>1, <2>3, <3>1 DEF CurOf
      <3>4. cur'[v][2] = obj'[cur'[v][1]].gen /\ ~Freeing(v)' =>
                    obj'[cur'[v][1]].used /\ obj'[cur'[v][1]].owner = v
        BY <1>6, <2>1, <2>3, <3>1, <3>2 DEF CurOf
      <3>5. Valid(cur[v])' /\ ~Taken(v)' =>
                /\ \A f \in Pending(v)' : IndexOf(v, f)' # cur'[v][1]
                /\ Delivering' => dh'[1] # cur'[v][1]
        BY <1>6, <1>7, <2>1, <2>3, <3>1 DEF CurOf
      <3> QED
        BY <3>3, <3>4, <3>5 DEF CurOf
    <2> QED
      BY <2>2, <2>3
  <1>12. FreesApart'
    BY <1>4 DEF Heap, FreesApart
  <1>13. ASSUME NEW s PROVE Refd(s)' <=> Refd(s)
    BY <1>2, <1>4, <1>5, <1>6, <1>7 DEF Refd
  <1>14. OrphansOf' /\ Covered'
    BY <1>3, <1>13 DEF OrphansOf, Covered, Heap
  <1> QED
    BY <1>2, <1>9, <1>10, <1>11, <1>12, <1>14 DEF Heap

\* A worker without an object of its own forgets its current handle.
LEMMA ForgetHeap ==
    ASSUME IInv, RingTypes, Rings, Heap, NEW w \in Inited, wpc[w] = "wait", ~Valid(cur[w]),
           cur' = [cur EXCEPT ![w] = NoHandle], wpc' = [wpc EXCEPT ![w] = "park"],
           UNCHANGED <<ringVars, drainVars, wword, wreg, r0, read, framed, orphans, obj>>
    PROVE  Rings' /\ Heap'
  <1>1. cur'[w] = <<0, 0>> /\ 0 \in Slots /\ \A s \in Slots : obj[s].gen \in Nat \ {0}
    BY RingSizes DEF RingTypes, NoHandle, Objects
  <1>2. /\ cur'[w][1] \in Slots /\ cur'[w][2] \in Nat
        /\ cur'[w][2] < obj'[cur'[w][1]].gen
    BY <1>1
  <1> QED
    BY <1>1, <1>2, LeaveHeap

\* epa_ghs_free ends: the generation advances.
LEMMA GenerationHeap ==
    ASSUME IInv, RingTypes, Rings, Heap, NEW w \in Inited, FreeGeneration(w)
    PROVE  Rings' /\ Heap'
  <1>1. /\ wpc[w] \in {"freeing", "bfreeing"} /\ Freeing(w) /\ cur[w][1] \in Slots
        /\ cur[w][2] = obj[cur[w][1]].gen /\ ~obj[cur[w][1]].used
        /\ ~Valid(cur[w])
    BY DEF FreeGeneration, Freeing, Heap, CurOf, Valid
  <1>2. PICK c \in Slots : c = cur[w][1]
    BY <1>1
  <1>3. /\ obj' = [obj EXCEPT ![c].gen = @ + 1]
        /\ cur' = (IF wpc[w] = "freeing" THEN [cur EXCEPT ![w] = NoHandle] ELSE cur)
        /\ wpc' = [wpc EXCEPT ![w] = IF wpc[w] = "freeing" THEN "park" ELSE "wait"]
        /\ UNCHANGED <<ringVars, drainVars, wword, wreg, r0, read, framed, orphans>>
    BY <1>2 DEF FreeGeneration, ghosts
  <1>4. obj[c].gen \in Nat \ {0} /\ obj[c] \in [used : BOOLEAN, gen : Nat \ {0}, owner : Wids \union {0}, msg : 0 .. NMsgs]
    BY DEF RingTypes, Objects
  <1>5. /\ \A s \in Slots : s # c => obj'[s] = obj[s]
        /\ obj'[c].used = obj[c].used /\ obj'[c].gen = obj[c].gen + 1
    BY <1>3, <1>4 DEF RingTypes, Objects
  <1>6. ~Taken(w) /\ \A v \in Inited : v # w /\ cur[v][1] = c => ~Freeing(v)
    <2>1. ~Taken(w)
      BY <1>1 DEF Taken, Popped
    <2> QED
      BY <1>1, <1>2, <2>1, FreedAlone
  <1>7. /\ \E q \in {"park", "wait"} : wpc' = [wpc EXCEPT ![w] = q]
        /\ \E h : cur' = [cur EXCEPT ![w] = h]
    <2>1. cur = [cur EXCEPT ![w] = cur[w]]
      BY DEF RingTypes
    <2> QED
      BY <1>3, <2>1
  <1>8. obj'[c].gen \in Nat /\ obj'[c].gen > obj[c].gen
    BY <1>4, <1>5
  <1>9. cur'[w][1] \in Slots /\ cur'[w][2] \in Nat /\ cur'[w][2] < obj'[cur'[w][1]].gen
    <2>1. CASE wpc[w] = "freeing"
      <3>1. cur'[w] = <<0, 0>> /\ 0 \in Slots
        BY <1>3, <2>1, RingSizes DEF RingTypes, NoHandle
      <3>2. obj[0].gen \in Nat \ {0}
        BY <3>1 DEF RingTypes, Objects
      <3>3. obj'[0].gen \in Nat \ {0}
        <4>1. CASE c = 0
          BY <1>4, <1>5, <4>1
        <4>2. CASE c # 0
          BY <1>5, <3>1, <3>2, <4>2
        <4> QED
          BY <4>1, <4>2
      <3>4. 0 < obj'[0].gen
        BY <3>3
      <3> QED
        BY <3>1, <3>3, <3>4
    <2>2. CASE wpc[w] # "freeing"
      BY <1>1, <1>2, <1>3, <1>4, <1>8, <2>2
    <2> QED
      BY <2>1, <2>2
  <1>10. wpc[w] \in {"wait", "freeing", "bfreeing"}
    BY <1>1
  <1>11. \/ obj'[c] = obj[c]
         \/ /\ ~obj[c].used /\ obj'[c].gen \in Nat /\ obj'[c].gen > obj[c].gen
            /\ \A v \in Inited : v # w /\ cur[v][1] = c => ~Freeing(v)
    BY <1>1, <1>2, <1>6, <1>8
  <1>12. UNCHANGED <<ringVars, drainVars, wword, wreg, r0, read, framed, orphans>> /\ ~Valid(cur[w])
    BY <1>1, <1>3
  <1>13. \A s \in Slots : s # c => obj'[s] = obj[s]
    BY <1>5
  <1>14. obj'[c].used = obj[c].used
    BY <1>5
  <1> QED
    BY <1>7, <1>9, <1>10, <1>11, <1>12, <1>13, <1>14, LeaveHeap

\* A step of a worker.
LEMMA TickHeap ==
    ASSUME IInv, RingTypes, Rings, Heap, NEW w \in Inited, Tick(w), "ring" \notin raced'
    PROVE  Rings' /\ Heap'
  <1>1. CASE WaitRelease(w)
    <2>1. /\ wpc[w] = "wait"
          /\ UNCHANGED <<ringVars, drainVars, wword, wreg, r0, read, framed, orphans>>
      BY <1>1 DEF WaitRelease, ghosts
    <2>2. CASE Valid(cur[w]) /\ obj[cur[w][1]].owner = w
      <3>1. FreeFlags(cur[w]) /\ wpc' = [wpc EXCEPT ![w] = "freeing"] /\ UNCHANGED cur
        BY <1>1, <2>2 DEF WaitRelease
      <3> QED
        BY <2>1, <2>2, <3>1, FlagsHeap
    <2>3. CASE ~(Valid(cur[w]) /\ obj[cur[w][1]].owner = w)
      <3>1. cur' = [cur EXCEPT ![w] = NoHandle] /\ wpc' = [wpc EXCEPT ![w] = "park"] /\ UNCHANGED obj
        BY <1>1, <2>3 DEF WaitRelease
      <3>2. ~Valid(cur[w])
        BY <2>1, <2>3 DEF Heap, CurOf, Valid, Freeing
      <3> QED
        BY <2>1, <3>1, <3>2, ForgetHeap
    <2> QED
      BY <2>2, <2>3
  <1>2. CASE BodyFree(w)
    <2>1. /\ wpc[w] = "ended" /\ wpc' = [wpc EXCEPT ![w] = "bfreeing"] /\ Valid(cur[w])
          /\ FreeFlags(cur[w])
          /\ UNCHANGED <<ringVars, drainVars, wword, wreg, r0, read, framed, cur, orphans>>
      BY <1>2 DEF BodyFree, ghosts
    <2> QED
      BY <2>1, FlagsHeap
  <1>3. CASE Pop(w)
    <2>1. CASE rcount[w] = 0
      BY <1>3, <2>1, FaultHeap
    <2>2. CASE rcount[w] # 0
      BY <1>3, <2>2, PopWordHeap, PopHandleHeap
    <2> QED
      BY <2>1, <2>2
  <1>4. CASE Body(w)
    BY <1>4, FaultHeap, BodyHeap
  <1> QED
    BY <1>1, <1>2, <1>3, <1>4, WalkHeap, GenerationHeap, PopStoreHeap DEF Tick

----------------------------------------------------------------------------
(* The drain and the handle space                                          *)

\* A step of the drain outside its frame: the rings and the frames stay.
LEMMA RestHeap ==
    ASSUME Rings, Heap, UNCHANGED <<ringVars, wpc, wword, wreg, r0, cur, read, framed>>,
           ~InFrame, ~InFrame'
    PROVE  /\ Rings'
           /\ \A w \in Inited :
                /\ Pending(w)' = Pending(w) /\ PartOf(w)' /\ ReadOf(w)'
                /\ \A f \in Pending(w) : IndexOf(w, f)' = IndexOf(w, f) /\ GenOf(w, f)' = GenOf(w, f)
                /\ (Taken(w)' <=> Taken(w)) /\ (Freeing(w)' <=> Freeing(w))
                /\ Pushed(w) = 0
  <1>1. ASSUME NEW w \in Inited PROVE WorkerSame(w) /\ RingSame(w) /\ FrameSame(w)
    BY DEF WorkerSame, RingSame, FrameSame, ringVars
  <1>2. ASSUME NEW w \in Inited PROVE RingFits(w)'
    BY <1>1, SameWords, SameFits DEF WorkerSame, RingSame, Rings
  <1>3. ASSUME NEW w \in Inited PROVE PartOf(w)' /\ ReadOf(w)'
    <2>1. PartOf(w) /\ ReadOf(w)
      BY DEF Heap
    <2>2. WorkerSame(w) /\ RingSame(w) /\ FrameSame(w)
      BY <1>1
    <2>3. \A f : IndexOf(w, f)' = IndexOf(w, f) /\ GenOf(w, f)' = GenOf(w, f)
      BY <2>2, SameWords
    <2> QED
      BY <2>1, <2>2, <2>3, SamePart, SameRead DEF WorkerSame, RingSame
  <1>4. \A w \in Inited : Pushed(w) = 0
    BY DEF Pushed, InFrame
  <1> QED
    BY <1>1, <1>2, <1>3, <1>4, SameWords DEF Rings

LEMMA AllocHeap ==
    ASSUME RingTypes, IInv, Rings, Heap, DrainAlloc, "ghs" \notin raced'
    PROVE  Rings' /\ Heap'
  <1>1. UNCHANGED <<ringVars, workVars, dwid, dmsg, dword, read, framed, orphans>> /\ dpc = "alloc"
    BY DEF DrainAlloc
  <1>2. UNCHANGED <<wpc, wword, wreg, r0, cur>>
    BY <1>1 DEF workVars
  <1>3. CASE FreeSlots = {}
    <2>1. dpc' = "failed" /\ UNCHANGED obj
      BY <1>3 DEF DrainAlloc
    <2> QED
      BY <1>1, <1>2, <2>1, OutsideHeap DEF Delivering
  <1>4. CASE FreeSlots # {}
    <2>1. PICK c \in Slots : c = FirstFree /\ ~obj[c].used
      BY <1>4, FreeSlot
    <2>2. /\ obj' = [obj EXCEPT ![c].used = TRUE, ![c].owner = 0, ![c].msg = dmsg]
          /\ dh' = <<c, obj[c].gen>> /\ dpc' = "copy"
          /\ \A w \in Inited : Freeing(w) => cur[w][1] # c
      BY <1>4, <2>1 DEF DrainAlloc, Freeing
    <2>3. /\ \A s \in Slots : s # c => obj'[s] = obj[s]
          /\ obj'[c].used /\ obj'[c].owner = 0 /\ obj'[c].msg = dmsg /\ obj'[c].gen = obj[c].gen
      BY <2>2 DEF RingTypes, Objects
    <2>4. /\ Rings'
          /\ \A w \in Inited :
                /\ Pending(w)' = Pending(w) /\ PartOf(w)' /\ ReadOf(w)'
                /\ \A f \in Pending(w) : IndexOf(w, f)' = IndexOf(w, f) /\ GenOf(w, f)' = GenOf(w, f)
                /\ (Taken(w)' <=> Taken(w)) /\ (Freeing(w)' <=> Freeing(w))
      <3>1. ~InFrame /\ ~InFrame'
        BY <1>1, <2>2 DEF InFrame
      <3> QED
        BY <1>1, <1>2, <3>1, RestHeap
    <2>5. ASSUME NEW i, NEW g, NEW o, NEW m, Live(i, g, o, m) PROVE i # c /\ Live(i, g, o, m)'
      BY <2>1, <2>3, <2>5 DEF Live
    <2>6. \A w \in Inited : \A f \in Pending(w) : IndexOf(w, f) # c
      BY <2>5 DEF Heap, FramesOf
    <2>7. ASSUME NEW w \in Inited PROVE FramesOf(w)'
      BY <1>1, <2>4, <2>5 DEF Heap, FramesOf
    <2>8. Delivering' /\ ~Delivering /\ dpc' = "copy" /\ ~InFrame'
      BY <1>1, <2>2 DEF Delivering, InFrame
    <2>9. DeliveryOf'
      <3>1. Live(dh[1], dh[2], 0, dmsg)'
        BY <1>1, <2>2, <2>3 DEF Live
      <3> QED
        BY <2>2, <2>4, <2>6, <2>8, <3>1 DEF DeliveryOf
    <2>10. ASSUME NEW w \in Inited
           PROVE  /\ cur[w][1] \in Slots /\ cur'[w] = cur[w]
                  /\ cur[w][1] = c => cur[w][2] # obj[c].gen /\ ~Freeing(w)
                  /\ cur[w][1] # c => obj'[cur[w][1]] = obj[cur[w][1]]
                  /\ obj'[cur[w][1]].gen = obj[cur[w][1]].gen
                  /\ Valid(cur[w])' <=> Valid(cur[w])
                  /\ Valid(cur[w]) => cur[w][1] # c
      <3>1. CurOf(w)
        BY DEF Heap
      <3>2. cur[w][1] \in Slots /\ cur'[w] = cur[w]
        BY <1>2, <3>1 DEF CurOf
      <3>3. cur[w][1] = c => cur[w][2] # obj[c].gen /\ ~Freeing(w)
        BY <2>1, <2>2, <3>1 DEF CurOf
      <3>4. cur[w][1] # c => obj'[cur[w][1]] = obj[cur[w][1]]
        BY <2>3, <3>2
      <3>5. obj'[cur[w][1]].gen = obj[cur[w][1]].gen
        BY <2>3, <3>4
      <3> QED
        BY <2>1, <3>2, <3>3, <3>4, <3>5 DEF Valid
    <2>11. ASSUME NEW w \in Inited PROVE CurOf(w)'
      <3>1. CurOf(w)
        BY DEF Heap
      <3>2. /\ cur'[w][1] \in Slots /\ cur'[w][2] <= obj'[cur'[w][1]].gen
            /\ cur'[w][2] = obj'[cur'[w][1]].gen /\ ~Freeing(w)' =>
                    obj'[cur'[w][1]].used /\ obj'[cur'[w][1]].owner = w
            /\ Freeing(w)' => cur'[w][2] = obj'[cur'[w][1]].gen /\ ~obj'[cur'[w][1]].used
        BY <2>4, <2>10, <3>1 DEF CurOf
      <3>3. Valid(cur[w])' /\ ~Taken(w)' =>
                /\ \A f \in Pending(w)' : IndexOf(w, f)' # cur'[w][1]
                /\ Delivering' => dh'[1] # cur'[w][1]
        BY <2>2, <2>4, <2>10, <3>1 DEF CurOf
      <3> QED
        BY <3>2, <3>3 DEF CurOf
    <2>12. FreesApart'
      BY <1>2, <2>4 DEF Heap, FreesApart
    <2>13. ASSUME NEW s, s # c PROVE Refd(s)' <=> Refd(s)
      BY <2>2, <2>4, <2>8, <2>10, <2>13 DEF Refd
    <2>14. Refd(c)'
      BY <2>2, <2>8 DEF Refd
    <2>15. OrphansOf'
      BY <1>1, <2>1, <2>3, <2>13 DEF OrphansOf, Heap
    <2>16. Covered'
      BY <1>1, <2>3, <2>13, <2>14 DEF Covered, Heap
    <2> QED
      BY <2>4, <2>7, <2>9, <2>11, <2>12, <2>15, <2>16 DEF Heap
  <1> QED
    BY <1>3, <1>4

LEMMA CopyHeap ==
    ASSUME RingTypes, IInv, Rings, Heap, DrainCopy
    PROVE  Rings' /\ Heap'
  <1>1. /\ UNCHANGED <<ringVars, workVars, dwid, dmsg, dh, dword, read, framed>> /\ dpc = "copy"
        /\ Delivering /\ ~InFrame /\ dwid \in Wids
    BY DEF DrainCopy, Delivering, InFrame, IInv, QueueTypes
  <1>2. UNCHANGED <<wpc, wword, wreg, r0, cur>>
    BY <1>1 DEF workVars
  <1>3. /\ Live(dh[1], dh[2], 0, dmsg)
        /\ \A w \in Inited : \A f \in Pending(w) : IndexOf(w, f) # dh[1]
    BY <1>1 DEF Heap, DeliveryOf
  <1>4. PICK c \in Slots : c = dh[1] /\ obj[c].used /\ obj[c].owner = 0 /\ obj[c].gen = dh[2]
                           /\ obj[c].msg = dmsg
    BY <1>3 DEF Live
  <1>5. obj' = [obj EXCEPT ![c].owner = dwid] /\ dpc' = "room" /\ UNCHANGED orphans
    BY <1>4 DEF DrainCopy, Valid
  <1>6. /\ \A s \in Slots : s # c => obj'[s] = obj[s]
        /\ obj'[c].used = obj[c].used /\ obj'[c].owner = dwid /\ obj'[c].msg = obj[c].msg
        /\ obj'[c].gen = obj[c].gen
    BY <1>5 DEF RingTypes, Objects
  <1>7. /\ Rings'
        /\ \A w \in Inited :
                /\ Pending(w)' = Pending(w) /\ PartOf(w)' /\ ReadOf(w)'
                /\ \A f \in Pending(w) : IndexOf(w, f)' = IndexOf(w, f) /\ GenOf(w, f)' = GenOf(w, f)
                /\ (Taken(w)' <=> Taken(w)) /\ (Freeing(w)' <=> Freeing(w))
    <2>1. ~InFrame'
      BY <1>5 DEF InFrame
    <2> QED
      BY <1>1, <1>2, <2>1, RestHeap
  <1>8. \A i, g, o, m : i # c => (Live(i, g, o, m)' <=> Live(i, g, o, m))
    BY <1>6 DEF Live
  <1>9. ASSUME NEW w \in Inited PROVE FramesOf(w)'
    BY <1>1, <1>3, <1>4, <1>7, <1>8 DEF Heap, FramesOf
  <1>10. Delivering' /\ dpc' = "room" /\ ~InFrame'
    BY <1>5 DEF Delivering, InFrame
  <1>11. DeliveryOf'
    <2>1. Live(dh[1], dh[2], dwid, dmsg)'
      BY <1>1, <1>4, <1>6 DEF Live
    <2> QED
      BY <1>1, <1>3, <1>7, <1>10, <2>1 DEF DeliveryOf
  <1>12. ASSUME NEW w \in Inited
         PROVE  /\ cur[w][1] \in Slots /\ cur'[w] = cur[w]
                /\ cur[w][1] = c => cur[w][2] # obj[c].gen /\ ~Freeing(w)
                /\ cur[w][1] # c => obj'[cur[w][1]] = obj[cur[w][1]]
                /\ obj'[cur[w][1]].gen = obj[cur[w][1]].gen
                /\ Valid(cur[w])' <=> Valid(cur[w])
    <2>1. CurOf(w) /\ w # 0
      BY RingSizes DEF Heap
    <2>2. cur[w][1] \in Slots /\ cur'[w] = cur[w]
      BY <1>2, <2>1 DEF CurOf
    <2>3. cur[w][1] = c => cur[w][2] # obj[c].gen /\ ~Freeing(w)
      BY <1>4, <2>1 DEF CurOf
    <2>4. cur[w][1] # c => obj'[cur[w][1]] = obj[cur[w][1]]
      BY <1>6, <2>2
    <2>5. obj'[cur[w][1]].gen = obj[cur[w][1]].gen
      BY <1>6, <2>4
    <2> QED
      BY <2>2, <2>3, <2>4, <2>5 DEF Valid
  <1>13. ASSUME NEW w \in Inited PROVE CurOf(w)'
    <2>1. CurOf(w)
      BY DEF Heap
    <2>2. /\ cur'[w][1] \in Slots /\ cur'[w][2] <= obj'[cur'[w][1]].gen
          /\ cur'[w][2] = obj'[cur'[w][1]].gen /\ ~Freeing(w)' =>
                    obj'[cur'[w][1]].used /\ obj'[cur'[w][1]].owner = w
          /\ Freeing(w)' => cur'[w][2] = obj'[cur'[w][1]].gen /\ ~obj'[cur'[w][1]].used
      BY <1>7, <1>12, <2>1 DEF CurOf
    <2>3. Valid(cur[w])' /\ ~Taken(w)' =>
                /\ \A f \in Pending(w)' : IndexOf(w, f)' # cur'[w][1]
                /\ Delivering' => dh'[1] # cur'[w][1]
      BY <1>1, <1>7, <1>12, <2>1 DEF CurOf
    <2> QED
      BY <2>2, <2>3 DEF CurOf
  <1>14. FreesApart'
    BY <1>2, <1>7 DEF Heap, FreesApart
  <1>15. ASSUME NEW s PROVE Refd(s)' <=> Refd(s)
    BY <1>1, <1>7, <1>10, <1>12 DEF Refd
  <1>16. OrphansOf' /\ Covered'
    <2>1. \A s \in Slots : obj'[s].used <=> obj[s].used
      BY <1>6
    <2> QED
      BY <1>5, <1>15, <2>1 DEF OrphansOf, Covered, Heap
  <1> QED
    BY <1>7, <1>9, <1>11, <1>13, <1>14, <1>16 DEF Heap

\* A worker that has popped its handle has it from the first frame that is not read.
LEMMA TakenIndex ==
    ASSUME IInv, RingTypes, Rings, NEW w \in Inited, Taken(w), Pushed(w) = 0
    PROVE  Len(read[w]) + 1 \in Pending(w) /\ IndexOf(w, Len(read[w]) + 1) = cur[w][1]
  <1>1. PICK l \in Nat : l = Len(read[w])
    BY Counts
  <1>2. PICK b \in Nat : b = Base(w)
    BY Counts
  <1>3. b >= 4 * l + 3
    <2>1. Popped(w) \in 0 .. 4
      BY Counts
    <2>2. CASE wpc[w] = "body"
      <3>1. Popped(w) = 0
        BY <2>2 DEF Popped
      <3> QED
        BY <1>1, <1>2, <2>2, <3>1 DEF Base
    <2>3. CASE wpc[w] # "body"
      <3>1. Popped(w) >= 3
        BY <2>3 DEF Taken
      <3> QED
        BY <1>1, <1>2, <2>1, <2>3, <3>1 DEF Base
    <2> QED
      BY <2>2, <2>3
  <1>4. PICK r \in Nat : r = Phys(w)
    BY DEF Rings, RingFits
  <1>5. b + r >= 4 * l + 3
    BY <1>3
  <1>6. l + 1 \in Pending(w)
    BY <1>1, <1>2, <1>4, <1>5, TakenFrame
  <1>7. PICK k \in Int : k = 4 * (l + 1) - 3 - b
    OBVIOUS
  <1>8. k < 0 /\ k # -1
    BY <1>3, <1>7
  <1>9. IndexOf(w, l + 1) = IndexAt(w, k)
    BY <1>2, <1>7 DEF IndexOf
  <1>10. IndexAt(w, k) = cur[w][1]
    BY <1>8 DEF IndexAt
  <1> QED
    BY <1>1, <1>6, <1>9, <1>10

\* The frame fits, or the delivery fails and the object is an orphan.
LEMMA RoomHeap ==
    ASSUME RingTypes, IInv, Rings, Heap, DrainRoom
    PROVE  Rings' /\ Heap'
  <1>1. /\ UNCHANGED <<ringVars, dwid, dmsg, dh, dreg, obj, wpc, wword, wreg, r0, cur, read, framed>>
        /\ dpc = "room" /\ Delivering /\ ~InFrame /\ dwid \in Wids
    BY DEF DrainRoom, Delivering, InFrame, IInv, QueueTypes
  <1>2. CASE Space(dwid) < 4
    <2>1. dpc' = "failed" /\ orphans' = orphans \union {dh[1]} /\ ~Delivering' /\ ~InFrame'
      BY <1>2 DEF DrainRoom, Words, Delivering, InFrame
    <2>2. /\ Rings'
          /\ \A w \in Inited :
                /\ Pending(w)' = Pending(w) /\ PartOf(w)' /\ ReadOf(w)'
                /\ \A f \in Pending(w) : IndexOf(w, f)' = IndexOf(w, f) /\ GenOf(w, f)' = GenOf(w, f)
                /\ (Taken(w)' <=> Taken(w)) /\ (Freeing(w)' <=> Freeing(w))
                /\ Pushed(w) = 0
      BY <1>1, <2>1, RestHeap
    <2>3. \A i, g, o, m : Live(i, g, o, m)' <=> Live(i, g, o, m)
      BY <1>1 DEF Live
    <2>4. ASSUME NEW w \in Inited PROVE FramesOf(w)'
      BY <1>1, <2>2, <2>3 DEF Heap, FramesOf
    <2>5. DeliveryOf' /\ FreesApart'
      BY <1>1, <2>1, <2>2 DEF Heap, DeliveryOf, FreesApart
    <2>6. \A w \in Inited : Valid(cur[w])' <=> Valid(cur[w])
      BY <1>1 DEF Valid
    <2>7. ASSUME NEW w \in Inited PROVE CurOf(w)'
      <3>1. CurOf(w)
        BY DEF Heap
      <3> QED
        BY <1>1, <2>1, <2>2, <2>6, <3>1 DEF CurOf
    <2>8. ASSUME NEW w \in Inited, Valid(cur[w]) PROVE cur[w][1] # dh[1]
      <3>1. CASE Taken(w)
        BY <1>1, <2>2, <3>1, TakenIndex DEF Heap, DeliveryOf
      <3>2. CASE ~Taken(w)
        BY <1>1, <2>8, <3>2 DEF Heap, CurOf
      <3> QED
        BY <3>1, <3>2
    <2>9. /\ dh[1] \in Slots /\ obj[dh[1]].used
          /\ \A w \in Inited : \A f \in Pending(w) : IndexOf(w, f) # dh[1]
      BY <1>1 DEF Heap, DeliveryOf, Live
    <2>10. ASSUME NEW s PROVE /\ Refd(s)' => Refd(s)
                              /\ Refd(s) => Refd(s)' \/ s = dh[1]
      BY <1>1, <2>1, <2>2, <2>6 DEF Refd
    <2>11. ~Refd(dh[1])'
      BY <1>1, <2>1, <2>2, <2>6, <2>8, <2>9 DEF Refd
    <2>12. OrphansOf'
      BY <1>1, <2>1, <2>9, <2>10, <2>11 DEF OrphansOf, Heap
    <2>13. Covered'
      BY <1>1, <2>1, <2>10 DEF Covered, Heap
    <2> QED
      BY <2>2, <2>4, <2>5, <2>7, <2>12, <2>13 DEF Heap
  <1>3. CASE ~(Space(dwid) < 4)
    <2>1. dpc' = "word" /\ dword' = 1 /\ UNCHANGED orphans /\ Delivering' /\ InFrame'
      BY <1>3 DEF DrainRoom, Words, Delivering, InFrame
    <2>2. PICK r \in Nat : r = rcount[dwid]
      BY <1>1 DEF RingTypes
    <2>3. dwid \in Inited /\ r + 4 <= Cap
      <3>1. Cap \in Nat
        BY RingSizes
      <3>2. CASE dwid \in Inited
        <4>1. ~(Cap - r < 4)
          BY <1>3, <2>2, <3>2 DEF Space
        <4> QED
          BY <3>1, <3>2, <4>1
      <3>3. CASE dwid \notin Inited
        <4>1. ~(0 - r < 4)
          BY <1>3, <2>2, <3>3 DEF Space
        <4> QED
          BY <4>1
      <3> QED
        BY <3>2, <3>3
    <2>4. ASSUME NEW w \in Inited
          PROVE  WorkerSame(w) /\ RingSame(w)
      BY <1>1 DEF WorkerSame, RingSame, ringVars
    <2>5. ASSUME NEW w \in Inited
          PROVE  /\ Pushed(w) = 0 /\ Pushed(w)' = 0 /\ ~Filling(w) /\ ~Filling(w)'
      BY <1>1, <2>1 DEF Pushed, Filling
    <2>6. ASSUME NEW w \in Inited PROVE RingFits(w)'
      <3>1. /\ Held(w)' = Held(w) /\ Base(w)' = Base(w)
        BY <2>4, SameWords
      <3>2. Phys(w)' = Phys(w)
        BY <2>5, <3>1 DEF Phys
      <3>3. At(w, Phys(w))' = At(w, Phys(w)) /\ rtail'[w] = rtail[w] /\ rcount'[w] = rcount[w]
            /\ wpc'[w] = wpc[w] /\ wreg'[w] = wreg[w] /\ framed'[w] = framed[w]
        BY <2>4, <3>2 DEF At, WorkerSame, RingSame
      <3>4. RingFits(w)
        BY DEF Rings
      <3>5. dwid' = w /\ InFrame' => rcount'[w] + 0 + 4 - 0 <= Cap
        <4>1. r + 0 + 4 - 0 <= Cap
          BY <2>3, RingSizes
        <4> QED
          BY <1>1, <2>2, <3>3, <4>1
      <3> QED
        BY <2>5, <3>1, <3>2, <3>3, <3>4, <3>5 DEF RingFits
    <2>7. ASSUME NEW w \in Inited PROVE PartOf(w)' /\ ReadOf(w)'
      BY <1>1, <2>5, SameRead DEF PartOf, Heap
    <2>8. ASSUME NEW w \in Inited
          PROVE  /\ cur'[w] = cur[w] /\ Pending(w)' = Pending(w)
                 /\ \A f \in Pending(w) : /\ IndexOf(w, f)' = IndexOf(w, f)
                                          /\ GenOf(w, f)' = GenOf(w, f)
                                          /\ framed'[w][f] = framed[w][f]
                 /\ (Taken(w)' <=> Taken(w)) /\ (Freeing(w)' <=> Freeing(w))
      BY <2>4, SameWords DEF WorkerSame, RingSame
    <2>9. Heap'
      BY <1>1, <2>1, <2>3, <2>7, <2>8, KeepHeap
    <2> QED
      BY <2>6, <2>9 DEF Rings
  <1> QED
    BY <1>2, <1>3

----------------------------------------------------------------------------
(* The drain and its frame                                                 *)

\* ring_push stores one more word of the frame behind those the ring holds.
LEMMA WordRing ==
    ASSUME RingTypes, IInv, Rings, Heap, NEW w \in Inited, dwid = w, DrainWord, "ring" \notin raced'
    PROVE  /\ dpc' = "wstore" /\ UNCHANGED orphans
           /\ RingFits(w)' /\ PartOf(w)'
           /\ \A f \in Pending(w) : IndexOf(w, f)' = IndexOf(w, f) /\ GenOf(w, f)' = GenOf(w, f)
           /\ \A v \in Inited : v # w => RingSame(v)
  <1>0. /\ w \in Wids /\ Cap \in Nat /\ Base(w) \in Nat /\ dpc = "word" /\ InFrame /\ ~Filling(w)
        /\ \A f \in Pending(w) : f \in Nat /\ f >= Len(read[w]) + 1 /\ f <= Len(framed[w])
    BY Counts, RingSizes DEF DrainWord, InFrame, Filling
  <1>1. PICK l \in Nat, m \in Nat, b \in Nat, r \in Nat, d \in 1 .. 4 :
                /\ l = Len(read[w]) /\ m = Len(framed[w]) /\ b = Base(w) /\ r = rcount[w]
                /\ d = dword
    BY Counts DEF RingTypes
  <1>2. Pushed(w) = d - 1 /\ RingFits(w)
    BY <1>0, <1>1 DEF Pushed, Rings
  <1>3. r + 1 <= Cap
    <2>1. r + 0 + 4 - (d - 1) <= Cap
      BY <1>0, <1>1, <1>2 DEF RingFits
    <2> QED
      BY <1>0, <2>1
  <1>4. /\ dpc' = "wstore" /\ wpc[w] # "pstore" /\ dreg' = rcount[w]
        /\ rbuf' = [rbuf EXCEPT ![w][rtail[w]] = FrameWord(dh, dmsg, dword)]
        /\ rtail' = [rtail EXCEPT ![w] = NextR(@)]
        /\ UNCHANGED <<rhead, rcount, obj, dwid, dmsg, dh, dword, wpc, wword, wreg, r0, cur, framed,
                       read, orphans>>
    <2>1. rcount[w] # Cap
      BY <1>0, <1>1, <1>3
    <2> QED
      BY <2>1 DEF DrainWord, workVars
  <1>5. Held(w) = r /\ Phys(w) = r /\ Held(w)' = r /\ Phys(w)' = r + 1
    <2>1. Held(w) = r /\ Held(w)' = r
      BY <1>1, <1>4 DEF Held
    <2>2. Filling(w)'
      BY <1>4 DEF Filling
    <2> QED
      BY <1>0, <2>1, <2>2 DEF Phys
  <1>6. Popped(w)' = Popped(w) /\ Base(w)' = Base(w) /\ Pushed(w)' = d /\ Pending(w)' = Pending(w)
    <2>1. Popped(w)' = Popped(w)
      BY <1>4 DEF Popped
    <2>2. Base(w)' = Base(w) /\ Pending(w)' = Pending(w)
      BY <1>4, <2>1 DEF Base, Pending
    <2>3. Pushed(w)' = d
      BY <1>1, <1>4 DEF Pushed
    <2> QED
      BY <2>1, <2>2, <2>3
  <1>7. b + r = 4 * m + (d - 1)
    BY <1>1, <1>2, <1>5 DEF RingFits
  <1>8. rhead[w] \in Room /\ rtail[w] \in Room /\ rtail[w] = (rhead[w] + r) % Cap
    BY <1>0, <1>2, <1>5 DEF RingTypes, RingFits, At
  <1>9. NextR(rtail[w]) = (rhead[w] + (r + 1)) % Cap
    BY <1>0, <1>3, <1>8, RingPositions
  <1>10. RingFits(w)'
    <2>1. rtail'[w] = NextR(rtail[w])
      BY <1>0, <1>4 DEF RingTypes
    <2>2. rtail'[w] = At(w, Phys(w))'
      BY <1>4, <1>5, <1>9, <2>1 DEF At
    <2>3. (Held(w) \in Nat /\ Phys(w) \in 0 .. Cap)'
      BY <1>0, <1>3, <1>5
    <2>4. Filling(w)' /\ framed'[w] = framed[w] /\ rcount'[w] = r /\ dreg' = rcount'[w]
          /\ wpc'[w] # "pstore"
      BY <1>1, <1>4 DEF Filling
    <2>5. (Base(w) + Phys(w) = 4 * Len(framed[w]) + Pushed(w))'
      <3>1. b + (r + 1) = 4 * m + d
        BY <1>7
      <3> QED
        BY <1>1, <1>5, <1>6, <2>4, <3>1
    <2>6. rcount'[w] + (IF Filling(w)' THEN 1 ELSE 0) + 4 - Pushed(w)' <= Cap
      <3>1. r + 0 + 4 - (d - 1) <= Cap
        BY <1>0, <1>1, <1>2 DEF RingFits
      <3>2. r + 1 + 4 - d <= Cap
        BY <1>0, <3>1
      <3> QED
        BY <1>6, <2>4, <3>2
    <2> QED
      BY <2>2, <2>3, <2>4, <2>5, <2>6 DEF RingFits
  <1>11. ASSUME NEW k \in Nat, k < r PROVE RingWord(w, k)' = RingWord(w, k)
    <2>1. k < Cap /\ r < Cap /\ k <= Cap
      BY <1>0, <1>3, <1>11
    <2>2. (rhead[w] + k) % Cap # rtail[w]
      BY <1>8, <1>11, <2>1, RingPositions
    <2>3. rbuf'[w][(rhead[w] + k) % Cap] = rbuf[w][(rhead[w] + k) % Cap]
      BY <1>0, <1>4, <2>2 DEF RingTypes
    <2> QED
      BY <1>4, <2>3 DEF RingWord
  <1>12. RingWord(w, r)' = FrameWord(dh, dmsg, dword)
    <2>1. rbuf'[w][rtail[w]] = FrameWord(dh, dmsg, dword)
      BY <1>0, <1>4, <1>8 DEF RingTypes
    <2> QED
      BY <1>4, <1>8, <2>1 DEF RingWord
  <1>13. ASSUME NEW k \in Int, k < r
         PROVE  IndexAt(w, k)' = IndexAt(w, k) /\ GenAt(w, k)' = GenAt(w, k)
    <2>1. CASE k >= 0
      BY <1>11, <1>13, <2>1 DEF IndexAt, GenAt
    <2>2. CASE ~(k >= 0)
      BY <1>4, <2>2 DEF IndexAt, GenAt
    <2> QED
      BY <2>1, <2>2
  <1>14. ASSUME NEW f \in Nat, NEW k \in Int, k = 4 * f - 3 - b
         PROVE  IndexOf(w, f) = IndexAt(w, k) /\ IndexOf(w, f)' = IndexAt(w, k)'
    <2>1. 4 * f - 3 - Base(w) = k /\ 4 * f - 3 - Base(w)' = k
      BY <1>1, <1>6, <1>14
    <2> QED
      BY <2>1 DEF IndexOf
  <1>15. ASSUME NEW f \in Nat, NEW k \in Int, k = 4 * f - 2 - b
         PROVE  GenOf(w, f) = GenAt(w, k) /\ GenOf(w, f)' = GenAt(w, k)'
    <2>1. 4 * f - 2 - Base(w) = k /\ 4 * f - 2 - Base(w)' = k
      BY <1>1, <1>6, <1>15
    <2> QED
      BY <2>1 DEF GenOf
  <1>16. ASSUME NEW f \in Pending(w)
         PROVE  IndexOf(w, f)' = IndexOf(w, f) /\ GenOf(w, f)' = GenOf(w, f)
    <2>1. f \in Nat /\ f <= m
      BY <1>0, <1>1
    <2>2. PICK j \in Int : j = 4 * f - 3 - b
      BY <2>1
    <2>3. PICK k \in Int : k = 4 * f - 2 - b
      BY <2>1
    <2>4. j < r /\ k < r
      BY <1>7, <2>1, <2>2, <2>3
    <2> QED
      BY <1>13, <1>14, <1>15, <2>1, <2>2, <2>3, <2>4
  <1>17. PICK n \in Nat : n = m + 1
    OBVIOUS
  <1>18. d >= 2 => IndexOf(w, n)' = dh[1]
    <2> SUFFICES ASSUME d >= 2 PROVE IndexOf(w, n)' = dh[1]
      OBVIOUS
    <2>1. PICK k \in Int : k = 4 * n - 3 - b
      OBVIOUS
    <2>2. k = r - d + 2
      BY <1>7, <1>17, <2>1
    <2>3. IndexOf(w, n) = IndexAt(w, k) /\ IndexOf(w, n)' = IndexAt(w, k)'
      BY <1>14, <2>1
    <2>4. CASE d = 2
      <3>1. k = r /\ k >= 0
        BY <2>2, <2>4
      <3>2. IndexAt(w, k)' = FrameWord(dh, dmsg, 2)
        BY <1>1, <1>12, <2>4, <3>1 DEF IndexAt
      <3> QED
        BY <2>3, <3>2 DEF FrameWord
    <2>5. CASE d # 2
      <3>1. k < r /\ d - 1 >= 2
        BY <2>2, <2>5
      <3>2. IndexOf(w, n) = dh[1]
        BY <1>1, <1>2, <1>17, <3>1 DEF Heap, PartOf
      <3> QED
        BY <1>13, <2>3, <3>1, <3>2
    <2> QED
      BY <2>4, <2>5
  <1>19. d >= 3 => GenOf(w, n)' = dh[2]
    <2> SUFFICES ASSUME d >= 3 PROVE GenOf(w, n)' = dh[2]
      OBVIOUS
    <2>1. PICK k \in Int : k = 4 * n - 2 - b
      OBVIOUS
    <2>2. k = r - d + 3
      BY <1>7, <1>17, <2>1
    <2>3. GenOf(w, n) = GenAt(w, k) /\ GenOf(w, n)' = GenAt(w, k)'
      BY <1>15, <2>1
    <2>4. CASE d = 3
      <3>1. k = r /\ k >= 0
        BY <2>2, <2>4
      <3>2. GenAt(w, k)' = FrameWord(dh, dmsg, 3)
        BY <1>1, <1>12, <2>4, <3>1 DEF GenAt
      <3> QED
        BY <2>3, <3>2 DEF FrameWord
    <2>5. CASE d # 3
      <3>1. k < r /\ d - 1 >= 3
        BY <2>2, <2>5
      <3>2. GenOf(w, n) = dh[2]
        BY <1>1, <1>2, <1>17, <3>1 DEF Heap, PartOf
      <3> QED
        BY <1>13, <2>3, <3>1, <3>2
    <2> QED
      BY <2>4, <2>5
  <1>20. PartOf(w)'
    <2>1. Len(framed'[w]) + 1 = n /\ Pushed(w)' = d /\ dh' = dh
      BY <1>1, <1>4, <1>6, <1>17
    <2> QED
      BY <1>18, <1>19, <2>1 DEF PartOf
  <1>21. ASSUME NEW v \in Inited, v # w PROVE RingSame(v)
    <2>1. v \in Wids
      BY RingSizes
    <2> QED
      BY <1>4, <1>21, <2>1 DEF RingSame, RingTypes
  <1> QED
    BY <1>4, <1>10, <1>16, <1>20, <1>21

LEMMA WordHeap ==
    ASSUME RingTypes, IInv, Rings, Heap, DrainWord, "ring" \notin raced'
    PROVE  Rings' /\ Heap'
  <1>1. /\ dpc = "word" /\ Delivering /\ InFrame /\ dwid \in Inited
        /\ UNCHANGED <<obj, dwid, dmsg, dh, wpc, wword, wreg, r0, cur, framed, read>>
    BY DEF DrainWord, Delivering, InFrame, workVars, Heap, DeliveryOf
  <1>2. PICK w \in Inited : w = dwid
    BY <1>1
  <1>3. /\ dpc' = "wstore" /\ UNCHANGED orphans
        /\ RingFits(w)' /\ PartOf(w)'
        /\ \A f \in Pending(w) : IndexOf(w, f)' = IndexOf(w, f) /\ GenOf(w, f)' = GenOf(w, f)
        /\ \A v \in Inited : v # w => RingSame(v)
    BY <1>2, WordRing
  <1>4. ASSUME NEW v \in Inited
        PROVE  /\ WorkerSame(v) /\ Pending(v)' = Pending(v) /\ ReadOf(v)'
               /\ (Taken(v)' <=> Taken(v)) /\ (Freeing(v)' <=> Freeing(v))
    <2>1. Popped(v)' = Popped(v)
      BY <1>1 DEF Popped
    <2>2. WorkerSame(v) /\ Pending(v)' = Pending(v) /\ ReadOf(v)
      BY <1>1 DEF WorkerSame, Pending, Heap
    <2> QED
      BY <1>1, <2>1, <2>2, SameRead DEF Taken, Freeing
  <1>5. ASSUME NEW v \in Inited, v # w
        PROVE  /\ RingFits(v)' /\ PartOf(v)'
               /\ \A f \in Pending(v) : IndexOf(v, f)' = IndexOf(v, f) /\ GenOf(v, f)' = GenOf(v, f)
    <2>1. WorkerSame(v) /\ RingSame(v) /\ FrameSame(v) /\ RingFits(v) /\ PartOf(v)
      BY <1>1, <1>2, <1>3, <1>4, <1>5 DEF FrameSame, Rings, Heap
    <2>2. RingFits(v)'
      BY <2>1, SameWords, SameFits DEF WorkerSame, RingSame
    <2>3. \A f : IndexOf(v, f)' = IndexOf(v, f) /\ GenOf(v, f)' = GenOf(v, f)
      BY <2>1, SameWords
    <2> QED
      BY <2>1, <2>2, <2>3, SamePart DEF RingSame
  <1>6. Delivering' /\ dpc' # "copy" /\ dpc # "copy"
    BY <1>1, <1>3 DEF Delivering
  <1>7. ASSUME NEW v \in Inited
        PROVE  /\ cur'[v] = cur[v] /\ Pending(v)' = Pending(v)
               /\ \A f \in Pending(v) : /\ IndexOf(v, f)' = IndexOf(v, f)
                                        /\ GenOf(v, f)' = GenOf(v, f)
                                        /\ framed'[v][f] = framed[v][f]
               /\ (Taken(v)' <=> Taken(v)) /\ (Freeing(v)' <=> Freeing(v))
               /\ PartOf(v)' /\ ReadOf(v)' /\ RingFits(v)'
    BY <1>1, <1>3, <1>4, <1>5
  <1>8. Heap'
    BY <1>1, <1>3, <1>6, <1>7, KeepHeap
  <1> QED
    BY <1>7, <1>8 DEF Rings

\* The store of count: the words of the ring of w are those they were, count says one more.
LEMMA StoreRing ==
    ASSUME RingTypes, IInv, Rings, Heap, DrainWordStore
    PROVE  /\ Delivering /\ dwid \in Inited /\ \A v \in Inited : RingFits(v)'
           /\ UNCHANGED <<dwid, dmsg, dh, obj, orphans, rbuf, rhead, wpc, wword, wreg, r0, cur, read>>
           /\ framed' = (IF dword < 4 THEN framed ELSE [framed EXCEPT ![dwid] = Append(@, dmsg)])
           /\ dpc = "wstore" /\ dpc' = (IF dword < 4 THEN "word" ELSE "wake")
           /\ \A v \in Inited :
                /\ \A f : IndexOf(v, f)' = IndexOf(v, f) /\ GenOf(v, f)' = GenOf(v, f)
                /\ (Taken(v)' <=> Taken(v)) /\ (Freeing(v)' <=> Freeing(v))
                /\ Pushed(v)' = (IF dword < 4 THEN Pushed(v) ELSE 0)
           /\ Pushed(dwid) = dword
  <1>1. PICK w \in Inited : w = dwid
    BY DEF DrainWordStore, Heap, DeliveryOf, Delivering, InFrame
  <1>2. /\ dpc = "wstore" /\ Delivering
        /\ rcount' = [rcount EXCEPT ![w] = dreg + 1]
        /\ UNCHANGED <<dwid, dmsg, dh, obj, orphans, rbuf, rhead, rtail, wpc, wword, wreg, r0, cur,
                       read>>
        /\ framed' = (IF dword < 4 THEN framed ELSE [framed EXCEPT ![dwid] = Append(@, dmsg)])
        /\ dpc' = (IF dword < 4 THEN "word" ELSE "wake")
        /\ dword' = (IF dword < 4 THEN dword + 1 ELSE 1)
    BY <1>1 DEF DrainWordStore, workVars, Words, Delivering
  <1>3. ASSUME NEW v \in Inited
        PROVE  /\ Popped(v)' = Popped(v) /\ Base(v)' = Base(v)
               /\ \A f : IndexOf(v, f)' = IndexOf(v, f) /\ GenOf(v, f)' = GenOf(v, f)
               /\ (Taken(v)' <=> Taken(v)) /\ (Freeing(v)' <=> Freeing(v))
    <2>1. Popped(v)' = Popped(v)
      BY <1>2 DEF Popped
    <2>2. Base(v)' = Base(v)
      BY <1>2, <2>1 DEF Base
    <2>3. \A f : IndexOf(v, f)' = IndexOf(v, f) /\ GenOf(v, f)' = GenOf(v, f)
      BY <1>2, <2>2 DEF IndexOf, GenOf, IndexAt, GenAt, RingWord
    <2> QED
      BY <1>2, <2>1, <2>2, <2>3 DEF Taken, Freeing
  <1>4. PICK d \in 1 .. 4 : d = dword
    BY DEF RingTypes
  <1>5. Pushed(w) = d /\ Filling(w) /\ ~Filling(w)' /\ Pushed(w)' = (IF d < 4 THEN d ELSE 0)
    <2>1. Pushed(w) = d /\ Filling(w) /\ ~Filling(w)'
      BY <1>1, <1>2, <1>4 DEF Pushed, Filling
    <2>2. CASE d < 4
      <3>1. Pushed(w)' = (d + 1) - 1
        BY <1>1, <1>2, <1>4, <2>2 DEF Pushed
      <3> QED
        BY <2>1, <2>2, <3>1
    <2>3. CASE ~(d < 4)
      <3>1. Pushed(w)' = 0
        BY <1>1, <1>2, <1>4, <2>3 DEF Pushed
      <3> QED
        BY <2>1, <2>3, <3>1
    <2> QED
      BY <2>2, <2>3
  <1>6. RingFits(w)'
    <2>1. PICK m \in Nat, b \in Nat, r \in Nat :
                /\ m = Len(framed[w]) /\ b = Base(w) /\ r = rcount[w]
      BY Counts
    <2>2. /\ RingFits(w) /\ Cap \in Nat /\ w \in Wids /\ framed[w] \in Seq(Msgs)
          /\ framed \in [Wids -> Seq(Msgs)] /\ rcount \in [Wids -> Nat]
      BY RingSizes DEF Rings, IInv, QueueTypes, RingTypes
    <2>3. wpc[w] # "pstore" /\ dreg = r
      BY <1>5, <2>1, <2>2 DEF RingFits
    <2>4. rcount'[w] = r + 1 /\ wpc'[w] # "pstore"
      BY <1>2, <2>2, <2>3
    <2>5. Held(w) = r /\ Phys(w) = r + 1 /\ Held(w)' = r + 1 /\ Phys(w)' = r + 1
      <3>1. Held(w) = r /\ Held(w)' = r + 1
        BY <2>1, <2>3, <2>4 DEF Held
      <3> QED
        BY <1>5, <3>1 DEF Phys
    <2>6. (Held(w) \in Nat /\ Phys(w) \in 0 .. Cap)'
      <3>1. r + 1 \in 0 .. Cap
        BY <2>2, <2>5 DEF RingFits
      <3> QED
        BY <2>5, <3>1
    <2>7. rtail'[w] = At(w, Phys(w))'
      <3>1. rtail[w] = (rhead[w] + (r + 1)) % Cap
        BY <2>2, <2>5 DEF RingFits, At
      <3> QED
        BY <1>2, <2>5, <3>1 DEF At
    <2>8. b + (r + 1) = 4 * m + d
      BY <1>5, <2>1, <2>2, <2>5 DEF RingFits
    <2>9. (Base(w) + Phys(w) = 4 * Len(framed[w]) + Pushed(w))'
      <3>1. CASE d < 4
        <4>1. Len(framed'[w]) = m
          BY <1>2, <1>4, <2>1, <3>1
        <4> QED
          BY <1>3, <1>5, <2>1, <2>5, <2>8, <3>1, <4>1
      <3>2. CASE ~(d < 4)
        <4>1. framed'[w] = Append(framed[w], dmsg)
          BY <1>1, <1>2, <1>4, <2>2, <3>2
        <4>2. Len(framed'[w]) = m + 1
          BY <2>1, <2>2, <4>1
        <4>3. d = 4 /\ b + (r + 1) = 4 * (m + 1) + 0
          BY <2>8, <3>2
        <4> QED
          BY <1>3, <1>5, <2>1, <2>5, <3>2, <4>2, <4>3
      <3> QED
        BY <3>1, <3>2
    <2>10. (dwid = w /\ InFrame => rcount[w] + (IF Filling(w) THEN 1 ELSE 0) + 4 - Pushed(w) <= Cap)'
      <3>1. CASE d < 4
        <4>1. r + 1 + 4 - d <= Cap
          BY <1>1, <1>2, <1>5, <2>1, <2>2 DEF RingFits, InFrame
        <4>2. (r + 1) + 0 + 4 - d <= Cap
          BY <2>2, <4>1
        <4> QED
          BY <1>5, <2>4, <3>1, <4>2
      <3>2. CASE ~(d < 4)
        <4>1. ~InFrame'
          BY <1>2, <1>4, <3>2 DEF InFrame
        <4> QED
          BY <4>1
      <3> QED
        BY <3>1, <3>2
    <2> QED
      BY <1>5, <2>4, <2>6, <2>7, <2>9, <2>10 DEF RingFits
  <1>7. ASSUME NEW v \in Inited, v # w
        PROVE  RingFits(v)' /\ Pushed(v) = 0 /\ Pushed(v)' = 0
    <2>1. v \in Wids /\ w \in Wids
      BY RingSizes
    <2>2. rcount'[v] = rcount[v] /\ framed'[v] = framed[v]
      BY <1>1, <1>2, <1>7, <2>1 DEF RingTypes, IInv, QueueTypes
    <2>3. FrameSame(v) /\ Pushed(v) = 0 /\ Pushed(v)' = 0
      BY <1>1, <1>2, <1>7 DEF FrameSame, Pushed
    <2>4. RingFits(v)'
      BY <1>2, <1>3, <2>2, <2>3, SameFits DEF Rings
    <2> QED
      BY <2>3, <2>4
  <1>8. \A v \in Inited : RingFits(v)'
    BY <1>6, <1>7
  <1>9. \A v \in Inited : Pushed(v)' = (IF dword < 4 THEN Pushed(v) ELSE 0)
    BY <1>4, <1>5, <1>7
  <1>10. Pushed(dwid) = dword
    BY <1>1, <1>4, <1>5
  <1> QED
    BY <1>1, <1>2, <1>3, <1>8, <1>9, <1>10

LEMMA WordStoreHeap ==
    ASSUME RingTypes, IInv, Rings, Heap, DrainWordStore
    PROVE  Rings' /\ Heap'
  <1>1. PICK w \in Inited : w = dwid
    BY StoreRing
  <1>2. /\ Delivering /\ \A v \in Inited : RingFits(v)'
        /\ UNCHANGED <<dwid, dmsg, dh, obj, orphans, rbuf, rhead, wpc, wword, wreg, r0, cur, read>>
        /\ framed' = (IF dword < 4 THEN framed ELSE [framed EXCEPT ![w] = Append(@, dmsg)])
        /\ dpc = "wstore" /\ dpc' = (IF dword < 4 THEN "word" ELSE "wake")
        /\ \A v \in Inited :
            /\ \A f : IndexOf(v, f)' = IndexOf(v, f) /\ GenOf(v, f)' = GenOf(v, f)
            /\ (Taken(v)' <=> Taken(v)) /\ (Freeing(v)' <=> Freeing(v))
            /\ Pushed(v)' = (IF dword < 4 THEN Pushed(v) ELSE 0)
        /\ Pushed(w) = dword
    BY <1>1, StoreRing
  <1>3. CASE dword < 4
    <2>1. dpc' = "word" /\ UNCHANGED framed /\ Delivering' /\ dpc' # "copy" /\ dpc # "copy"
      BY <1>2, <1>3 DEF Delivering
    <2>2. ASSUME NEW v \in Inited PROVE PartOf(v)' /\ ReadOf(v)' /\ Pending(v)' = Pending(v)
      <3>1. PartOf(v) /\ ReadOf(v)
        BY DEF Heap
      <3>2. PartOf(v)'
        BY <1>2, <1>3, <2>1, <3>1 DEF PartOf
      <3> QED
        BY <1>2, <2>1, <3>1, <3>2, SameRead DEF Pending
    <2>3. ASSUME NEW v \in Inited
          PROVE  /\ cur'[v] = cur[v] /\ Pending(v)' = Pending(v)
                 /\ \A f \in Pending(v) : /\ IndexOf(v, f)' = IndexOf(v, f)
                                          /\ GenOf(v, f)' = GenOf(v, f)
                                          /\ framed'[v][f] = framed[v][f]
                 /\ (Taken(v)' <=> Taken(v)) /\ (Freeing(v)' <=> Freeing(v))
                 /\ PartOf(v)' /\ ReadOf(v)'
      BY <1>2, <2>1, <2>2
    <2>4. Heap'
      BY <1>1, <1>2, <2>1, <2>3, KeepHeap
    <2> QED
      BY <1>2, <2>4 DEF Rings
  <1>4. CASE ~(dword < 4)
    <2>1. dpc' = "wake" /\ ~Delivering' /\ dword = 4
      BY <1>2, <1>4 DEF Delivering, RingTypes
    <2>2. PICK m \in Nat, l \in Nat : m = Len(framed[w]) /\ l = Len(read[w])
      BY Counts
    <2>3. l <= m
      BY <2>2 DEF Heap, ReadOf
    <2>4. /\ w \in Wids /\ framed \in [Wids -> Seq(Msgs)] /\ framed[w] \in Seq(Msgs)
          /\ read[w] \in Seq(0 .. NMsgs)
      BY RingSizes DEF IInv, QueueTypes, RingTypes
    <2>5. framed'[w] = Append(framed[w], dmsg) /\ \A v \in Inited : v # w => framed'[v] = framed[v]
      BY <1>2, <1>4, <2>4
    <2>6. PICK n \in Nat : n = m + 1
      OBVIOUS
    <2>7. /\ Len(framed'[w]) = n /\ framed'[w][n] = dmsg
          /\ \A j \in 1 .. m : framed'[w][j] = framed[w][j]
      <3>1. /\ Len(Append(framed[w], dmsg)) = m + 1 /\ Append(framed[w], dmsg)[m + 1] = dmsg
            /\ \A j \in 1 .. m : Append(framed[w], dmsg)[j] = framed[w][j]
        BY <2>2, <2>4
      <3> QED
        BY <2>5, <2>6, <3>1
    <2>8. Pending(w) = l + 1 .. m /\ Pending(w)' = l + 1 .. n /\ read' = read
      BY <1>2, <2>2, <2>7 DEF Pending
    <2>9. Pending(w)' = Pending(w) \union {n} /\ n \notin Pending(w) /\ Pending(w) \subseteq 1 .. m
      <3>1. l + 1 .. n = (l + 1 .. m) \union {n}
        BY <2>3, <2>6
      <3>2. n \notin l + 1 .. m /\ l + 1 .. m \subseteq 1 .. m
        BY <2>6
      <3> QED
        BY <2>8, <3>1, <3>2
    <2>10. \A v \in Inited : v # w => Pending(v)' = Pending(v)
      BY <1>2, <2>5 DEF Pending
    <2>11. IndexOf(w, n) = dh[1] /\ GenOf(w, n) = dh[2]
      <3>1. PartOf(w) /\ Pushed(w) = 4
        BY <1>2, <2>1 DEF Heap
      <3>2. IndexOf(w, Len(framed[w]) + 1) = dh[1] /\ GenOf(w, Len(framed[w]) + 1) = dh[2]
        BY <3>1 DEF PartOf
      <3> QED
        BY <2>2, <2>6, <3>2
    <2>12. /\ Live(dh[1], dh[2], w, dmsg)
           /\ \A v \in Inited : \A f \in Pending(v) : IndexOf(v, f) # dh[1]
      <3>1. DeliveryOf /\ dpc # "copy"
        BY <1>2 DEF Heap
      <3> QED
        BY <1>1, <1>2, <3>1 DEF DeliveryOf
    <2>13. \A i, g, o, x : Live(i, g, o, x)' <=> Live(i, g, o, x)
      BY <1>2 DEF Live
    <2>14. ASSUME NEW v \in Inited PROVE FramesOf(v)'
      <3>1. FramesOf(v)
        BY DEF Heap
      <3>2. CASE v # w
        BY <1>2, <2>5, <2>10, <2>13, <3>1, <3>2 DEF FramesOf
      <3>3. CASE v = w
        <4>1. \A f \in Pending(w) : framed'[w][f] = framed[w][f]
          BY <2>7, <2>9
        <4>2. ASSUME NEW f \in Pending(w)'
              PROVE  Live(IndexOf(w, f), GenOf(w, f), w, framed[w][f])'
          <5>1. IndexOf(w, f)' = IndexOf(w, f) /\ GenOf(w, f)' = GenOf(w, f)
            BY <1>2
          <5>2. CASE f \in Pending(w)
            <6>1. Live(IndexOf(w, f), GenOf(w, f), w, framed[w][f])
              BY <3>1, <3>3, <5>2 DEF FramesOf
            <6> QED
              BY <2>13, <4>1, <5>1, <5>2, <6>1
          <5>3. CASE f = n
            BY <2>7, <2>11, <2>12, <2>13, <5>1, <5>3
          <5> QED
            BY <2>9, <4>2, <5>2, <5>3
        <4>3. \A f, g \in Pending(w)' : IndexOf(w, f) = IndexOf(w, g) => f = g
          BY <2>9, <2>11, <2>12, <3>1, <3>3 DEF FramesOf
        <4>4. \A f, g \in Pending(w)' : IndexOf(w, f)' = IndexOf(w, g)' => f = g
          BY <1>2, <4>3
        <4>5. (\A f \in Pending(w) : Live(IndexOf(w, f), GenOf(w, f), w, framed[w][f]))'
          BY <4>2
        <4> QED
          BY <3>3, <4>4, <4>5 DEF FramesOf
      <3> QED
        BY <3>2, <3>3
    <2>15. ASSUME NEW v \in Inited PROVE PartOf(v)' /\ ReadOf(v)'
      <3>1. Pushed(v)' = 0 /\ PartOf(v)'
        BY <1>2, <1>4 DEF PartOf
      <3>2. ReadOf(v)
        BY DEF Heap
      <3>3. CASE v # w
        BY <1>2, <2>5, <3>1, <3>2, <3>3, SameRead
      <3>4. CASE v = w
        <4>1. l <= n /\ \A j \in 1 .. l : j \in 1 .. m
          BY <2>3, <2>6
        <4>2. \A j \in 1 .. l : read[w][j] = framed[w][j]
          BY <2>2, <3>2, <3>4 DEF ReadOf
        <4>3. \A j \in 1 .. l : read'[w][j] = framed'[w][j]
          BY <2>7, <2>8, <4>1, <4>2
        <4>4. Len(read'[w]) = l /\ Len(framed'[w]) = n
          BY <2>2, <2>7, <2>8
        <4> QED
          BY <3>1, <3>4, <4>1, <4>3, <4>4 DEF ReadOf
      <3> QED
        BY <3>3, <3>4
    <2>16. \A v \in Inited : Valid(cur[v])' <=> Valid(cur[v])
      BY <1>2 DEF Valid
    <2>17. ASSUME NEW v \in Inited PROVE CurOf(v)'
      <3>1. CurOf(v)
        BY DEF Heap
      <3>2. ASSUME Valid(cur[v]), ~Taken(v), NEW f \in Pending(v)' PROVE IndexOf(v, f)' # cur'[v][1]
        <4>1. IndexOf(v, f)' = IndexOf(v, f) /\ cur' = cur /\ dh[1] # cur[v][1]
          BY <1>2, <3>1, <3>2 DEF CurOf
        <4>2. CASE f \in Pending(v)
          BY <3>1, <3>2, <4>1, <4>2 DEF CurOf
        <4>3. CASE f \notin Pending(v)
          <5>1. v = w /\ f = n
            BY <2>9, <2>10, <3>2, <4>3
          <5> QED
            BY <2>11, <4>1, <5>1
        <4> QED
          BY <4>2, <4>3
      <3> QED
        BY <1>2, <2>1, <2>16, <3>1, <3>2 DEF CurOf
    <2>18. DeliveryOf' /\ FreesApart'
      BY <1>2, <2>1 DEF Heap, DeliveryOf, FreesApart
    <2>19. ASSUME NEW s PROVE Refd(s)' <=> Refd(s)
      <3>1. (\E v \in Inited : Valid(cur[v]) /\ s = cur[v][1])' <=>
                \E v \in Inited : Valid(cur[v]) /\ s = cur[v][1]
        BY <1>2, <2>16
      <3>2. (\E v \in Inited : \E f \in Pending(v) : s = IndexOf(v, f))' <=>
                s = dh[1] \/ \E v \in Inited : \E f \in Pending(v) : s = IndexOf(v, f)
        BY <1>2, <2>9, <2>10, <2>11
      <3> QED
        BY <1>2, <2>1, <3>1, <3>2 DEF Refd
    <2>20. OrphansOf' /\ Covered'
      BY <1>2, <2>19 DEF OrphansOf, Covered, Heap
    <2> QED
      BY <1>2, <2>14, <2>15, <2>17, <2>18, <2>20 DEF Heap, Rings
  <1> QED
    BY <1>3, <1>4

LEMMA DrainHeap ==
    ASSUME RingTypes, IInv, Rings, Heap, Drain, "ring" \notin raced', "ghs" \notin raced'
    PROVE  Rings' /\ Heap'
  <1>1. CASE DrainStart \/ DrainNext \/ DrainTake \/ DrainWake \/ DrainConsume \/ DrainStore
    <2>1. /\ UNCHANGED <<ringVars, obj, orphans, wpc, wword, wreg, r0, cur, read, framed>>
          /\ ~Delivering /\ ~Delivering'
      <3>1. CASE DrainStart
        BY <3>1 DEF DrainStart, workVars, ghosts, Delivering
      <3>2. CASE DrainNext
        BY <3>2 DEF DrainNext, workVars, ghosts, Delivering
      <3>3. CASE DrainTake
        BY <3>3 DEF DrainTake, workVars, ghosts, Delivering
      <3>4. CASE DrainWake
        BY <3>4 DEF DrainWake, workVars, ghosts, Delivering
      <3>5. CASE DrainConsume
        BY <3>5 DEF DrainConsume, workVars, ghosts, Delivering
      <3>6. CASE DrainStore
        BY <3>6 DEF DrainStore, workVars, ghosts, Delivering
      <3> QED
        BY <1>1, <3>1, <3>2, <3>3, <3>4, <3>5, <3>6
    <2> QED
      BY <2>1, OutsideHeap
  <1>2. CASE DrainAlloc \/ DrainCopy \/ DrainRoom
    BY <1>2, AllocHeap, CopyHeap, RoomHeap
  <1>3. CASE DrainWord \/ DrainWordStore
    BY <1>3, WordHeap, WordStoreHeap
  <1> QED
    BY <1>1, <1>2, <1>3 DEF Drain

\* What has overlapped stays overlapped.
LEMMA CalmStays == [Next]_vars /\ Calm' => Calm
  <1> SUFFICES ASSUME [Next]_vars PROVE raced \subseteq raced'
    BY DEF Calm
  <1>1. CASE \E p \in Producers : Push(p)
    BY <1>1 DEF Push, PushCheck, PushWrite, PushTail, PushCount, ghosts
  <1>2. CASE Drain
    BY <1>2 DEF Drain, DrainStart, DrainNext, DrainTake, DrainAlloc, DrainCopy, DrainRoom, DrainWord,
                DrainWordStore, DrainWake, DrainConsume, DrainStore, ghosts
  <1>3. CASE \E w \in Inited : Tick(w)
    BY <1>3 DEF Tick, WaitData, WaitRelease, FreeGeneration, WaitPark, WaitRecheck, Pop, PopStore, Body,
                BodyFree, BodyEnd, ghosts
  <1>4. CASE UNCHANGED vars
    BY <1>4 DEF vars, ghosts
  <1> QED
    BY <1>1, <1>2, <1>3, <1>4 DEF Next

LEMMA NextHeap == IInv /\ HeapInv /\ [Next]_vars => HeapInv'
  <1> SUFFICES ASSUME IInv, HeapInv, [Next]_vars, Calm' PROVE Rings' /\ Heap'
    BY NextTypes DEF HeapInv
  <1>1. RingTypes /\ Rings /\ Heap /\ "ring" \notin raced' /\ "ghs" \notin raced'
    BY CalmStays DEF HeapInv, Calm
  <1>2. CASE \E p \in Producers : Push(p)
    <2>1. UNCHANGED <<ringVars, obj, orphans, wpc, wword, wreg, r0, cur, read, framed, drainVars>>
      BY <1>2 DEF Push, PushCheck, PushWrite, PushTail, PushCount, workVars, ghosts
    <2> QED
      BY <1>1, <2>1, OutsideHeap
  <1>3. CASE UNCHANGED vars
    <2>1. UNCHANGED <<ringVars, obj, orphans, wpc, wword, wreg, r0, cur, read, framed, drainVars>>
      BY <1>3 DEF vars, workVars, ghosts
    <2> QED
      BY <1>1, <2>1, OutsideHeap
  <1> QED
    BY <1>1, <1>2, <1>3, DrainHeap, TickHeap DEF Next

LEMMA InitHeap == Init => HeapInv
  <1> SUFFICES ASSUME Init PROVE HeapInv
    OBVIOUS
  <1>1. /\ rbuf = [w \in Wids |-> [i \in Room |-> 0]]
        /\ rhead = [w \in Wids |-> 0] /\ rtail = [w \in Wids |-> 0] /\ rcount = [w \in Wids |-> 0]
        /\ obj = [i \in Slots |-> [used |-> FALSE, gen |-> 1, owner |-> 0, msg |-> 0]]
        /\ dpc = "idle" /\ dh = <<0, 0>> /\ dword = 1 /\ dreg = 0
        /\ wpc = [w \in Inited |-> "wait"] /\ wword = [w \in Inited |-> 1]
        /\ wreg = [w \in Inited |-> 0]
        /\ r0 = [w \in Inited |-> 0] /\ cur = [w \in Inited |-> <<0, 0>>]
        /\ parked = [w \in Inited |-> FALSE] /\ faulted = [w \in Inited |-> FALSE]
        /\ framed = [w \in Wids |-> <<>>] /\ read = [w \in Wids |-> <<>>] /\ orphans = {}
    BY DEF Init, Room, NoHandle
  <1>2. RingTypes
    <2>1. 0 \in 0 .. NMsgs
      BY Sizes
    <2>2. obj \in Objects
      BY <1>1, <2>1 DEF Objects
    <2>3. /\ rbuf \in [Wids -> [Room -> Nat]] /\ rhead \in [Wids -> Room] /\ rtail \in [Wids -> Room]
          /\ rcount \in [Wids -> Nat]
      BY <1>1, RingSizes
    <2>4. /\ wpc \in [Inited -> WorkPC] /\ wword \in [Inited -> 1 .. 4] /\ wreg \in [Inited -> Nat]
          /\ r0 \in [Inited -> Nat] /\ cur \in [Inited -> Nat \X Nat]
          /\ parked \in [Inited -> BOOLEAN] /\ faulted \in [Inited -> BOOLEAN]
          /\ \A w \in Inited : wpc[w] = "pstore" => wreg[w] >= 1
      BY <1>1 DEF WorkPC
    <2>5. dh \in Nat \X Nat /\ dword \in 1 .. 4 /\ dreg \in Nat /\ read \in [Wids -> Seq(0 .. NMsgs)]
      BY <1>1
    <2> QED
      BY <2>2, <2>3, <2>4, <2>5 DEF RingTypes
  <1>3. \A w \in Inited : w \in Wids /\ Len(framed[w]) = 0 /\ Len(read[w]) = 0 /\ Pending(w) = {}
    <2>1. ASSUME NEW w \in Inited PROVE w \in Wids /\ Len(framed[w]) = 0 /\ Len(read[w]) = 0
      BY <1>1, RingSizes
    <2>2. 0 + 1 .. 0 = {}
      OBVIOUS
    <2> QED
      BY <2>1, <2>2 DEF Pending
  <1>4. ASSUME NEW w \in Inited
        PROVE  /\ Popped(w) = 0 /\ Pushed(w) = 0 /\ ~Filling(w) /\ ~Freeing(w) /\ ~Taken(w)
               /\ Held(w) = 0 /\ Phys(w) = 0 /\ Base(w) = 0 /\ ~Valid(cur[w])
    <2>1. Popped(w) = 0 /\ Pushed(w) = 0 /\ ~Filling(w) /\ ~Freeing(w)
      BY <1>1 DEF Popped, Pushed, Filling, Freeing
    <2>2. ~Taken(w)
      BY <1>1, <2>1 DEF Taken
    <2>3. Held(w) = 0 /\ Phys(w) = 0
      <3>1. Held(w) = 0
        BY <1>1, <1>3 DEF Held
      <3> QED
        BY <2>1, <3>1 DEF Phys
    <2>4. Base(w) = 0
      BY <1>1, <1>3, <2>1 DEF Base
    <2>5. ~Valid(cur[w])
      BY <1>1 DEF Valid
    <2> QED
      BY <2>1, <2>2, <2>3, <2>4, <2>5
  <1>5. ~Delivering /\ ~InFrame
    BY <1>1 DEF Delivering, InFrame
  <1>6. ASSUME NEW w \in Inited PROVE RingFits(w)
    <2>1. rtail[w] = At(w, Phys(w))
      <3>1. 0 % Cap = 0
        BY RingSizes, RingPositions
      <3> QED
        BY <1>1, <1>3, <1>4, <3>1 DEF At
    <2>2. Held(w) \in Nat /\ Phys(w) \in 0 .. Cap
      BY <1>4, RingSizes
    <2>3. Base(w) + Phys(w) = 4 * Len(framed[w]) + Pushed(w)
      BY <1>3, <1>4
    <2>4. wpc[w] # "pstore"
      BY <1>1
    <2> QED
      BY <1>4, <1>5, <2>1, <2>2, <2>3, <2>4 DEF RingFits
  <1>7. ASSUME NEW w \in Inited PROVE ReadOf(w) /\ FramesOf(w) /\ PartOf(w) /\ CurOf(w)
    <2>1. ReadOf(w) /\ FramesOf(w) /\ PartOf(w)
      BY <1>3, <1>4 DEF ReadOf, FramesOf, PartOf
    <2>2. cur[w] = <<0, 0>> /\ 0 \in Slots /\ obj[0].gen = 1
      BY <1>1, RingSizes
    <2> QED
      BY <1>4, <2>1, <2>2 DEF CurOf
  <1>8. DeliveryOf /\ FreesApart /\ OrphansOf /\ Covered
    BY <1>1, <1>4, <1>5 DEF DeliveryOf, FreesApart, OrphansOf, Covered
  <1> QED
    BY <1>2, <1>6, <1>7, <1>8 DEF HeapInv, Rings, Heap

----------------------------------------------------------------------------
(* What the properties of the handle space say                             *)

\* Where the words of a frame are, by their numbers: a worker has read l of m framed messages and
\* popped b words, c of them since frame e; of the frame that is not complete p words are in the
\* ring, whose count is h, or h + 1 with the one being stored.
Placed(l, m, b, p, h, c, e, t) ==
    /\ b = 4 * e + c /\ e >= l /\ b + h + t = 4 * m + p
    /\ t <= p /\ p <= t + 3 /\ t <= 1 /\ c <= 4 /\ (c # 0 => e = l)

\* The words that Queued takes for indices are the second words of frames, and conversely.
WordsOf(l, m, b, p, h, c) ==
    /\ \A j \in Nat : j < h /\ (c + j) % 4 = 1 =>
            \E f \in Nat : /\ j = 4 * f - 3 - b /\ f >= l + 1
                           /\ f <= m \/ (f = m + 1 /\ p >= 2)
    /\ c = 2 /\ l <= m =>
            /\ 4 * (l + 1) - 3 - b = -1
            /\ l + 1 <= m \/ (l + 1 = m + 1 /\ p >= 2)
    /\ \A f \in Nat, k \in Int : f >= l + 1 /\ f <= m /\ k = 4 * f - 3 - b =>
            /\ k >= 0 => k < h /\ (c + k) % 4 = 1
            /\ k = -1 => c = 2

LEMMA FramePlaces ==
    ASSUME NEW l \in Nat, NEW m \in Nat, NEW b \in Nat, NEW p \in Nat, NEW h \in Nat, NEW c \in Nat,
           NEW e \in Nat, NEW t \in Nat, Placed(l, m, b, p, h, c, e, t)
    PROVE  WordsOf(l, m, b, p, h, c)
  <1> USE DEF Placed
  <1>1. ASSUME NEW j \in Nat, j < h, (c + j) % 4 = 1
        PROVE  \E f \in Nat : /\ j = 4 * f - 3 - b /\ f >= l + 1
                              /\ f <= m \/ (f = m + 1 /\ p >= 2)
    <2>1. PICK n \in Nat : n = c + j
      OBVIOUS
    <2>2. n = 4 * (n \div 4) + 1 /\ n \div 4 \in Nat
      BY <1>1, <2>1
    <2>3. PICK f \in Nat : f = e + (n \div 4) + 1
      BY <2>2
    <2>4. j = 4 * f - 3 - b
      BY <2>1, <2>2, <2>3
    <2>5. f >= l + 1
      BY <2>2, <2>3
    <2>6. 4 * f - 3 <= 4 * m + p - t - 1
      BY <1>1, <2>4
    <2>7. f <= m \/ (f = m + 1 /\ p >= 2)
      BY <2>6
    <2> QED
      BY <2>4, <2>5, <2>7
  <1>2. ASSUME c = 2, l <= m
        PROVE  /\ 4 * (l + 1) - 3 - b = -1
               /\ l + 1 <= m \/ (l + 1 = m + 1 /\ p >= 2)
    BY <1>2
  <1>3. ASSUME NEW f \in Nat, NEW k \in Int, f >= l + 1, f <= m, k = 4 * f - 3 - b
        PROVE  /\ k >= 0 => k < h /\ (c + k) % 4 = 1
               /\ k = -1 => c = 2
    <2>1. k < h
      BY <1>3
    <2>2. ASSUME k >= 0 PROVE (c + k) % 4 = 1
      <3>1. c + k = 4 * (f - e) - 3
        BY <1>3
      <3>2. f - e - 1 \in Nat
        BY <2>2, <3>1
      <3>3. PICK q \in Nat : q = f - e - 1
        BY <3>2
      <3>4. c + k = 4 * q + 1
        BY <3>1, <3>3
      <3>5. (4 * q + 1) % 4 = 1
        OBVIOUS
      <3> QED
        BY <3>4, <3>5
    <2>3. k = -1 => c = 2
      BY <1>3
    <2> QED
      BY <2>1, <2>2, <2>3
  <1> QED
    BY <1>1, <1>2, <1>3 DEF WordsOf

LEMMA FrameAt ==
    ASSUME IInv, RingTypes, Rings, NEW w \in Inited
    PROVE  WordsOf(Len(read[w]), Len(framed[w]), Base(w), Pushed(w), Held(w), Popped(w))
  <1>1. PICK l \in Nat, m \in Nat, b \in Nat, c \in 0 .. 4, p \in 0 .. 4 :
            /\ l = Len(read[w]) /\ m = Len(framed[w]) /\ b = Base(w) /\ c = Popped(w)
            /\ p = Pushed(w)
    BY Counts
  <1>2. PICK h \in Nat, r \in Nat : h = Held(w) /\ r = Phys(w)
    BY DEF Rings, RingFits
  <1>3. \E e \in Nat : b = 4 * e + c /\ e >= l /\ (c # 0 => e = l)
    <2>1. CASE wpc[w] = "body"
      <3>1. c = 0 /\ b = 4 * l + 4 + 0
        BY <1>1, <2>1 DEF Popped, Base
      <3>2. l + 1 \in Nat /\ b = 4 * (l + 1) + c /\ l + 1 >= l
        BY <3>1
      <3> QED
        BY <3>1, <3>2
    <2>2. CASE wpc[w] # "body"
      <3>1. b = 4 * l + 0 + c
        BY <1>1, <2>2 DEF Base
      <3>2. b = 4 * l + c /\ l >= l
        BY <1>1, <3>1
      <3> QED
        BY <3>2
    <2> QED
      BY <2>1, <2>2
  <1>4. PICK e \in Nat : b = 4 * e + c /\ e >= l /\ (c # 0 => e = l)
    BY <1>3
  <1>5. b + r = 4 * m + p
    BY <1>1, <1>2 DEF Rings, RingFits
  <1>6. PICK t \in 0 .. 1 : t = (IF Filling(w) THEN 1 ELSE 0)
    OBVIOUS
  <1>7. r = h + t
    BY <1>2, <1>6 DEF Phys
  <1>8. t <= p /\ p <= t + 3
    <2>1. CASE Filling(w)
      <3>1. p = dword /\ dword >= 1
        BY <1>1, <2>1 DEF Filling, Pushed, RingTypes
      <3> QED
        BY <1>6, <2>1, <3>1
    <2>2. CASE ~Filling(w)
      <3>1. p <= 3
        BY <1>1, <2>2, Counts
      <3> QED
        BY <1>6, <2>2, <3>1
    <2> QED
      BY <2>1, <2>2
  <1>9. b + h + t = 4 * m + p /\ t \in Nat
    BY <1>5, <1>7
  <1>10. Placed(l, m, b, p, h, c, e, t)
    BY <1>4, <1>6, <1>8, <1>9 DEF Placed
  <1>11. c \in Nat /\ p \in Nat
    OBVIOUS
  <1>12. WordsOf(l, m, b, p, h, c)
    BY <1>9, <1>10, <1>11, FramePlaces
  <1> QED
    BY <1>1, <1>2, <1>12

\* What is behind the index of a frame, complete or not.
LEMMA FrameRefd ==
    ASSUME IInv, RingTypes, Rings, Heap, NEW w \in Inited, NEW f \in Nat, f >= Len(read[w]) + 1,
           f <= Len(framed[w]) \/ (f = Len(framed[w]) + 1 /\ Pushed(w) >= 2)
    PROVE  Refd(IndexOf(w, f))
  <1>1. CASE f <= Len(framed[w])
    <2>1. f \in Pending(w)
      BY <1>1, Counts DEF Pending
    <2> QED
      BY <2>1 DEF Refd
  <1>2. CASE f = Len(framed[w]) + 1 /\ Pushed(w) >= 2
    <2>1. IndexOf(w, f) = dh[1]
      BY <1>2 DEF Heap, PartOf
    <2>2. Delivering
      BY <1>2 DEF Pushed, Delivering
    <2> QED
      BY <2>1, <2>2 DEF Refd
  <1> QED
    BY <1>1, <1>2, Counts

\* Reachable as a disjunction.
LEMMA ReachableCases ==
    ASSUME NEW s
    PROVE  s \in Reachable <=>
                \/ Delivering /\ s = dh[1]
                \/ \E w \in Inited : Valid(cur[w]) /\ s = cur[w][1]
                \/ \E w \in Inited : s \in Queued(w)
                \/ \E w \in Inited : Popped(w) = 2 /\ s = r0[w]
  <1> DEFINE A == IF dpc \in {"copy", "room", "word", "wstore"} THEN {dh[1]} ELSE {}
             B == UNION {Queued(w) : w \in Inited}
             C == {r0[w] : w \in {v \in Inited : Popped(v) = 2}}
             D == {cur[w][1] : w \in {v \in Inited : Valid(cur[v])}}
  <1>1. s \in A <=> Delivering /\ s = dh[1]
    BY DEF Delivering
  <1>2. s \in B <=> \E w \in Inited : s \in Queued(w)
    OBVIOUS
  <1>3. s \in C <=> \E w \in Inited : Popped(w) = 2 /\ s = r0[w]
    OBVIOUS
  <1>4. s \in D <=> \E w \in Inited : Valid(cur[w]) /\ s = cur[w][1]
    OBVIOUS
  <1>5. s \in Reachable <=> s \in A \/ s \in B \/ s \in C \/ s \in D
    BY DEF Reachable
  <1> HIDE DEF A, B, C, D
  <1> QED
    BY <1>1, <1>2, <1>3, <1>4, <1>5

LEMMA ReachableIsRefd ==
    ASSUME IInv, RingTypes, Rings, Heap, NEW s \in Reachable
    PROVE  Refd(s)
  <1>1. CASE Delivering /\ s = dh[1]
    BY <1>1 DEF Refd
  <1>2. CASE \E w \in Inited : Valid(cur[w]) /\ s = cur[w][1]
    BY <1>2 DEF Refd
  <1>3. ASSUME NEW w \in Inited,
               NEW l \in Nat, NEW m \in Nat, NEW b \in Nat, NEW p \in Nat, NEW h \in Nat, NEW c \in Nat,
               l = Len(read[w]), m = Len(framed[w]), b = Base(w), p = Pushed(w), h = Held(w),
               c = Popped(w)
        PROVE  /\ s \in Queued(w) => Refd(s)
               /\ c = 2 /\ s = r0[w] => Refd(s)
    <2>1. WordsOf(l, m, b, p, h, c)
      BY <1>3, FrameAt
    <2>2. ASSUME s \in Queued(w) PROVE Refd(s)
      <3>1. PICK j \in 0 .. h - 1 : (c + j) % 4 = 1 /\ s = RingWord(w, j)
        BY <1>3, <2>2 DEF Queued, Words
      <3>2. j \in Nat /\ j < h
        BY <3>1
      <3>3. PICK f \in Nat : /\ j = 4 * f - 3 - b /\ f >= l + 1
                             /\ f <= m \/ (f = m + 1 /\ p >= 2)
        BY <2>1, <3>1, <3>2 DEF WordsOf
      <3>4. IndexOf(w, f) = s
        <4>1. IndexOf(w, f) = IndexAt(w, j) /\ j >= 0
          BY <1>3, <3>2, <3>3 DEF IndexOf
        <4> QED
          BY <3>1, <4>1 DEF IndexAt
      <3> QED
        BY <1>3, <3>3, <3>4, FrameRefd
    <2>3. ASSUME c = 2, s = r0[w] PROVE Refd(s)
      <3>1. l <= m
        BY <1>3 DEF Heap, ReadOf
      <3>2. PICK f \in Nat : f = l + 1
        OBVIOUS
      <3>3. 4 * f - 3 - b = -1 /\ (f <= m \/ (f = m + 1 /\ p >= 2)) /\ f >= l + 1
        BY <2>1, <2>3, <3>1, <3>2 DEF WordsOf
      <3>4. IndexOf(w, f) = s
        <4>1. IndexOf(w, f) = IndexAt(w, -1)
          BY <1>3, <3>3 DEF IndexOf
        <4> QED
          BY <2>3, <4>1 DEF IndexAt
      <3> QED
        BY <1>3, <3>3, <3>4, FrameRefd
    <2> QED
      BY <2>2, <2>3
  <1>4. ASSUME NEW w \in Inited
        PROVE  /\ s \in Queued(w) => Refd(s)
               /\ Popped(w) = 2 /\ s = r0[w] => Refd(s)
    <2>1. /\ Len(read[w]) \in Nat /\ Len(framed[w]) \in Nat /\ Base(w) \in Nat /\ Pushed(w) \in Nat
          /\ Popped(w) \in Nat
      BY Counts
    <2>2. Held(w) \in Nat
      BY DEF Rings, RingFits
    <2> QED
      BY <1>3, <2>1, <2>2
  <1> QED
    BY <1>1, <1>2, <1>4, ReachableCases

LEMMA RefdIsReachable ==
    ASSUME IInv, RingTypes, Rings, Heap, NEW s, Refd(s)
    PROVE  s \in Reachable
  <1>1. CASE Delivering /\ s = dh[1]
    BY <1>1, ReachableCases
  <1>2. ASSUME NEW w \in Inited, Valid(cur[w]), s = cur[w][1] PROVE s \in Reachable
    BY <1>2, ReachableCases
  <1>3. ASSUME NEW w \in Inited, NEW f \in Pending(w), s = IndexOf(w, f),
               NEW l \in Nat, NEW m \in Nat, NEW b \in Nat, NEW p \in Nat, NEW h \in Nat, NEW c \in Nat,
               l = Len(read[w]), m = Len(framed[w]), b = Base(w), p = Pushed(w), h = Held(w),
               c = Popped(w)
        PROVE  s \in Reachable
    <2>1. WordsOf(l, m, b, p, h, c)
      BY <1>3, FrameAt
    <2>2. f \in Nat /\ f >= l + 1 /\ f <= m
      BY <1>3, Counts
    <2>3. PICK k \in Int : k = 4 * f - 3 - b
      BY <2>2
    <2>4. PICK g \in Int : g = 4 * f - 2 - b /\ g = k + 1
      BY <2>2, <2>3
    <2>5. IndexOf(w, f) = IndexAt(w, k) /\ GenOf(w, f) = GenAt(w, g)
      BY <1>3, <2>3, <2>4 DEF IndexOf, GenOf
    <2>6. (k >= 0 => k < h /\ (c + k) % 4 = 1) /\ (k = -1 => c = 2)
      BY <2>1, <2>2, <2>3 DEF WordsOf
    <2>7. CASE k >= 0
      <3>1. k \in 0 .. h - 1
        BY <2>6, <2>7
      <3>2. s = RingWord(w, k)
        BY <1>3, <2>5, <2>7 DEF IndexAt
      <3>3. s \in Queued(w)
        BY <1>3, <2>6, <2>7, <3>1, <3>2 DEF Queued, Words
      <3> QED
        BY <3>3, ReachableCases
    <2>8. CASE k = -1
      <3>1. s = r0[w]
        BY <1>3, <2>5, <2>8 DEF IndexAt
      <3> QED
        BY <1>3, <2>6, <2>8, <3>1, ReachableCases
    <2>9. CASE k < -1
      <3>1. ~(k >= 0) /\ k # -1 /\ ~(g >= 0)
        BY <2>4, <2>9
      <3>2. s = cur[w][1] /\ GenOf(w, f) = cur[w][2]
        BY <1>3, <2>5, <3>1 DEF IndexAt, GenAt
      <3>3. Live(s, GenOf(w, f), w, framed[w][f])
        BY <1>3 DEF Heap, FramesOf
      <3>4. Valid(cur[w])
        BY <3>2, <3>3 DEF Live, Valid
      <3> QED
        BY <1>2, <3>2, <3>4
    <2> QED
      BY <2>3, <2>7, <2>8, <2>9
  <1>4. ASSUME NEW w \in Inited, NEW f \in Pending(w), s = IndexOf(w, f) PROVE s \in Reachable
    <2>1. /\ Len(read[w]) \in Nat /\ Len(framed[w]) \in Nat /\ Base(w) \in Nat /\ Pushed(w) \in Nat
          /\ Popped(w) \in Nat
      BY Counts
    <2>2. Held(w) \in Nat
      BY DEF Rings, RingFits
    <2> QED
      BY <1>3, <1>4, <2>1, <2>2
  <1> QED
    BY <1>1, <1>2, <1>4 DEF Refd

LEMMA RefdIsLive ==
    ASSUME Heap, NEW s, Refd(s)
    PROVE  s \in Slots /\ obj[s].used
  BY DEF Refd, Heap, DeliveryOf, FramesOf, Live, Valid

LEMMA HeapAccounts == IInv /\ HeapInv => ObjectsAccounted
  <1> SUFFICES ASSUME IInv, HeapInv, raced \intersect {"ring", "ghs"} = {}
               PROVE  {i \in Slots : obj[i].used} = Reachable \union orphans
    BY DEF ObjectsAccounted
  <1>1. RingTypes /\ Rings /\ Heap
    BY DEF HeapInv, Calm
  <1>2. ASSUME NEW s \in Slots, obj[s].used PROVE s \in Reachable \union orphans
    BY <1>1, <1>2, RefdIsReachable DEF Heap, Covered
  <1>3. ASSUME NEW s \in Reachable PROVE s \in Slots /\ obj[s].used
    BY <1>1, ReachableIsRefd, RefdIsLive
  <1>4. ASSUME NEW s \in orphans PROVE s \in Slots /\ obj[s].used
    BY <1>1 DEF Heap, OrphansOf
  <1> QED
    BY <1>2, <1>3, <1>4

LEMMA HeapHandles == IInv /\ HeapInv => HandleLive
  <1> SUFFICES ASSUME IInv, HeapInv, raced \intersect {"ring", "ghs"} = {},
                      NEW w \in Inited, wpc[w] = "body"
               PROVE  Valid(cur[w]) /\ obj[cur[w][1]].owner = w
    BY DEF HandleLive
  <1>1. RingTypes /\ Rings /\ Heap
    BY DEF HeapInv, Calm
  <1> QED
    BY <1>1, BodyObject DEF Live

\* The inductive invariant of the rings and the handle space: until two updates of a ring or an
\* allocation and a free overlap, every frame has its own live object, every handle has one
\* reference, and the words between head and tail are those of the frames (epa_ring_buffer.c,
\* epa_ghs.c).
THEOREM HeapInvariance == Spec => [](IInv /\ HeapInv)
  <1>1. Init => IInv /\ HeapInv
    BY InitInv, InitHeap
  <1>2. IInv /\ HeapInv /\ [Next]_vars => (IInv /\ HeapInv)'
    BY NextInv, NextHeap
  <1> QED
    BY <1>1, <1>2, PTL DEF Spec

\* Until then a live object is one that the drain, a ring or a worker has a handle of, or one given
\* up in one of the two named ways; nothing a handle still reaches is ever freed, for any number
\* of workers, words of a ring and entries of the handle space (epa_ghs_alloc_tagged,
\* epa_ghs_free, worker_release_current_ghs_if_owned).
THEOREM ObjectsAccountedTheorem == Spec => []ObjectsAccounted
  BY HeapInvariance, HeapAccounts, PTL

\* Until then the body of a worker runs with a live object of its own (G_META, G_FREE after
\* WORKER_TRX_IN_R).
THEOREM HandleLiveTheorem == Spec => []HandleLive
  BY HeapInvariance, HeapHandles, PTL

----------------------------------------------------------------------------
(* The order of what is read                                               *)

\* The frames of a ring are the messages accepted for it, from the first.
FramedLog == "queue" \notin raced =>
    \A w \in Wids : \A j \in 1 .. Len(framed[w]) : framed[w][j] = log[w][j]

LEMMA FramedInLog ==
    ASSUME IInv, Exact, NEW w \in Wids
    PROVE  /\ Len(framed[w]) \in Nat /\ Len(log[w]) \in Nat /\ Len(framed[w]) <= Len(log[w])
           /\ log[w] \in Seq(Msgs) /\ framed[w] \in Seq(Msgs)
  <1>1. RingOf(w) /\ DrainOf(w) /\ framed[w] \in Seq(Msgs)
    BY DEF Exact, QueueOf, IInv, QueueTypes
  <1>2. log[w] \in Seq(Msgs) /\ Gone(w) \in Nat /\ Pend(w) \in 0 .. QMax
    BY <1>1 DEF RingOf
  <1>3. PICK l \in Nat, m \in Nat : l = Len(log[w]) /\ m = Len(framed[w])
    BY <1>1, <1>2
  <1>4. CASE dwid = w /\ dpc \in {"wake", "consume"}
    <2>1. Gone(w) = m - 1 /\ Pend(w) = l - Gone(w) /\ Pend(w) >= 1
      BY <1>1, <1>3, <1>4 DEF Gone, Pend, DrainOf
    <2>2. m <= l
      BY <2>1
    <2> QED
      BY <1>1, <1>2, <1>3, <2>2
  <1>5. CASE ~(dwid = w /\ dpc \in {"wake", "consume"})
    <2>1. Gone(w) = m - 0
      BY <1>3, <1>5 DEF Gone
    <2>3. l - m >= 0
      <3>1. Pend(w) = l - Gone(w) /\ Gone(w) = m
        BY <1>3, <2>1 DEF Pend
      <3> QED
        BY <1>2, <3>1
    <2>2. m <= l
      BY <2>3
    <2> QED
      BY <1>1, <1>2, <1>3, <2>2
  <1> QED
    BY <1>4, <1>5

LEMMA NextFramed == IInv /\ ExactInv /\ FramedLog /\ [Next]_vars => FramedLog'
  <1> SUFFICES ASSUME IInv, ExactInv, FramedLog, [Next]_vars, "queue" \notin raced',
                      NEW w \in Wids
               PROVE  \A j \in 1 .. Len(framed'[w]) : framed'[w][j] = log'[w][j]
    BY DEF FramedLog
  <1>1. Exact /\ \A j \in 1 .. Len(framed[w]) : framed[w][j] = log[w][j]
    BY RacedStays DEF ExactInv, FramedLog
  <1>2. PICK m \in Nat, l \in Nat :
            /\ m = Len(framed[w]) /\ l = Len(log[w]) /\ m <= l
            /\ log[w] \in Seq(Msgs) /\ framed[w] \in Seq(Msgs)
    BY <1>1, FramedInLog
  <1>3. CASE UNCHANGED <<log, framed>>
    BY <1>1, <1>3
  <1>4. ASSUME NEW p \in Producers, PushCount(p)
        PROVE  \A j \in 1 .. Len(framed'[w]) : framed'[w][j] = log'[w][j]
    <2>1. /\ log' = [log EXCEPT ![pwid[p]] = Append(@, pmsg[p])] /\ framed' = framed
          /\ log \in [Wids -> Seq(Nat)]
      BY <1>4 DEF PushCount, ExactInv
    <2>2. log'[w] = log[w] \/ log'[w] = Append(log[w], pmsg[p])
      BY <2>1
    <2>3. \A j \in 1 .. m : log'[w][j] = log[w][j]
      <3>1. \A j \in 1 .. l : Append(log[w], pmsg[p])[j] = log[w][j]
        BY <1>2
      <3>2. \A j \in 1 .. m : j \in 1 .. l
        BY <1>2
      <3> QED
        BY <2>2, <3>1, <3>2
    <2> QED
      BY <1>1, <1>2, <2>1, <2>3
  <1>5. CASE DrainWordStore /\ ~(dword < Words)
    <2>1. /\ framed' = [framed EXCEPT ![dwid] = Append(@, dmsg)] /\ log' = log /\ dpc = "wstore"
          /\ framed \in [Wids -> Seq(Msgs)]
      BY <1>5 DEF DrainWordStore, IInv, QueueTypes
    <2>2. CASE dwid # w
      BY <1>1, <2>1, <2>2
    <2>3. CASE dwid = w
      <3>1. framed'[w] = Append(framed[w], dmsg)
        BY <2>1, <2>3
      <3>2. Gone(w) = m /\ dmsg = log[w][m + 1]
        <4>1. Gone(w) = m - 0
          BY <1>2, <2>1 DEF Gone
        <4>2. Gone(w) = m
          BY <4>1
        <4>3. dmsg = log[w][Gone(w) + 1]
          BY <1>1, <2>1, <2>3 DEF Exact, QueueOf, DrainOf, Carrying
        <4> QED
          BY <4>2, <4>3
      <3>3. /\ Len(framed'[w]) = m + 1 /\ framed'[w][m + 1] = dmsg
            /\ \A j \in 1 .. m : framed'[w][j] = framed[w][j]
        BY <1>2, <3>1
      <3>4. \A j \in 1 .. m + 1 : j \in 1 .. m \/ j = m + 1
        OBVIOUS
      <3> QED
        BY <1>1, <1>2, <2>1, <3>2, <3>3, <3>4
    <2> QED
      BY <2>2, <2>3
  <1>6. \/ UNCHANGED <<log, framed>>
        \/ \E p \in Producers : PushCount(p)
        \/ DrainWordStore /\ ~(dword < Words)
    BY DEF Next, vars, ghosts, Push, PushCheck, PushWrite, PushTail, Drain, DrainStart,
           DrainNext, DrainTake, DrainAlloc, DrainCopy, DrainRoom, DrainWord, DrainWordStore,
           DrainWake, DrainConsume, DrainStore, Tick, WaitData, WaitRelease, FreeGeneration,
           WaitPark, WaitRecheck, Pop, PopStore, Body, BodyFree, BodyEnd
  <1> QED
    BY <1>3, <1>4, <1>5, <1>6

LEMMA InitFramed == Init => FramedLog
  <1> SUFFICES ASSUME Init, NEW w \in Wids, NEW j \in 1 .. Len(framed[w])
               PROVE  framed[w][j] = log[w][j]
    BY DEF FramedLog
  <1>1. Len(framed[w]) = 0
    BY DEF Init
  <1> QED
    BY <1>1

\* A sequence that agrees with another as far as it goes is a prefix of it.
LEMMA PrefixByElements ==
    ASSUME NEW S, NEW T, NEW s \in Seq(S), NEW t \in Seq(T), Len(s) <= Len(t),
           \A j \in 1 .. Len(s) : s[j] = t[j]
    PROVE  IsPrefix(s, t)
  <1>1. PICK n \in Nat : n = Len(s)
    OBVIOUS
  <1>2. SubSeq(s, 1, n) = [j \in 1 .. n |-> s[j]] /\ SubSeq(t, 1, n) = [j \in 1 .. n |-> t[j]]
    <2>1. \A j \in 1 .. n : 1 + j - 1 = j
      OBVIOUS
    <2> QED
      BY <1>1, <2>1
  <1> QED
    BY <1>1, <1>2 DEF IsPrefix

LEMMA ReadInLog == IInv /\ ExactInv /\ HeapInv /\ FramedLog => ReadInOrder
  <1> SUFFICES ASSUME IInv, ExactInv, HeapInv, FramedLog, raced = {}, NEW w \in Inited
               PROVE  IsPrefix(read[w], log[w])
    BY DEF ReadInOrder
  <1>1. RingTypes /\ Heap /\ Exact /\ w \in Wids
    BY RingSizes DEF HeapInv, Calm, ExactInv
  <1>2. /\ read[w] \in Seq(0 .. NMsgs) /\ Len(read[w]) <= Len(framed[w])
        /\ \A j \in 1 .. Len(read[w]) : read[w][j] = framed[w][j]
    BY <1>1 DEF RingTypes, Heap, ReadOf
  <1>3. PICK l \in Nat, m \in Nat, n \in Nat :
            /\ l = Len(log[w]) /\ m = Len(framed[w]) /\ n = Len(read[w]) /\ m <= l
            /\ log[w] \in Seq(Msgs)
    BY <1>1, <1>2, FramedInLog
  <1>4. \A j \in 1 .. m : framed[w][j] = log[w][j]
    BY <1>1, <1>3 DEF FramedLog
  <1>5. n <= m /\ n <= l /\ \A j \in 1 .. n : j \in 1 .. m
    BY <1>2, <1>3
  <1>6. \A j \in 1 .. n : read[w][j] = log[w][j]
    BY <1>2, <1>3, <1>4, <1>5
  <1> QED
    BY <1>2, <1>3, <1>5, <1>6, PrefixByElements

\* While nothing has overlapped, a worker reads what was accepted for it in the order of
\* acceptance, without a gap, also when deliveries fail and are tried again
\* (epa_kernel_ingress_push_framed, epa_kernel_deliver_ingress_msg, WORKER_TRX_IN_R).
THEOREM ReadInOrderTheorem == Spec => []ReadInOrder
  <1> DEFINE All == IInv /\ ExactInv /\ HeapInv /\ FramedLog
  <1>1. Init => All
    BY InitInv, InitExact, InitHeap, InitFramed
  <1>2. All /\ [Next]_vars => All'
    BY NextInv, NextExact, NextHeap, NextFramed
  <1>3. All => ReadInOrder
    BY ReadInLog
  <1> HIDE DEF All
  <1> QED
    BY <1>1, <1>2, <1>3, PTL DEF Spec

----------------------------------------------------------------------------
(* The wave profile                                                        *)

\* A worker past WAIT_FOR_DATA has the rest of a frame in its ring, and the drain leaves one there
\* before it wakes the worker.
WaveOf(w) ==
    /\ wpc[w] = "pop" /\ ~parked[w] /\ ~faulted[w] => rcount[w] >= 5 - wword[w]
    /\ wpc[w] = "pstore" /\ ~faulted[w] => rcount[w] >= 5 - wword[w]
    /\ wpc[w] = "recheck" => parked[w]
    /\ dwid = w /\ InFrame => rcount[w] >= dword - 1
    /\ dwid = w /\ dpc = "wake" => rcount[w] >= 4

Between == dpc # "idle" => \A w \in Inited : ~MidInstruction(w)

WaveInv == profile = "wave" =>
    raced \subseteq {"queue"} /\ Between /\ \A w \in Inited : WaveOf(w)

\* A tick starts when no drain is under way, a drain when no instruction is.
LEMMA WaveTurns ==
    ASSUME HeapInv, profile = "wave", raced \subseteq {"queue"}, Between, [Next]_vars
    PROVE  raced' \subseteq {"queue"} /\ Between' /\ profile' = "wave"
  <1>1. ASSUME NEW p \in Producers, Push(p) PROVE raced' \subseteq {"queue"} /\ Between' /\ profile' = "wave"
    <2>1. UNCHANGED <<profile, dpc, wpc>> /\ raced' \subseteq raced \union {"queue"}
      BY <1>1 DEF Push, PushCheck, PushWrite, PushTail, PushCount, drainVars, workVars, ghosts
    <2> QED
      BY <2>1 DEF Between, MidInstruction
  <1>2. CASE Drain
    <2>1. UNCHANGED <<profile, wpc>> /\ (dpc' # "idle" => dpc # "idle" \/ DrainStart)
      BY <1>2 DEF Drain, DrainStart, DrainNext, DrainTake, DrainAlloc, DrainCopy, DrainRoom, DrainWord,
                  DrainWordStore, DrainWake, DrainConsume, DrainStore, workVars
    <2>2. Between'
      BY <2>1 DEF Between, MidInstruction, DrainStart, DrainMayStart
    <2>3. raced' \subseteq {"queue"}
      <3>1. DrainAlloc => dpc # "idle" /\ (\A w \in Inited : wpc[w] \notin {"freeing", "bfreeing"})
        BY DEF DrainAlloc, Between, MidInstruction
      <3>2. DrainAlloc => raced' = raced
        BY <3>1 DEF DrainAlloc
      <3>3. DrainWord => raced' = raced
        <4>1. DrainWord => dwid \in Inited
          BY DEF DrainWord, HeapInv, Calm, Heap, DeliveryOf, Delivering, InFrame
        <4>2. DrainWord => wpc[dwid] # "pstore"
          BY <4>1 DEF DrainWord, Between, MidInstruction
        <4> QED
          BY <4>2 DEF DrainWord
      <3>4. ~DrainAlloc /\ ~DrainWord => raced' \subseteq raced \union {"queue"}
        BY <1>2 DEF Drain, DrainStart, DrainNext, DrainTake, DrainCopy, DrainRoom,
                  DrainWordStore, DrainWake, DrainConsume, DrainStore, ghosts
      <3> QED
        BY <3>2, <3>3, <3>4
    <2> QED
      BY <2>1, <2>2, <2>3
  <1>3. ASSUME NEW w \in Inited, Tick(w) PROVE raced' \subseteq {"queue"} /\ Between' /\ profile' = "wave"
    <2>1. dpc = "idle"
      BY <1>3 DEF Between, Tick, WaitData, WaitRelease, FreeGeneration, WaitPark, WaitRecheck, Pop, PopStore,
                  Body, BodyFree, BodyEnd, MidInstruction, MayTick
    <2>2. UNCHANGED <<profile, dpc>>
      BY <1>3 DEF Tick, WaitData, WaitRelease, FreeGeneration, WaitPark, WaitRecheck, Pop, PopStore,
                  Body, BodyFree, BodyEnd, drainVars
    <2>3. raced' = raced
      BY <1>3, <2>1 DEF Tick, WaitData, WaitRelease, FreeGeneration, WaitPark, WaitRecheck, Pop, PopStore,
                  Body, BodyFree, BodyEnd, ghosts
    <2> QED
      BY <2>1, <2>2, <2>3 DEF Between
  <1>4. CASE UNCHANGED vars
    BY <1>4 DEF vars, ghosts, drainVars, workVars, Between, MidInstruction
  <1> QED
    BY <1>1, <1>2, <1>3, <1>4 DEF Next

\* Under wave the ring of a worker before its first pop has whole frames.
LEMMA WholeFrames ==
    ASSUME IInv, HeapInv, raced \subseteq {"queue"}, NEW w \in Inited, dpc = "idle",
           wpc[w] \in {"wait", "recheck"}, rcount[w] # 0
    PROVE  rcount[w] >= 4
  <1>1. RingTypes /\ RingFits(w)
    BY DEF HeapInv, Calm, Rings
  <1>2. PICK l \in Nat, m \in Nat, r \in Nat :
            l = Len(read[w]) /\ m = Len(framed[w]) /\ r = rcount[w]
    BY <1>1, Counts
  <1>3. Popped(w) = 0 /\ Base(w) = 4 * l + 0 + 0 /\ Pushed(w) = 0 /\ ~Filling(w)
    <2>1. Popped(w) = 0 /\ Pushed(w) = 0 /\ ~Filling(w)
      BY DEF Popped, Pushed, Filling
    <2> QED
      BY <1>2, <2>1 DEF Base
  <1>4. Phys(w) = r
    <2>1. Held(w) = r - 0
      BY <1>2 DEF Held
    <2> QED
      BY <1>2, <1>3, <2>1 DEF Phys
  <1>5. 4 * l + r = 4 * m /\ r # 0
    BY <1>1, <1>2, <1>3, <1>4 DEF RingFits
  <1> QED
    BY <1>2, <1>5

LEMMA WaveDrain ==
    ASSUME IInv, HeapInv, raced \subseteq {"queue"}, Between, \A w \in Inited : WaveOf(w), Drain,
           NEW w \in Inited
    PROVE  WaveOf(w)'
  <1>1. /\ RingTypes /\ RingFits(w) /\ WaveOf(w) /\ w \in Wids /\ rcount[w] \in Nat
        /\ dword \in 1 .. 4 /\ wword[w] \in 1 .. 4
    BY RingSizes DEF HeapInv, Calm, Rings, RingTypes
  <1>2. UNCHANGED <<wpc, wword>>
    BY DEF Drain, DrainStart, DrainNext, DrainTake, DrainAlloc, DrainCopy, DrainRoom, DrainWord,
           DrainWordStore, DrainWake, DrainConsume, DrainStore, workVars
  <1>3. CASE DrainStart \/ DrainNext \/ DrainTake \/ DrainAlloc \/ DrainCopy \/ DrainConsume \/ DrainStore
    <2>1. UNCHANGED <<rcount, parked, faulted>> /\ ~InFrame' /\ dpc' # "wake"
      BY <1>3 DEF DrainStart, DrainNext, DrainTake, DrainAlloc, DrainCopy, DrainConsume, DrainStore,
             workVars, ringVars, InFrame
    <2> QED
      BY <1>1, <1>2, <2>1 DEF WaveOf
  <1>4. CASE DrainRoom
    <2>1. /\ UNCHANGED <<rcount, parked>> /\ dpc' # "wake" /\ (InFrame' => dword' = 1)
          /\ ~faulted'[w] => ~faulted[w]
      BY <1>4 DEF DrainRoom, ringVars, InFrame
    <2>2. rcount[w] >= 1 - 1
      BY <1>1
    <2> QED
      BY <1>1, <1>2, <2>1, <2>2 DEF WaveOf
  <1>5. CASE DrainWord
    <2>1. /\ UNCHANGED <<rcount, parked, faulted, dwid, dword>> /\ dpc' # "wake" /\ dpc = "word" /\ InFrame
      BY <1>5 DEF DrainWord, workVars, InFrame
    <2> QED
      BY <1>1, <1>2, <2>1 DEF WaveOf
  <1>6. CASE DrainWordStore
    <2>1. /\ UNCHANGED <<parked, faulted, dwid>> /\ dpc = "wstore" /\ InFrame
          /\ rcount' = [rcount EXCEPT ![dwid] = dreg + 1]
          /\ IF dword < 4 THEN dpc' = "word" /\ dword' = dword + 1 ELSE dpc' = "wake"
      BY <1>6 DEF DrainWordStore, workVars, InFrame, Words
    <2>2. dwid = w => rcount'[w] = rcount[w] + 1 /\ rcount[w] >= dword - 1
      BY <1>1, <2>1 DEF RingFits, Filling, WaveOf, RingTypes
    <2>3. dwid # w => rcount'[w] = rcount[w]
      BY <1>1, <2>1 DEF RingTypes
    <2>4. rcount'[w] \in Nat /\ rcount'[w] >= rcount[w]
      BY <1>1, <2>2, <2>3
    <2>5. dwid = w /\ InFrame' => rcount'[w] >= dword' - 1
      BY <1>1, <2>1, <2>2 DEF InFrame
    <2>6. dwid = w /\ dpc' = "wake" => rcount'[w] >= 4
      BY <1>1, <2>1, <2>2
    <2>7. rcount[w] >= 5 - wword[w] => rcount'[w] >= 5 - wword[w]
      BY <1>1, <2>4
    <2> QED
      BY <1>1, <1>2, <2>1, <2>5, <2>6, <2>7 DEF WaveOf
  <1>7. CASE DrainWake
    <2>1. /\ UNCHANGED <<rcount, faulted, dwid>> /\ dpc = "wake" /\ dpc' = "consume"
          /\ parked' = [parked EXCEPT ![dwid] = FALSE]
      BY <1>7 DEF DrainWake, ringVars
    <2>2. dwid # w => parked'[w] = parked[w]
      BY <1>1, <2>1 DEF RingTypes
    <2>3. dwid = w => rcount[w] >= 5 - wword[w]
      <3>1. dwid = w => rcount[w] >= 4
        BY <1>1, <2>1 DEF WaveOf
      <3> QED
        BY <1>1, <3>1
    <2>4. wpc[w] # "recheck"
      BY <2>1 DEF Between, MidInstruction
    <2> QED
      BY <1>1, <1>2, <2>1, <2>2, <2>3, <2>4 DEF WaveOf, InFrame
  <1> QED
    BY <1>3, <1>4, <1>5, <1>6, <1>7 DEF Drain

LEMMA WaveTick ==
    ASSUME IInv, HeapInv, profile = "wave", raced \subseteq {"queue"}, Between, \A v \in Inited : WaveOf(v),
           NEW w \in Inited, Tick(w), NEW v \in Inited
    PROVE  WaveOf(v)'
  <1>1. /\ RingTypes /\ RingFits(v) /\ WaveOf(v) /\ v \in Wids /\ rcount[v] \in Nat
        /\ wword[v] \in 1 .. 4 /\ dpc = "idle"
    <2>1. dpc = "idle"
      BY DEF Between, Tick, WaitData, WaitRelease, FreeGeneration, WaitPark, WaitRecheck, Pop, PopStore,
             Body, BodyFree, BodyEnd, MidInstruction, MayTick
    <2> QED
      BY <2>1, RingSizes DEF HeapInv, Calm, Rings, RingTypes
  <1>2. dpc' = "idle" /\ ~InFrame'
    BY <1>1 DEF Tick, WaitData, WaitRelease, FreeGeneration, WaitPark, WaitRecheck, Pop, PopStore,
             Body, BodyFree, BodyEnd, drainVars, InFrame
  <1>3. CASE v # w
    <2>1. /\ wpc'[v] = wpc[v] /\ wword'[v] = wword[v] /\ parked'[v] = parked[v] /\ faulted'[v] = faulted[v]
      BY <1>1, <1>3 DEF Tick, WaitData, WaitRelease, FreeGeneration, WaitPark, WaitRecheck, Pop, PopStore,
             Body, BodyFree, BodyEnd, RingTypes
    <2>2. rcount'[v] = rcount[v]
      BY <1>1, <1>3 DEF Tick, WaitData, WaitRelease, FreeGeneration, WaitPark, WaitRecheck, Pop, PopStore,
             Body, BodyFree, BodyEnd, RingTypes, ringVars
    <2> QED
      BY <1>1, <1>2, <2>1, <2>2 DEF WaveOf
  <1>4. CASE v = w
    <2>0. /\ wpc \in [Inited -> WorkPC] /\ wword \in [Inited -> 1 .. 4] /\ parked \in [Inited -> BOOLEAN]
          /\ faulted \in [Inited -> BOOLEAN] /\ rcount \in [Wids -> Nat] /\ wreg \in [Inited -> Nat]
      BY <1>1 DEF RingTypes
    <2>1. CASE WaitData(w)
      <3>1. wpc[w] = "wait" /\ rcount[w] # 0 /\ UNCHANGED rcount /\ wpc'[w] = "pop" /\ wword'[w] = 1
        BY <1>1, <1>4, <2>0, <2>1 DEF WaitData, ringVars
      <3>2. rcount[w] >= 4
        BY <1>1, <3>1, WholeFrames
      <3>3. rcount'[w] >= 5 - 1
        BY <3>1, <3>2
      <3> QED
        BY <1>2, <1>4, <3>1, <3>3 DEF WaveOf
    <2>2. CASE WaitRelease(w) \/ FreeGeneration(w) \/ BodyFree(w) \/ BodyEnd(w)
      <3>1. wpc'[w] \in {"freeing", "park", "wait", "bfreeing"}
        BY <2>0, <2>2 DEF WaitRelease, FreeGeneration, BodyFree, BodyEnd
      <3> QED
        BY <1>2, <1>4, <3>1 DEF WaveOf
    <2>3. CASE WaitPark(w)
      <3>1. wpc'[w] = "recheck" /\ parked'[w]
        BY <2>0, <2>3 DEF WaitPark
      <3> QED
        BY <1>2, <1>4, <3>1 DEF WaveOf
    <2>4. CASE WaitRecheck(w)
      <3>1. /\ wpc[w] = "recheck" /\ UNCHANGED rcount /\ wpc'[w] = "pop" /\ wword'[w] = 1
            /\ parked'[w] = (parked[w] /\ rcount[w] = 0)
        BY <2>0, <2>4 DEF WaitRecheck, ringVars
      <3>2. ~parked'[w] => rcount[w] # 0
        BY <1>1, <1>4, <3>1 DEF WaveOf
      <3>3. rcount[w] # 0 => rcount[w] >= 4
        BY <1>1, <3>1, WholeFrames
      <3>4. ~parked'[w] => rcount'[w] >= 5 - 1
        BY <3>1, <3>2, <3>3
      <3> QED
        BY <1>2, <1>4, <3>1, <3>4 DEF WaveOf
    <2>5. CASE Pop(w)
      <3>1. CASE rcount[w] = 0
        <4>1. faulted'[w] /\ UNCHANGED <<wpc, rcount>> /\ wpc[w] = "pop"
          BY <2>0, <2>5, <3>1 DEF Pop
        <4> QED
          BY <1>2, <1>4, <4>1 DEF WaveOf
      <3>2. CASE rcount[w] # 0
        <4>1. /\ wpc[w] = "pop" /\ wpc'[w] = "pstore" /\ UNCHANGED <<rcount, faulted, wword>> /\ ~parked[w]
          BY <2>0, <2>5, <3>2 DEF Pop
        <4> QED
          BY <1>1, <1>2, <1>4, <4>1 DEF WaveOf
      <3> QED
        BY <3>1, <3>2
    <2>6. CASE PopStore(w)
      <3>1. /\ wpc[w] = "pstore" /\ UNCHANGED faulted
            /\ rcount'[w] = wreg[w] - 1 /\ wpc'[w] = (IF wword[w] < 4 THEN "pop" ELSE "body")
            /\ wword'[w] = (IF wword[w] < 4 THEN wword[w] + 1 ELSE 1)
        BY <1>1, <1>4, <2>0, <2>6 DEF PopStore, Words
      <3>2. wreg[w] = rcount[w]
        BY <1>1, <1>4, <3>1 DEF RingFits
      <3>3. CASE wword[w] < 4
        <4>1. ~faulted[w] => rcount[w] >= 5 - wword[w]
          BY <1>1, <1>4, <3>1 DEF WaveOf
        <4>2. PICK r \in Nat, x \in 1 .. 4 : r = rcount[w] /\ x = wword[w]
          BY <1>1, <1>4
        <4>3. ~faulted[w] => r >= 5 - x
          BY <4>1, <4>2
        <4>4. r >= 5 - x => r - 1 >= 5 - (x + 1)
          OBVIOUS
        <4>5. rcount'[w] = r - 1 /\ wword'[w] = x + 1 /\ wpc'[w] = "pop"
          BY <3>1, <3>2, <3>3, <4>2
        <4>6. ~faulted'[w] => rcount'[w] >= 5 - wword'[w]
          BY <3>1, <4>3, <4>4, <4>5
        <4> QED
          BY <1>2, <1>4, <4>5, <4>6 DEF WaveOf
      <3>4. CASE ~(wword[w] < 4)
        <4>1. wpc'[w] = "body"
          BY <3>1, <3>4
        <4> QED
          BY <1>2, <1>4, <4>1 DEF WaveOf
      <3> QED
        BY <3>3, <3>4
    <2>7. CASE Body(w)
      <3>1. wpc[w] = "body" /\ wpc'[w] \in {"body", "ended"}
        BY <2>0, <2>7 DEF Body
      <3> QED
        BY <1>2, <1>4, <3>1 DEF WaveOf
    <2> QED
      BY <2>1, <2>2, <2>3, <2>4, <2>5, <2>6, <2>7 DEF Tick
  <1> QED
    BY <1>3, <1>4

LEMMA NextWave == IInv /\ HeapInv /\ WaveInv /\ [Next]_vars => WaveInv'
  <1> SUFFICES ASSUME IInv, HeapInv, WaveInv, [Next]_vars, profile' = "wave" PROVE WaveInv'
    BY DEF WaveInv
  <1>1. profile = "wave"
    BY DEF Next, vars, ghosts, Push, PushCheck, PushWrite, PushTail, PushCount, Drain, DrainStart,
           DrainNext, DrainTake, DrainAlloc, DrainCopy, DrainRoom, DrainWord, DrainWordStore,
           DrainWake, DrainConsume, DrainStore, Tick, WaitData, WaitRelease, FreeGeneration,
           WaitPark, WaitRecheck, Pop, PopStore, Body, BodyFree, BodyEnd
  <1>2. raced \subseteq {"queue"} /\ Between /\ \A w \in Inited : WaveOf(w)
    BY <1>1 DEF WaveInv
  <1>3. raced' \subseteq {"queue"} /\ Between'
    BY <1>1, <1>2, WaveTurns
  <1>4. ASSUME NEW w \in Inited PROVE WaveOf(w)'
    <2>1. CASE \/ \E p \in Producers : Push(p)
               \/ UNCHANGED vars
      <3>1. UNCHANGED <<wpc, wword, rcount, parked, faulted, dpc, dwid, dword>>
        BY <2>1 DEF Push, PushCheck, PushWrite, PushTail, PushCount, vars, workVars, ringVars, drainVars
      <3> QED
        BY <1>2, <3>1 DEF WaveOf, InFrame
    <2> QED
      BY <1>1, <1>2, <2>1, WaveDrain, WaveTick DEF Next
  <1> QED
    BY <1>3, <1>4 DEF WaveInv

LEMMA InitWave == Init => WaveInv
  BY DEF Init, WaveInv, WaveOf, Between, InFrame

LEMMA WaveCarries == HeapInv /\ WaveInv => WaveCarriesHandle
  <1> SUFFICES ASSUME HeapInv, WaveInv, profile = "wave", NEW w \in Inited,
                      wpc[w] = "pop", ~parked[w], ~faulted[w]
               PROVE  rcount[w] >= 4 - wword[w] + 1
    BY DEF WaveInv, WaveCarriesHandle, WakeCarriesHandle, Words
  <1>1. rcount[w] >= 5 - wword[w] /\ rcount[w] \in Nat /\ wword[w] \in 1 .. 4
    BY RingSizes DEF WaveInv, WaveOf, HeapInv, RingTypes
  <1> QED
    BY <1>1

\* Under the wave profile only pushes ever overlap, and a worker past WAIT_FOR_DATA finds in its
\* ring all the words it is about to pop: it never faults on an empty ring in the middle of a
\* handle (the wave round of epa_sched_wave.c between two drains).
THEOREM WaveCarriesHandleTheorem == Spec => []WaveCarriesHandle
  <1> DEFINE All == IInv /\ HeapInv /\ WaveInv
  <1>1. Init => All
    BY InitInv, InitHeap, InitWave
  <1>2. All /\ [Next]_vars => All'
    BY NextInv, NextHeap, NextWave
  <1>3. All => WaveCarriesHandle
    BY WaveCarries
  <1> HIDE DEF All
  <1> QED
    BY <1>1, <1>2, <1>3, PTL DEF Spec
=============================================================================
