--------------------------- MODULE RpcPeer_proofs ---------------------------
(***************************************************************************)
(* Theorems about RpcPeer for any number of calling threads, any room in   *)
(* the sockets and any number of calls.                                    *)
(***************************************************************************)
EXTENDS RpcPeer, SequenceTheorems, WellFoundedInduction, TLAPS

----------------------------------------------------------------------------
(* Sequences and numbers                                                   *)

\* What is in a sequence.
LEMMA ToSetMember ==
    ASSUME NEW S, NEW s \in Seq(S), NEW x
    PROVE  x \in ToSet(s) <=> \E i \in 1 .. Len(s) : s[i] = x
  BY DEF ToSet

LEMMA AppendMembers ==
    ASSUME NEW S, NEW s \in Seq(S), NEW x \in S
    PROVE  /\ Append(s, x) \in Seq(S)
           /\ Len(Append(s, x)) = Len(s) + 1
           /\ \A i \in 1 .. Len(s) : Append(s, x)[i] = s[i]
           /\ Append(s, x)[Len(s) + 1] = x
           /\ ToSet(Append(s, x)) = ToSet(s) \union {x}
           /\ IsInjective(s) /\ x \notin ToSet(s) => IsInjective(Append(s, x))
  <1>1. /\ Append(s, x) \in Seq(S)
        /\ Len(Append(s, x)) = Len(s) + 1
        /\ \A i \in 1 .. Len(s) : Append(s, x)[i] = s[i]
        /\ Append(s, x)[Len(s) + 1] = x
    OBVIOUS
  <1>2. ToSet(Append(s, x)) = ToSet(s) \union {x}
    <2>1. ToSet(s) = {s[i] : i \in 1 .. Len(s)}
      BY DEF ToSet
    <2>2. ToSet(Append(s, x)) = {Append(s, x)[i] : i \in 1 .. Len(s) + 1}
      BY <1>1 DEF ToSet
    <2>3. \A y : y \in ToSet(Append(s, x)) => y \in ToSet(s) \union {x}
      BY <1>1, <2>1, <2>2
    <2>4. \A y : y \in ToSet(s) \union {x} => y \in ToSet(Append(s, x))
      BY <1>1, <2>1, <2>2
    <2> QED
      BY <2>3, <2>4
  <1>3. ASSUME IsInjective(s), x \notin ToSet(s) PROVE IsInjective(Append(s, x))
    <2>1. \A i \in 1 .. Len(s) : s[i] # x
      BY <1>3, ToSetMember
    <2> QED
      BY <1>1, <1>3, <2>1 DEF IsInjective
  <1> QED
    BY <1>1, <1>2, <1>3

LEMMA RemoveMembers ==
    ASSUME NEW S, NEW s \in Seq(S), NEW k \in 1 .. Len(s), IsInjective(s)
    PROVE  /\ RemoveAt(s, k) \in Seq(S)
           /\ ToSet(RemoveAt(s, k)) = ToSet(s) \ {s[k]}
           /\ IsInjective(RemoveAt(s, k))
  <1> DEFINE r == RemoveAt(s, k)
  <1>1. /\ r \in Seq(S) /\ Len(r) = Len(s) - 1
        /\ \A i \in 1 .. Len(s) - 1 : r[i] = IF i < k THEN s[i] ELSE s[i + 1]
    <2> DEFINE a == SubSeq(s, 1, k - 1)
               b == SubSeq(s, k + 1, Len(s))
    <2>1. a \in Seq(S) /\ Len(a) = k - 1 /\ \A i \in 1 .. k - 1 : a[i] = s[i]
      OBVIOUS
    <2>2. b \in Seq(S) /\ Len(b) = Len(s) - k /\ \A i \in 1 .. Len(s) - k : b[i] = s[k + i]
      OBVIOUS
    <2>3. /\ a \o b \in Seq(S) /\ Len(a \o b) = Len(a) + Len(b)
          /\ \A i \in 1 .. Len(a) + Len(b) :
                (a \o b)[i] = IF i <= Len(a) THEN a[i] ELSE b[i - Len(a)]
      BY <2>1, <2>2, ConcatProperties
    <2> HIDE DEF a, b
    <2>4. r = a \o b
      BY DEF RemoveAt, a, b
    <2> HIDE DEF r
    <2>5. \A i \in 1 .. Len(s) - 1 : (a \o b)[i] = IF i < k THEN s[i] ELSE s[i + 1]
      BY <2>1, <2>2, <2>3
    <2>6. Len(a \o b) = Len(s) - 1
      BY <2>1, <2>2, <2>3
    <2> QED
      BY <2>3, <2>4, <2>5, <2>6, Zenon
  <1>2. \A i, j \in 1 .. Len(s) : s[i] = s[j] => i = j
    BY DEF IsInjective
  <1>3. ASSUME NEW y PROVE y \in ToSet(r) <=> y \in ToSet(s) /\ y # s[k]
    <2>1. ASSUME y \in ToSet(r) PROVE y \in ToSet(s) /\ y # s[k]
      BY <1>1, <1>2, <2>1, ToSetMember
    <2>2. ASSUME y \in ToSet(s), y # s[k] PROVE y \in ToSet(r)
      <3>1. PICK i \in 1 .. Len(s) : s[i] = y /\ i # k
        BY <2>2, ToSetMember
      <3>2. CASE i < k
        BY <1>1, <3>1, <3>2, ToSetMember
      <3>3. CASE i > k
        <4>1. i - 1 \in 1 .. Len(s) - 1 /\ r[i - 1] = y
          BY <1>1, <3>1, <3>3
        <4> QED
          BY <1>1, <4>1, ToSetMember
      <3> QED
        BY <3>1, <3>2, <3>3
    <2> QED
      BY <2>1, <2>2
  <1>4. IsInjective(r)
    <2>1. ASSUME NEW i \in 1 .. Len(r), NEW j \in 1 .. Len(r), r[i] = r[j] PROVE i = j
      BY <1>1, <1>2, <2>1
    <2> QED
      BY <1>1, <2>1 DEF IsInjective
  <1> QED
    BY <1>1, <1>3, <1>4

\* A set of naturals that is not empty has a least element.
LEMMA LeastNatural ==
    ASSUME NEW T \in SUBSET Nat, T # {}
    PROVE  \E m \in T : \A n \in T : m <= n
  <1>1. PICK m \in T : \A n \in T : <<n, m>> \notin OpToRel(<, Nat)
    BY WFMin, NatLessThanWellFounded
  <1>2. \A n \in T : ~(n < m)
    BY <1>1 DEF OpToRel
  <1> QED
    BY <1>2

----------------------------------------------------------------------------
(* The peers                                                               *)

\* The peer at the other end, and that of a caller.
LEMMA PeerType ==
    /\ \A p \in Peers : Other(p) \in Peers /\ Other(p) # p /\ Other(Other(p)) = p
    /\ \A c \in Caller : c[1] \in Peers
    /\ \A p, q \in Peers : q # p => q = Other(p)
    /\ NoOne \notin Caller
  BY DEF Peers, Other, Caller, NoOne

----------------------------------------------------------------------------
(* The inductive invariant                                                 *)

\* The callers of a peer whose call has its id and is not over.
Underway(p) == {c \in Caller : c[1] = p /\ pc[c] \in {"send", "wait", "remove"}}

ShutInv == \A p \in Peers : shut[p] <=> host[p] \in {"join", "complete", "closed"}

\* One thread at most is between the load and the store of next_request_id, and what it loaded is
\* still there.
StoreInv ==
    \A c \in Caller : ~raced[c[1]] /\ pc[c] = "store" =>
        /\ call[c].id = next_request_id[c[1]]
        /\ \A d \in Caller : d[1] = c[1] /\ pc[d] = "store" => d = c

\* So no two calls have the same id, and none has an id that is still to be given.
IdInv ==
    \A p \in Peers : ~raced[p] =>
        \A c \in Underway(p) :
            /\ call[c].id < next_request_id[p]
            /\ \A d \in Underway(p) : call[d].id = call[c].id => d = c

\* Nor has a frame, and if it has that of a call under way it belongs to that call, even when
\* the call it was made for timed out long ago.
Belongs(f) ==
    ~raced[f.of[1][1]] =>
        /\ f.id < next_request_id[f.of[1][1]]
        /\ \A c \in Underway(f.of[1][1]) : call[c].id = f.id => f.of = <<c, call[c].n>>

\* A frame on its way to a peer is a request of the other or an answer for it.
Travels(q, f) ==
    /\ f.of[1] \in Caller
    /\ f.of[1][1] = IF f.kind = "request" THEN Other(q) ELSE q
    /\ Belongs(f)

ChanInv == \A q \in Peers : \A i \in 1 .. Len(chan[q]) : Travels(q, chan[q][i])

FrameInv ==
    \A q \in Peers : receiver[q] = "send" =>
        frame[q].kind = "answer" /\ Travels(Other(q), frame[q])

ListInv ==
    \A p \in Peers : ~raced[p] =>
        /\ IsInjective(pending_calls[p])
        /\ ToSet(pending_calls[p]) \subseteq Underway(p)
        /\ host[p] # "closed" => Underway(p) \subseteq ToSet(pending_calls[p])

OwnerInv == \A p \in Peers : pending_calls[p] \in Seq({c \in Caller : c[1] = p})

\* A call has an answer only after it was listed, and then its own.
AnswerInv ==
    \A c \in Caller : ~raced[c[1]] /\ call[c].ok =>
        c \in Underway(c[1]) /\ call[c].of = <<c, call[c].n>>

ToldInv ==
    \A c \in Caller : ~raced[c[1]] /\ host[c[1]] = "closed" /\ pc[c] = "wait" => call[c].completed

IInv ==
    /\ TypeOK /\ ShutInv /\ StoreInv /\ IdInv /\ ChanInv /\ FrameInv /\ ListInv
    /\ OwnerInv /\ AnswerInv /\ ToldInv

----------------------------------------------------------------------------
(* Types                                                                   *)

LEMMA FirstListedIsListed ==
    ASSUME TypeOK, NEW p \in Peers, NEW id, Listed(p, id) # {}
    PROVE  /\ FirstListed(p, id) \in 1 .. Len(pending_calls[p])
           /\ pending_calls[p][FirstListed(p, id)] \in Caller
           /\ call[pending_calls[p][FirstListed(p, id)]].id = id
  <1>1. pending_calls[p] \in Seq(Caller) /\ Len(pending_calls[p]) \in Nat
    BY DEF TypeOK
  <1>2. Listed(p, id) \in SUBSET Nat
    BY <1>1 DEF Listed
  <1>3. \E i \in Listed(p, id) : \A j \in Listed(p, id) : i <= j
    BY <1>2, LeastNatural
  <1>4. FirstListed(p, id) \in Listed(p, id)
    BY <1>3 DEF FirstListed
  <1> QED
    BY <1>1, <1>4 DEF Listed

\* The call of one thread.
LEMMA UpdateCall ==
    ASSUME TypeOK, NEW c \in Caller, NEW r \in PendingCall
    PROVE  /\ [call EXCEPT ![c] = r] \in [Caller -> PendingCall]
           /\ \A d \in Caller : [call EXCEPT ![c] = r][d] = IF d = c THEN r ELSE call[d]
  BY DEF TypeOK

LEMMA FramesType ==
    ASSUME TypeOK, NEW p \in Peers
    PROVE  /\ \A i \in 1 .. Len(chan[p]) : chan[p][i] \in Frame
           /\ Len(chan[p]) \in Nat
           /\ chan[p] # <<>> => /\ Head(chan[p]) \in Frame /\ Head(chan[p]) = chan[p][1]
                                /\ 1 \in 1 .. Len(chan[p])
                                /\ Tail(chan[p]) \in Seq(Frame)
                                /\ Len(Tail(chan[p])) = Len(chan[p]) - 1
                                /\ \A i \in 1 .. Len(Tail(chan[p])) : Tail(chan[p])[i] = chan[p][i + 1]
  <1>1. chan[p] \in Seq(Frame)
    BY DEF TypeOK
  <1> QED
    BY <1>1

LEMMA NothingType ==
    /\ NoFrame \in Frame /\ NoCall \in PendingCall
    /\ \A c \in Caller, n \in Nat : <<c, n>> \in CallOf
  BY DEF NoFrame, Frame, CallOf, NoOne, NoCall, PendingCall

LEMMA TypeInit == Init => TypeOK
  <1> SUFFICES ASSUME Init PROVE TypeOK
    OBVIOUS
  <1>1. frame \in [Peers -> Frame] /\ call \in [Caller -> PendingCall]
    BY NothingType DEF Init
  <1>2. chan \in [Peers -> Seq(Frame)] /\ \A p \in Peers : Len(chan[p]) <= Cap
    BY RpcPeerConstants DEF Init
  <1>3. next_request_id \in [Peers -> Nat \ {0}] /\ pending_calls \in [Peers -> Seq(Caller)]
    BY DEF Init
  <1> QED
    BY <1>1, <1>2, <1>3 DEF Init, TypeOK, PC, ReceiverPC, HostPC

\* A frame that is sent finds room.
LEMMA SendType ==
    ASSUME TypeOK, NEW p \in Peers, NEW f \in Frame, SendInto(p, f) \/ UNCHANGED chan
    PROVE  /\ chan' \in [Peers -> Seq(Frame)]
           /\ \A q \in Peers : Len(chan'[q]) <= Cap
           /\ \A q \in Peers : \A i \in 1 .. Len(chan'[q]) :
                  \/ i \in 1 .. Len(chan[q]) /\ chan'[q][i] = chan[q][i]
                  \/ q = Other(p) /\ chan'[q][i] = f
  <1> DEFINE o == Other(p)
  <1>1. o \in Peers /\ chan \in [Peers -> Seq(Frame)] /\ \A q \in Peers : Len(chan[q]) <= Cap
    BY PeerType DEF TypeOK
  <1>2. CASE UNCHANGED chan
    BY <1>1, <1>2
  <1>3. CASE Len(chan[o]) < Cap /\ chan' = [chan EXCEPT ![o] = Append(@, f)]
    <2>1. /\ Append(chan[o], f) \in Seq(Frame)
          /\ Len(Append(chan[o], f)) = Len(chan[o]) + 1
          /\ \A i \in 1 .. Len(chan[o]) : Append(chan[o], f)[i] = chan[o][i]
          /\ Append(chan[o], f)[Len(chan[o]) + 1] = f
      BY <1>1
    <2>2. \A q \in Peers : chan'[q] = IF q = o THEN Append(chan[o], f) ELSE chan[q]
      BY <1>1, <1>3
    <2>3. chan' \in [Peers -> Seq(Frame)]
      BY <1>1, <1>3, <2>1
    <2>4. \A q \in Peers : Len(chan'[q]) <= Cap
      BY <1>1, <1>3, <2>1, <2>2, RpcPeerConstants
    <2>5. ASSUME NEW q \in Peers, NEW i \in 1 .. Len(chan'[q])
          PROVE  \/ i \in 1 .. Len(chan[q]) /\ chan'[q][i] = chan[q][i]
                 \/ q = o /\ chan'[q][i] = f
      <3>1. CASE q # o
        BY <2>2, <3>1
      <3>2. CASE q = o
        <4>1. i \in 1 .. Len(chan[o]) \/ i = Len(chan[o]) + 1
          <5>1. chan[o] \in Seq(Frame)
            BY <1>1
          <5>2. Len(chan[o]) \in Nat
            BY <5>1
          <5>3. i \in 1 .. Len(chan[o]) + 1
            BY <1>1, <2>1, <2>2, <3>2
          <5> HIDE DEF o
          <5> QED
            BY <5>2, <5>3
        <4> QED
          BY <2>1, <2>2, <3>2, <4>1
      <3> QED
        BY <3>1, <3>2
    <2> QED
      BY <2>3, <2>4, <2>5
  <1> QED
    BY <1>2, <1>3 DEF SendInto

\* What a step does to the calls.
LEMMA CallType ==
    ASSUME TypeOK, NEW c \in Caller, Call(c)
    PROVE  /\ call' \in [Caller -> PendingCall]
           /\ call'[c] = [call[c] EXCEPT !.n = @ + 1, !.id = next_request_id[c[1]]]
           /\ \A d \in Caller : d # c => call'[d] = call[d]
  <1> DEFINE r == [call[c] EXCEPT !.n = @ + 1, !.id = next_request_id[c[1]]]
  <1>1. c[1] \in Peers
    BY PeerType
  <1>2. call[c] \in PendingCall /\ next_request_id[c[1]] \in Nat
    BY <1>1 DEF TypeOK
  <1>3. r \in PendingCall
    <2>1. call[c].n \in Nat
      BY <1>2 DEF PendingCall
    <2>2. call[c].n + 1 \in Nat
      BY <2>1
    <2> QED
      BY <1>2, <2>2 DEF PendingCall
  <1>4. call' = [call EXCEPT ![c] = r]
    BY <1>2 DEF Call, TypeOK, PendingCall
  <1> QED
    BY <1>3, <1>4, UpdateCall

LEMMA RemoveType ==
    ASSUME TypeOK, NEW c \in Caller, CallRemove(c)
    PROVE  /\ call' \in [Caller -> PendingCall]
           /\ call'[c] = [NoCall EXCEPT !.n = call[c].n]
           /\ \A d \in Caller : d # c => call'[d] = call[d]
           /\ pending_calls' \in [Peers -> Seq(Caller)]
  <1> DEFINE r == [NoCall EXCEPT !.n = call[c].n]
  <1>1. c[1] \in Peers /\ pending_calls[c[1]] \in Seq(Caller)
    BY PeerType DEF TypeOK
  <1>2. r \in PendingCall
    <2>1. call[c].n \in Nat
      BY DEF TypeOK, PendingCall
    <2> QED
      BY <2>1, NothingType DEF NoCall, PendingCall
  <1>3. call' = [call EXCEPT ![c] = r]
    BY DEF CallRemove
  <1>4. /\ call' \in [Caller -> PendingCall]
        /\ call'[c] = r
        /\ \A d \in Caller : d # c => call'[d] = call[d]
    BY <1>2, <1>3, UpdateCall
  <1>5. pending_calls' \in [Peers -> Seq(Caller)]
    <2> DEFINE k == FirstListed(c[1], call[c].id)
               rest == RemoveAt(pending_calls[c[1]], k)
    <2>1. CASE Listed(c[1], call[c].id) = {}
      BY <2>1 DEF CallRemove, TypeOK
    <2>2. CASE Listed(c[1], call[c].id) # {}
      <3>1. k \in 1 .. Len(pending_calls[c[1]])
        BY <1>1, <2>2, FirstListedIsListed
      <3>2. rest \in Seq(Caller)
        <4> DEFINE s == pending_calls[c[1]]
        <4>1. SubSeq(s, 1, k - 1) \in Seq(Caller) /\ SubSeq(s, k + 1, Len(s)) \in Seq(Caller)
          BY <1>1, <3>1
        <4> QED
          BY <4>1 DEF RemoveAt
      <3>3. pending_calls' = [pending_calls EXCEPT ![c[1]] = rest]
        BY <2>2 DEF CallRemove
      <3> QED
        BY <3>2, <3>3 DEF TypeOK
    <2> QED
      BY <2>1, <2>2
  <1> QED
    BY <1>4, <1>5

LEMMA CompleteType ==
    ASSUME TypeOK, NEW p \in Peers, Complete(p)
    PROVE  /\ call' \in [Caller -> PendingCall]
           /\ \/ call' = call
              \/ \E c \in Caller :
                    /\ c \in ToSet(pending_calls[p])
                    /\ call[c].id = Head(chan[p]).id
                    /\ call'[c] = [call[c] EXCEPT !.completed = TRUE, !.ok = TRUE,
                                                  !.of = Head(chan[p]).of]
                    /\ \A d \in Caller : d # c => call'[d] = call[d]
  <1> DEFINE f == Head(chan[p])
  <1>1. f \in Frame
    BY FramesType DEF Complete, Arrives
  <1>2. CASE Listed(p, f.id) = {}
    BY <1>2 DEF Complete, TypeOK
  <1>3. CASE Listed(p, f.id) # {}
    <2> DEFINE k == FirstListed(p, f.id)
               c == pending_calls[p][k]
               r == [call[c] EXCEPT !.completed = TRUE, !.ok = TRUE, !.of = f.of]
    <2>1. k \in 1 .. Len(pending_calls[p]) /\ c \in Caller /\ call[c].id = f.id
      BY <1>3, FirstListedIsListed
    <2>2. call[c] \in PendingCall
      BY <2>1 DEF TypeOK
    <2>3. r \in PendingCall
      BY <1>1, <2>2 DEF PendingCall, Frame
    <2>4. call' = Completed(c, f)
      BY <1>3 DEF Complete
    <2> HIDE DEF c, f
    <2>5. call' = [call EXCEPT ![c] = r]
      BY <2>1, <2>2, <2>4 DEF Completed, TypeOK, PendingCall
    <2>6. c \in ToSet(pending_calls[p])
      <3>1. pending_calls[p] \in Seq(Caller)
        BY DEF TypeOK
      <3> QED
        BY <2>1, <3>1 DEF ToSet, c
    <2>7. /\ call' \in [Caller -> PendingCall]
          /\ call'[c] = r
          /\ \A d \in Caller : d # c => call'[d] = call[d]
      BY <2>1, <2>3, <2>5, UpdateCall
    <2> QED
      BY <2>1, <2>6, <2>7 DEF f
  <1> QED
    BY <1>2, <1>3

LEMMA CompleteAllType ==
    ASSUME TypeOK, NEW p \in Peers, CompleteAll(p)
    PROVE  /\ call' \in [Caller -> PendingCall]
           /\ \A d \in Caller : call'[d].id = call[d].id /\ call'[d].n = call[d].n
           /\ \A d \in Caller : IF d \in ToSet(pending_calls[p])
                                THEN call'[d].completed = TRUE /\ call'[d].ok = FALSE
                                ELSE call'[d] = call[d]
  <1>1. ASSUME NEW d \in Caller
        PROVE  /\ call'[d] \in PendingCall
               /\ call'[d].id = call[d].id /\ call'[d].n = call[d].n
               /\ IF d \in ToSet(pending_calls[p])
                  THEN call'[d].completed = TRUE /\ call'[d].ok = FALSE
                  ELSE call'[d] = call[d]
    <2>1. call[d] \in PendingCall
      BY DEF TypeOK
    <2>2. call'[d] = IF d \in ToSet(pending_calls[p])
                     THEN [call[d] EXCEPT !.completed = TRUE, !.ok = FALSE] ELSE call[d]
      BY DEF CompleteAll
    <2> QED
      BY <2>1, <2>2 DEF PendingCall
  <1> QED
    BY <1>1 DEF CompleteAll

LEMMA TypeStep == TypeOK /\ [Next]_vars => TypeOK'
  <1> SUFFICES ASSUME TypeOK, [Next]_vars PROVE TypeOK'
    OBVIOUS
  <1> USE DEF connVars, callVars
  <1>1. ASSUME NEW c \in Caller, Call(c) PROVE TypeOK'
    <2>1. call' \in [Caller -> PendingCall]
      BY <1>1, CallType
    <2>2. raced' \in [Peers -> BOOLEAN]
      <3>1. (\E d \in Caller \ {c} : d[1] = c[1] /\ pc[d] = "store") \in BOOLEAN
        OBVIOUS
      <3>2. raced \in [Peers -> BOOLEAN]
        BY DEF TypeOK
      <3> QED
        BY <1>1, <3>1, <3>2 DEF Call
    <2>3. pc' \in [Caller -> PC]
      BY <1>1 DEF Call, At, TypeOK, PC
    <2> QED
      BY <1>1, <2>1, <2>2, <2>3 DEF Call, TypeOK
  <1>2. ASSUME NEW c \in Caller, ListCall(c) PROVE TypeOK'
    <2>1. c[1] \in Peers
      BY PeerType
    <2>2. pc' \in [Caller -> PC]
      BY <1>2 DEF ListCall, List, At, TypeOK, PC
    <2>3. pending_calls' \in [Peers -> Seq(Caller)]
      <3>1. pending_calls[c[1]] \in Seq(Caller)
        BY <2>1 DEF TypeOK
      <3>2. Append(pending_calls[c[1]], c) \in Seq(Caller)
        BY <3>1
      <3> QED
        BY <1>2, <3>2 DEF ListCall, List, TypeOK
    <2>4. next_request_id' \in [Peers -> Nat \ {0}]
      <3>1. call[c].id \in Nat
        BY DEF TypeOK, PendingCall
      <3>2. call[c].id + 1 \in Nat \ {0}
        BY <3>1
      <3> QED
        BY <1>2, <3>2 DEF ListCall, TypeOK
    <2> QED
      BY <1>2, <2>2, <2>3, <2>4 DEF ListCall, List, TypeOK
  <1>3. ASSUME NEW c \in Caller, CallSend(c) PROVE TypeOK'
    <2> DEFINE f == [kind |-> "request", id |-> call[c].id, of |-> <<c, call[c].n>>]
    <2>1. c[1] \in Peers
      BY PeerType
    <2>2. f \in Frame
      BY NothingType DEF TypeOK, PendingCall, Frame
    <2>3. SendInto(c[1], f) \/ UNCHANGED chan
      BY <1>3 DEF CallSend
    <2>4. chan' \in [Peers -> Seq(Frame)] /\ \A p \in Peers : Len(chan'[p]) <= Cap
      BY <2>1, <2>2, <2>3, SendType
    <2>5. pc' \in [Caller -> PC]
      BY <1>3 DEF CallSend, At, TypeOK, PC
    <2> QED
      BY <1>3, <2>4, <2>5 DEF CallSend, TypeOK
  <1>4. ASSUME NEW c \in Caller, CallWait(c) PROVE TypeOK'
    <2>1. pc' \in [Caller -> PC]
      BY <1>4 DEF CallWait, Answered, TimedOut, At, TypeOK, PC
    <2> QED
      BY <1>4, <2>1 DEF CallWait, TypeOK
  <1>5. ASSUME NEW c \in Caller, CallRemove(c) PROVE TypeOK'
    <2>1. pc' \in [Caller -> PC]
      BY <1>5 DEF CallRemove, At, TypeOK, PC
    <2> QED
      BY <1>5, <2>1, RemoveType DEF CallRemove, TypeOK
  <1>6. ASSUME NEW p \in Peers, ReceiverTop(p) \/ ReceiveEnd(p) PROVE TypeOK'
    <2>1. receiver' \in [Peers -> ReceiverPC] /\ running' \in [Peers -> BOOLEAN]
      BY <1>6 DEF ReceiverTop, ReceiveEnd, Ends, Goto, TypeOK, ReceiverPC
    <2> QED
      BY <1>6, <2>1 DEF ReceiverTop, ReceiveEnd, TypeOK
  <1>7. ASSUME NEW p \in Peers, Complete(p) \/ Serve(p) PROVE TypeOK'
    <2>1. Head(chan[p]) \in Frame /\ chan[p] # <<>> /\ chan' = [chan EXCEPT ![p] = Tail(@)]
      BY <1>7, FramesType DEF Complete, Serve, Arrives
    <2>2. chan' \in [Peers -> Seq(Frame)] /\ \A q \in Peers : Len(chan'[q]) <= Cap
      <3>1. Tail(chan[p]) \in Seq(Frame) /\ Len(Tail(chan[p])) <= Cap
        BY <2>1, FramesType, RpcPeerConstants DEF TypeOK
      <3> QED
        BY <2>1, <3>1 DEF TypeOK
    <2>3. call' \in [Caller -> PendingCall]
      BY <1>7, CompleteType DEF Serve, TypeOK
    <2>4. receiver' \in [Peers -> ReceiverPC]
      BY <1>7 DEF Complete, Serve, Goto, TypeOK, ReceiverPC
    <2>5. frame' \in [Peers -> Frame]
      <3>1. [Head(chan[p]) EXCEPT !.kind = "answer"] \in Frame
        BY <2>1 DEF Frame
      <3> QED
        BY <1>7, <3>1 DEF Complete, Serve, TypeOK
    <2> QED
      BY <1>7, <2>2, <2>3, <2>4, <2>5 DEF Complete, Serve, Arrives, TypeOK
  <1>8. ASSUME NEW p \in Peers, AnswerSend(p) PROVE TypeOK'
    <2>1. frame[p] \in Frame /\ (SendInto(p, frame[p]) \/ UNCHANGED chan)
      BY <1>8 DEF AnswerSend, TypeOK
    <2>2. chan' \in [Peers -> Seq(Frame)] /\ \A q \in Peers : Len(chan'[q]) <= Cap
      BY <2>1, SendType
    <2>3. receiver' \in [Peers -> ReceiverPC] /\ frame' \in [Peers -> Frame]
      BY <1>8, NothingType DEF AnswerSend, Goto, TypeOK, ReceiverPC
    <2> QED
      BY <1>8, <2>2, <2>3 DEF AnswerSend, TypeOK
  <1>9. ASSUME NEW p \in Peers, Close(p) \/ Join(p) PROVE TypeOK'
    BY <1>9 DEF Close, Join, HostAt, TypeOK, HostPC
  <1>10. ASSUME NEW p \in Peers, Shutdown(p) PROVE TypeOK'
    <2>1. chan' \in [Peers -> Seq(Frame)] /\ \A q \in Peers : Len(chan'[q]) <= Cap
      <3>1. <<>> \in Seq(Frame) /\ Len(<<>>) <= Cap
        BY RpcPeerConstants
      <3>2. CASE chan' = [chan EXCEPT ![p] = <<>>]
        BY <3>1, <3>2 DEF TypeOK
      <3>3. CASE chan' = [q \in Peers |-> <<>>]
        BY <3>1, <3>3
      <3> QED
        BY <1>10, <3>2, <3>3 DEF Shutdown
    <2> QED
      BY <1>10, <2>1 DEF Shutdown, HostAt, TypeOK, HostPC
  <1>11. ASSUME NEW p \in Peers, CompleteAll(p) PROVE TypeOK'
    <2>1. call' \in [Caller -> PendingCall]
      BY <1>11, CompleteAllType
    <2>2. pending_calls' \in [Peers -> Seq(Caller)]
      <3>1. <<>> \in Seq(Caller)
        OBVIOUS
      <3> QED
        BY <1>11, <3>1 DEF CompleteAll, TypeOK
    <2> QED
      BY <1>11, <2>1, <2>2 DEF CompleteAll, HostAt, TypeOK, HostPC
  <1>12. ASSUME UNCHANGED vars PROVE TypeOK'
    BY <1>12 DEF vars, TypeOK
  <1>13. Closers \subseteq Peers
    BY RpcPeerConstants DEF Peers
  <1> QED
    BY <1>1, <1>2, <1>3, <1>4, <1>5, <1>6, <1>7, <1>8, <1>9, <1>10, <1>11, <1>12, <1>13
       DEF Next, CallProceeds, ReceiverProceeds, CloseProceeds

----------------------------------------------------------------------------
(* What a step does to the ids of a peer without a race                    *)

LEMMA UnderwayStep ==
    ASSUME TypeOK, [Next]_vars, NEW p \in Peers, ~raced'[p]
    PROVE  /\ ~raced[p]
           /\ \A c \in Underway(p)' :
                \/ c \in Underway(p) /\ call'[c].id = call[c].id /\ call'[c].n = call[c].n
                \/ c[1] = p /\ ListCall(c)
  <1> DEFINE Goal ==
        /\ ~raced[p]
        /\ \A c \in Underway(p)' :
             \/ c \in Underway(p) /\ call'[c].id = call[c].id /\ call'[c].n = call[c].n
             \/ c[1] = p /\ ListCall(c)
  <1> USE DEF connVars, callVars
  <1>1. ASSUME NEW c \in Caller, Call(c) PROVE Goal
    <2>1. ~raced[p]
      BY <1>1, PeerType DEF Call, TypeOK
    <2>2. \A d \in Caller : d # c => pc'[d] = pc[d] /\ call'[d] = call[d]
      BY <1>1, CallType DEF Call, At, TypeOK
    <2>3. pc'[c] = "store"
      BY <1>1 DEF Call, At, TypeOK
    <2> QED
      BY <2>1, <2>2, <2>3 DEF Underway
  <1>2. ASSUME NEW c \in Caller, ListCall(c) PROVE Goal
    <2>1. call' = call /\ raced' = raced /\ \A d \in Caller : d # c => pc'[d] = pc[d]
      BY <1>2 DEF ListCall, List, At, TypeOK
    <2> QED
      BY <1>2, <2>1 DEF Underway
  <1>3. ASSUME NEW c \in Caller, CallSend(c) \/ CallWait(c) PROVE Goal
    <2>1. call' = call /\ raced' = raced /\ pc[c] \in {"send", "wait"}
          /\ \A d \in Caller : d # c => pc'[d] = pc[d]
      BY <1>3 DEF CallSend, CallWait, Answered, TimedOut, At, TypeOK
    <2> QED
      BY <2>1 DEF Underway
  <1>4. ASSUME NEW c \in Caller, CallRemove(c) PROVE Goal
    <2>1. raced' = raced /\ pc'[c] = "idle"
          /\ \A d \in Caller : d # c => pc'[d] = pc[d] /\ call'[d] = call[d]
      BY <1>4, RemoveType DEF CallRemove, At, TypeOK
    <2> QED
      BY <2>1 DEF Underway
  <1>5. ASSUME NEW q \in Peers, ReceiverTop(q) \/ ReceiveEnd(q) \/ Serve(q) \/ AnswerSend(q)
                                \/ Close(q) \/ Shutdown(q) \/ Join(q)
        PROVE  Goal
    BY <1>5 DEF Underway, ReceiverTop, ReceiveEnd, Serve, Arrives, AnswerSend, Close, Shutdown, Join
  <1>6. ASSUME NEW q \in Peers, Complete(q) PROVE Goal
    <2>1. raced' = raced /\ pc' = pc
      BY <1>6 DEF Complete, Arrives
    <2>2. \A d \in Caller : call'[d].id = call[d].id /\ call'[d].n = call[d].n
      <3>1. CASE call' = call
        BY <3>1
      <3>2. CASE call' # call
        <4>1. PICK c \in Caller :
                /\ call'[c] = [call[c] EXCEPT !.completed = TRUE, !.ok = TRUE,
                                              !.of = Head(chan[q]).of]
                /\ \A d \in Caller : d # c => call'[d] = call[d]
          BY <1>6, <3>2, CompleteType
        <4>2. call[c] \in PendingCall
          BY DEF TypeOK
        <4> QED
          BY <4>1, <4>2 DEF PendingCall
      <3> QED
        BY <3>1, <3>2
    <2> QED
      BY <2>1, <2>2 DEF Underway
  <1>7. ASSUME NEW q \in Peers, CompleteAll(q) PROVE Goal
    <2>1. raced' = raced /\ pc' = pc
      BY <1>7 DEF CompleteAll
    <2> QED
      BY <1>7, <2>1, CompleteAllType DEF Underway
  <1>8. ASSUME UNCHANGED vars PROVE Goal
    BY <1>8 DEF Underway, vars
  <1>9. Closers \subseteq Peers
    BY RpcPeerConstants DEF Peers
  <1> QED
    BY <1>1, <1>2, <1>3, <1>4, <1>5, <1>6, <1>7, <1>8, <1>9
       DEF Next, CallProceeds, ReceiverProceeds, CloseProceeds

\* The counter moves on with a call that is listed, by one, and then that call had its old value.
LEMMA CounterStep ==
    ASSUME TypeOK, StoreInv, [Next]_vars, NEW p \in Peers, ~raced'[p]
    PROVE  /\ next_request_id[p] <= next_request_id'[p]
           /\ \A c \in Caller : c[1] = p /\ ListCall(c) =>
                /\ pc[c] = "store"
                /\ call'[c] = call[c]
                /\ call[c].id = next_request_id[p]
                /\ next_request_id'[p] = next_request_id[p] + 1
  <1>1. ~raced[p] /\ next_request_id[p] \in Nat
    BY UnderwayStep DEF TypeOK
  <1>2. ASSUME NEW c \in Caller, ListCall(c), c[1] = p
        PROVE  /\ pc[c] = "store"
               /\ call'[c] = call[c]
               /\ call[c].id = next_request_id[p]
               /\ next_request_id'[p] = next_request_id[p] + 1
    BY <1>1, <1>2 DEF ListCall, List, At, StoreInv, TypeOK
  <1>3. ASSUME NEW c \in Caller, ListCall(c), c[1] # p
        PROVE  next_request_id'[p] = next_request_id[p]
    BY <1>3, PeerType DEF ListCall, TypeOK
  <1>4. CASE next_request_id' = next_request_id
    BY <1>1, <1>2, <1>4
  <1>5. CASE \E c \in Caller : ListCall(c)
    BY <1>1, <1>2, <1>3, <1>5
  <1>6. next_request_id' = next_request_id \/ \E c \in Caller : ListCall(c)
    BY DEF Next, CallProceeds, ReceiverProceeds, CloseProceeds, connVars, callVars, vars,
           Call, CallSend, CallWait, CallRemove, ReceiverTop, ReceiveEnd, Complete, Serve, Arrives,
           AnswerSend, Close, Shutdown, Join, CompleteAll
  <1> QED
    BY <1>2, <1>4, <1>5, <1>6

\* Whatever happens a frame goes on belonging to its call.
LEMMA BelongsStep ==
    ASSUME TypeOK, StoreInv, IdInv, [Next]_vars,
           NEW f \in Frame, f.of[1] \in Caller, Belongs(f)
    PROVE  Belongs(f)'
  <1> DEFINE p == f.of[1][1]
  <1> SUFFICES ASSUME ~raced'[p]
               PROVE  /\ f.id < next_request_id'[p]
                      /\ \A c \in Underway(p)' : call'[c].id = f.id => f.of = <<c, call'[c].n>>
    BY DEF Belongs
  <1>1. p \in Peers
    BY PeerType
  <1>2. f.id \in Nat /\ next_request_id[p] \in Nat /\ next_request_id'[p] \in Nat
    BY <1>1, TypeStep DEF Frame, TypeOK
  <1>3. ~raced[p]
    BY <1>1, UnderwayStep
  <1>4. f.id < next_request_id[p]
    BY <1>3 DEF Belongs
  <1>5. f.id < next_request_id'[p]
    BY <1>1, <1>2, <1>4, CounterStep
  <1>6. ASSUME NEW c \in Underway(p)', call'[c].id = f.id
        PROVE  f.of = <<c, call'[c].n>>
    <2>1. CASE c \in Underway(p) /\ call'[c].id = call[c].id /\ call'[c].n = call[c].n
      BY <1>3, <1>6, <2>1 DEF Belongs
    <2>2. CASE c[1] = p /\ ListCall(c)
      <3>1. c \in Caller
        BY DEF Underway
      <3> QED
        BY <1>1, <1>2, <1>4, <1>6, <2>2, <3>1, CounterStep
    <2> QED
      BY <1>1, <2>1, <2>2, UnderwayStep
  <1> QED
    BY <1>5, <1>6

LEMMA IdStep == TypeOK /\ StoreInv /\ IdInv /\ [Next]_vars => IdInv'
  <1> SUFFICES ASSUME TypeOK, StoreInv, IdInv, [Next]_vars, NEW p \in Peers, ~raced'[p],
                      NEW c \in Underway(p)'
               PROVE  /\ call'[c].id < next_request_id'[p]
                      /\ \A d \in Underway(p)' : call'[d].id = call'[c].id => d = c
    BY DEF IdInv
  <1>1. ~raced[p] /\ next_request_id[p] \in Nat /\ next_request_id'[p] \in Nat
    BY UnderwayStep, TypeStep DEF TypeOK
  <1>2. ASSUME NEW d \in Underway(p)'
        PROVE  /\ d \in Caller /\ call[d].id \in Nat
               /\ \/ d \in Underway(p) /\ call'[d].id = call[d].id /\ call[d].id < next_request_id[p]
                  \/ /\ pc[d] = "store" /\ d[1] = p /\ call'[d].id = next_request_id[p]
                     /\ next_request_id'[p] = next_request_id[p] + 1
    <2>1. d \in Caller /\ call[d].id \in Nat
      BY DEF Underway, TypeOK, PendingCall
    <2>2. CASE d \in Underway(p) /\ call'[d].id = call[d].id
      BY <1>1, <2>1, <2>2 DEF IdInv
    <2>3. CASE d[1] = p /\ ListCall(d)
      BY <2>1, <2>3, CounterStep
    <2> QED
      BY <2>1, <2>2, <2>3, UnderwayStep
  <1>3. call'[c].id < next_request_id'[p]
    BY <1>1, <1>2, CounterStep
  <1>4. ASSUME NEW d \in Underway(p)', call'[d].id = call'[c].id PROVE d = c
    <2>1. CASE c \in Underway(p) /\ d \in Underway(p)
      BY <1>1, <1>2, <1>4, <2>1 DEF IdInv, Underway
    <2>2. CASE pc[c] = "store" /\ pc[d] = "store"
      BY <1>1, <1>2, <2>2 DEF StoreInv, Underway
    <2> QED
      BY <1>1, <1>2, <1>4, <2>1, <2>2
  <1> QED
    BY <1>3, <1>4

----------------------------------------------------------------------------
(* The parts of the invariant, step by step                                *)

LEMMA ShutStep == TypeOK /\ ShutInv /\ [Next]_vars => ShutInv'
  <1> SUFFICES ASSUME TypeOK, ShutInv, [Next]_vars PROVE ShutInv'
    OBVIOUS
  <1>1. CASE \E p \in Peers : Close(p) \/ Shutdown(p) \/ Join(p) \/ CompleteAll(p)
    BY <1>1 DEF ShutInv, TypeOK, HostPC, Close, Shutdown, Join, CompleteAll, HostAt, connVars
  <1>2. CASE UNCHANGED <<shut, host>>
    BY <1>2 DEF ShutInv
  <1>3. Closers \subseteq Peers
    BY RpcPeerConstants DEF Peers
  <1> QED
    BY <1>1, <1>2, <1>3
       DEF Next, CallProceeds, ReceiverProceeds, CloseProceeds, connVars, callVars, vars,
           Call, ListCall, List, CallSend, CallWait, CallRemove, ReceiverTop, ReceiveEnd, Complete,
           Serve, Arrives, AnswerSend

LEMMA StoreStep == TypeOK /\ StoreInv /\ [Next]_vars => StoreInv'
  <1> SUFFICES ASSUME TypeOK, StoreInv, [Next]_vars,
                      NEW c \in Caller, ~raced'[c[1]], pc'[c] = "store"
               PROVE  /\ call'[c].id = next_request_id'[c[1]]
                      /\ \A d \in Caller : d[1] = c[1] /\ pc'[d] = "store" => d = c
    BY DEF StoreInv
  <1> DEFINE p == c[1]
             Goal == /\ call'[c].id = next_request_id'[p]
                     /\ \A d \in Caller : d[1] = p /\ pc'[d] = "store" => d = c
  <1> USE DEF connVars, callVars
  <1>1. p \in Peers /\ ~raced[p]
    BY PeerType, UnderwayStep
  <1>2. ASSUME NEW e \in Caller, Call(e) PROVE Goal
    <2>1. \A d \in Caller : d # e => pc'[d] = pc[d] /\ call'[d] = call[d]
      BY <1>2, CallType DEF Call, At, TypeOK
    <2>2. next_request_id' = next_request_id
      BY <1>2 DEF Call
    <2>3. CASE e = c
      <3>1. call'[c].id = next_request_id[p]
        <4>1. call[c] \in PendingCall
          BY DEF TypeOK
        <4> QED
          BY <1>2, <2>3, <4>1, CallType DEF PendingCall
      <3>2. \A d \in Caller \ {c} : d[1] = p => pc[d] # "store"
        BY <1>1, <1>2, <2>3 DEF Call, TypeOK
      <3> QED
        BY <2>1, <2>2, <2>3, <3>1, <3>2
    <2>4. CASE e # c /\ e[1] = p
      \* Then two threads are between the load and the store.
      <3>1. pc[c] = "store" /\ c # e
        BY <2>1, <2>4
      <3>2. raced'[p]
        BY <1>1, <1>2, <2>4, <3>1 DEF Call, TypeOK
      <3> QED
        BY <3>2
    <2>5. CASE e[1] # p
      BY <1>1, <2>1, <2>2, <2>5 DEF StoreInv
    <2> QED
      BY <2>3, <2>4, <2>5
  <1>3. ASSUME NEW e \in Caller, ListCall(e) PROVE Goal
    <2>1. pc[e] = "store" /\ pc'[e] = "send" /\ call' = call
          /\ \A d \in Caller : d # e => pc'[d] = pc[d]
      BY <1>3 DEF ListCall, List, At, TypeOK
    <2>2. c # e /\ pc[c] = "store"
      BY <2>1
    <2>3. e[1] # p
      BY <1>1, <2>1, <2>2 DEF StoreInv
    <2>4. next_request_id'[p] = next_request_id[p]
      BY <1>1, <1>3, <2>3, PeerType DEF ListCall, TypeOK
    <2> QED
      BY <1>1, <2>1, <2>2, <2>3, <2>4 DEF StoreInv
  <1>4. ASSUME NEW e \in Caller, CallSend(e) \/ CallWait(e) \/ CallRemove(e) PROVE Goal
    <2>1. /\ pc'[e] # "store" /\ next_request_id' = next_request_id
          /\ \A d \in Caller : d # e => pc'[d] = pc[d]
      BY <1>4 DEF CallSend, CallWait, Answered, TimedOut, CallRemove, At, TypeOK
    <2>2. \A d \in Caller : d # e => call'[d] = call[d]
      BY <1>4, RemoveType DEF CallSend, CallWait
    <2> QED
      BY <1>1, <2>1, <2>2 DEF StoreInv
  <1>5. CASE /\ UNCHANGED <<pc, next_request_id>>
             /\ \A d \in Caller : call'[d].id = call[d].id
    BY <1>1, <1>5 DEF StoreInv
  <1>6. ASSUME NEW q \in Peers, Complete(q) PROVE Goal
    <2>1. CASE call' = call
      BY <1>5, <1>6, <2>1 DEF Complete, Arrives
    <2>2. CASE call' # call
      <3>1. PICK e \in Caller :
              /\ call'[e] = [call[e] EXCEPT !.completed = TRUE, !.ok = TRUE,
                                            !.of = Head(chan[q]).of]
              /\ \A d \in Caller : d # e => call'[d] = call[d]
        BY <1>6, <2>2, CompleteType
      <3>2. call'[e].id = call[e].id
        BY <3>1 DEF TypeOK, PendingCall
      <3> QED
        BY <1>5, <1>6, <3>1, <3>2 DEF Complete, Arrives
    <2> QED
      BY <2>1, <2>2
  <1>7. ASSUME NEW q \in Peers, CompleteAll(q) PROVE Goal
    <2>1. \A d \in Caller : call'[d].id = call[d].id
      BY <1>7, CompleteAllType
    <2> QED
      BY <1>5, <1>7, <2>1 DEF CompleteAll
  <1>8. CASE UNCHANGED <<pc, next_request_id, call>>
    BY <1>5, <1>8
  <1>9. Closers \subseteq Peers
    BY RpcPeerConstants DEF Peers
  <1> QED
    BY <1>2, <1>3, <1>4, <1>6, <1>7, <1>8, <1>9
       DEF Next, CallProceeds, ReceiverProceeds, CloseProceeds, vars, ReceiverTop, ReceiveEnd, Serve,
           Arrives, AnswerSend, Close, Shutdown, Join

\* Travels looks at the frame and at what Belongs looks at.
LEMMA TravelsStep ==
    ASSUME TypeOK, StoreInv, IdInv, [Next]_vars, NEW q \in Peers, NEW f \in Frame, Travels(q, f)
    PROVE  Travels(q, f)'
  BY BelongsStep DEF Travels

\* The frame of a call about to be sent, and that of an answer.
LEMMA RequestTravels ==
    ASSUME TypeOK, IdInv, NEW c \in Caller, pc[c] = "send"
    PROVE  Travels(Other(c[1]), [kind |-> "request", id |-> call[c].id, of |-> <<c, call[c].n>>])
  <1> DEFINE f == [kind |-> "request", id |-> call[c].id, of |-> <<c, call[c].n>>]
  <1>1. c[1] \in Peers /\ Other(Other(c[1])) = c[1]
    BY PeerType
  <1>2. c \in Underway(c[1])
    BY DEF Underway
  <1>3. Belongs(f)
    BY <1>1, <1>2 DEF Belongs, IdInv
  <1> QED
    BY <1>1, <1>3 DEF Travels

LEMMA AnswerTravels ==
    ASSUME NEW p \in Peers, NEW f \in Frame, Travels(p, f), f.kind = "request"
    PROVE  Travels(Other(p), [f EXCEPT !.kind = "answer"])
  <1> DEFINE a == [f EXCEPT !.kind = "answer"]
  <1>1. a.kind = "answer" /\ a.id = f.id /\ a.of = f.of
    BY DEF Frame
  <1>2. Belongs(a)
    BY <1>1 DEF Travels, Belongs
  <1> QED
    BY <1>1, <1>2 DEF Travels

LEMMA ChanStep ==
    ASSUME TypeOK, StoreInv, IdInv, ChanInv, FrameInv, [Next]_vars
    PROVE  ChanInv'
  <1> SUFFICES ASSUME NEW q \in Peers, NEW i \in 1 .. Len(chan'[q])
               PROVE  Travels(q, chan[q][i])'
    BY DEF ChanInv
  <1> DEFINE Goal == \E g \in Frame : g = chan'[q][i] /\ Travels(q, g)'
  <1> USE DEF connVars, callVars
  \* A frame that was on its way.
  <1>1. ASSUME NEW j \in 1 .. Len(chan[q]), chan'[q][i] = chan[q][j] PROVE Goal
    <2>1. PICK g \in Frame : g = chan[q][j]
      BY FramesType
    <2>2. Travels(q, g)
      BY <2>1 DEF ChanInv
    <2>3. Travels(q, g)'
      BY <2>2, TravelsStep
    <2> QED
      BY <1>1, <2>1, <2>3
  \* A frame that is sent.
  <1>2. ASSUME NEW p \in Peers, NEW g \in Frame, Travels(Other(p), g),
               SendInto(p, g) \/ UNCHANGED chan
        PROVE  Goal
    <2>1. \/ i \in 1 .. Len(chan[q]) /\ chan'[q][i] = chan[q][i]
          \/ q = Other(p) /\ chan'[q][i] = g
      BY <1>2, SendType
    <2>2. CASE i \in 1 .. Len(chan[q]) /\ chan'[q][i] = chan[q][i]
      BY <1>1, <2>2
    <2>3. CASE q = Other(p) /\ chan'[q][i] = g
      <3>1. Travels(q, g)'
        BY <1>2, <2>3, TravelsStep
      <3> QED
        BY <2>3, <3>1
    <2> QED
      BY <2>1, <2>2, <2>3
  <1>3. ASSUME NEW c \in Caller, CallSend(c) PROVE Goal
    <2>1. PICK g \in Frame : g = [kind |-> "request", id |-> call[c].id, of |-> <<c, call[c].n>>]
      BY NothingType DEF TypeOK, PendingCall, Frame
    <2>2. pc[c] = "send" /\ c[1] \in Peers
      BY <1>3, PeerType DEF CallSend, At
    <2>3. Travels(Other(c[1]), g)
      BY <2>1, <2>2, RequestTravels
    <2>4. SendInto(c[1], g) \/ UNCHANGED chan
      BY <1>3, <2>1 DEF CallSend
    <2> QED
      BY <1>2, <2>2, <2>3, <2>4
  <1>4. ASSUME NEW p \in Peers, AnswerSend(p) PROVE Goal
    <2>1. PICK g \in Frame : g = frame[p]
      BY DEF TypeOK
    <2>2. Travels(Other(p), g)
      BY <1>4, <2>1 DEF AnswerSend, Goto, FrameInv
    <2>3. SendInto(p, g) \/ UNCHANGED chan
      BY <1>4, <2>1 DEF AnswerSend
    <2> QED
      BY <1>2, <2>2, <2>3
  <1>5. ASSUME NEW p \in Peers, Complete(p) \/ Serve(p) PROVE Goal
    <2>1. chan[p] # <<>> /\ chan' = [chan EXCEPT ![p] = Tail(@)]
      BY <1>5 DEF Complete, Serve, Arrives
    <2>2. CASE q = p
      <3>1. chan'[q] = Tail(chan[p])
        BY <2>1, <2>2 DEF TypeOK
      <3>2. /\ Len(Tail(chan[p])) = Len(chan[p]) - 1 /\ Len(chan[p]) \in Nat
            /\ \A j \in 1 .. Len(Tail(chan[p])) : Tail(chan[p])[j] = chan[p][j + 1]
        BY <2>1, FramesType
      <3>3. i \in 1 .. Len(Tail(chan[p]))
        BY <3>1
      <3>4. i + 1 \in 1 .. Len(chan[p])
        BY <3>2, <3>3
      <3> QED
        BY <1>1, <2>2, <3>1, <3>2, <3>3, <3>4
    <2>3. CASE q # p
      <3>1. chan'[q] = chan[q]
        BY <2>1, <2>3 DEF TypeOK
      <3> QED
        BY <1>1, <3>1
    <2> QED
      BY <2>2, <2>3
  <1>6. ASSUME NEW p \in Peers, Shutdown(p) PROVE Goal
    <2>1. chan'[q] = chan[q] \/ chan'[q] = <<>>
      BY <1>6 DEF Shutdown, TypeOK
    <2>2. Len(<<>>) = 0
      OBVIOUS
    <2>3. chan'[q] = chan[q]
      BY <2>1, <2>2
    <2> QED
      BY <1>1, <2>3
  <1>7. CASE UNCHANGED chan
    BY <1>1, <1>7
  <1>8. Closers \subseteq Peers
    BY RpcPeerConstants DEF Peers
  <1>9. Goal => Travels(q, chan[q][i])'
    BY DEF Travels, Belongs
  <1> QED
    BY <1>9, <1>3, <1>4, <1>5, <1>6, <1>7, <1>8
       DEF Next, CallProceeds, ReceiverProceeds, CloseProceeds, vars, Call, ListCall, List, CallWait,
           CallRemove, ReceiverTop, ReceiveEnd, Close, Join, CompleteAll

LEMMA FrameStep ==
    ASSUME TypeOK, StoreInv, IdInv, ChanInv, FrameInv, [Next]_vars
    PROVE  FrameInv'
  <1> SUFFICES ASSUME NEW q \in Peers, receiver'[q] = "send"
               PROVE  \E g \in Frame : /\ g = frame'[q] /\ g.kind = "answer"
                                       /\ Travels(Other(q), g)'
    BY DEF FrameInv, Travels, Belongs
  <1> DEFINE Goal == \E g \in Frame : g = frame'[q] /\ g.kind = "answer" /\ Travels(Other(q), g)'
  <1> USE DEF connVars, callVars
  <1>1. Other(q) \in Peers
    BY PeerType
  <1>2. CASE receiver'[q] = receiver[q] /\ frame'[q] = frame[q]
    <2>1. PICK g \in Frame : g = frame[q]
      BY DEF TypeOK
    <2>2. g.kind = "answer" /\ Travels(Other(q), g)
      BY <1>2, <2>1 DEF FrameInv
    <2>3. Travels(Other(q), g)'
      BY <1>1, <2>2, TravelsStep
    <2> QED
      BY <1>2, <2>1, <2>2, <2>3
  <1>3. ASSUME NEW p \in Peers, Serve(p) PROVE Goal
    <2>1. CASE q # p
      BY <1>2, <1>3, <2>1 DEF Serve, Goto, TypeOK
    <2>2. CASE q = p
      <3>1. PICK f \in Frame : /\ f = Head(chan[q]) /\ f = chan[q][1] /\ 1 \in 1 .. Len(chan[q])
                               /\ f.kind = "request"
        BY <1>3, <2>2, FramesType DEF Serve, Arrives
      <3>2. Travels(q, f)
        BY <3>1 DEF ChanInv
      <3>3. PICK g \in Frame : g = [f EXCEPT !.kind = "answer"]
        BY DEF Frame
      <3>4. Travels(Other(q), g)
        BY <3>1, <3>2, <3>3, AnswerTravels
      <3>5. Travels(Other(q), g)'
        BY <1>1, <3>4, TravelsStep
      <3>6. g.kind = "answer"
        BY <3>3 DEF Frame
      <3>7. frame'[q] = g
        BY <1>3, <2>2, <3>1, <3>3 DEF Serve, TypeOK
      <3> QED
        BY <3>5, <3>6, <3>7
    <2> QED
      BY <2>1, <2>2
  <1>4. ASSUME NEW p \in Peers, ReceiverTop(p) \/ ReceiveEnd(p) \/ Complete(p) \/ AnswerSend(p)
        PROVE  Goal
    <2>1. receiver'[p] # "send"
      BY <1>4 DEF ReceiverTop, ReceiveEnd, Ends, Complete, AnswerSend, Goto, TypeOK
    <2>2. q # p
      BY <2>1
    <2>3. receiver'[q] = receiver[q] /\ frame'[q] = frame[q]
      BY <1>4, <2>2 DEF ReceiverTop, ReceiveEnd, Ends, Complete, AnswerSend, Goto, TypeOK
    <2> QED
      BY <1>2, <2>3
  <1>5. CASE UNCHANGED <<receiver, frame>>
    BY <1>2, <1>5
  <1>6. Closers \subseteq Peers
    BY RpcPeerConstants DEF Peers
  <1> QED
    BY <1>3, <1>4, <1>5, <1>6
       DEF Next, CallProceeds, ReceiverProceeds, CloseProceeds, vars, Call, ListCall, List, CallSend,
           CallWait, CallRemove, Close, Shutdown, Join, CompleteAll

LEMMA OwnerStep ==
    ASSUME TypeOK, OwnerInv, [Next]_vars
    PROVE  OwnerInv'
  <1> DEFINE Own(p) == {c \in Caller : c[1] = p}
  <1> SUFFICES ASSUME NEW p \in Peers PROVE pending_calls'[p] \in Seq(Own(p))
    BY DEF OwnerInv
  <1> USE DEF connVars, callVars
  <1>1. pending_calls[p] \in Seq(Own(p)) /\ pending_calls \in [Peers -> Seq(Caller)]
    BY DEF OwnerInv, TypeOK
  <1>2. ASSUME NEW c \in Caller, ListCall(c) PROVE pending_calls'[p] \in Seq(Own(p))
    <2>1. CASE c[1] = p
      <3>1. c \in Own(p)
        BY <2>1
      <3>2. pending_calls'[p] = Append(pending_calls[p], c)
        BY <1>1, <1>2, <2>1 DEF ListCall, List
      <3> HIDE DEF Own
      <3> QED
        BY <1>1, <3>1, <3>2
    <2>2. CASE c[1] # p
      BY <1>1, <1>2, <2>2 DEF ListCall, List
    <2> QED
      BY <2>1, <2>2
  <1>3. ASSUME NEW c \in Caller, CallRemove(c) PROVE pending_calls'[p] \in Seq(Own(p))
    <2> DEFINE s == pending_calls[p]
               k == FirstListed(p, call[c].id)
    <2>1. CASE c[1] = p /\ Listed(p, call[c].id) # {}
      <3>1. k \in 1 .. Len(s)
        BY <2>1, FirstListedIsListed
      <3>2. pending_calls'[p] = RemoveAt(s, k)
        BY <1>1, <1>3, <2>1 DEF CallRemove
      <3> HIDE DEF Own, k
      <3>3. SubSeq(s, 1, k - 1) \in Seq(Own(p)) /\ SubSeq(s, k + 1, Len(s)) \in Seq(Own(p))
        BY <1>1, <3>1
      <3> QED
        BY <3>2, <3>3 DEF RemoveAt
    <2>2. CASE c[1] # p \/ Listed(p, call[c].id) = {}
      BY <1>1, <1>3, <2>2 DEF CallRemove
    <2> QED
      BY <2>1, <2>2
  <1>4. ASSUME NEW q \in Peers, CompleteAll(q) PROVE pending_calls'[p] \in Seq(Own(p))
    <2>1. pending_calls'[p] = pending_calls[p] \/ pending_calls'[p] = <<>>
      BY <1>1, <1>4 DEF CompleteAll
    <2> HIDE DEF Own
    <2>2. <<>> \in Seq(Own(p))
      OBVIOUS
    <2> QED
      BY <1>1, <2>1, <2>2
  <1>5. CASE UNCHANGED pending_calls
    BY <1>1, <1>5
  <1>6. Closers \subseteq Peers
    BY RpcPeerConstants DEF Peers
  <1> QED
    BY <1>2, <1>3, <1>4, <1>5, <1>6
       DEF Next, CallProceeds, ReceiverProceeds, CloseProceeds, vars, Call, CallSend, CallWait,
           ReceiverTop, ReceiveEnd, Complete, Serve, Arrives, AnswerSend, Close, Shutdown, Join

\* Who is under way after a step by a caller.
LEMMA UnderwayMoves ==
    ASSUME TypeOK, NEW c \in Caller, NEW p \in Peers
    PROVE  /\ Call(c) => Underway(p)' = Underway(p)
           /\ ListCall(c) => /\ c \notin Underway(p)
                             /\ Underway(p)' = Underway(p) \union (IF c[1] = p THEN {c} ELSE {})
           /\ CallSend(c) \/ CallWait(c) => Underway(p)' = Underway(p)
           /\ CallRemove(c) => Underway(p)' = Underway(p) \ {c}
  <1>1. ASSUME Call(c) PROVE Underway(p)' = Underway(p)
    <2>1. pc[c] = "idle" /\ pc'[c] = "store" /\ \A d \in Caller : d # c => pc'[d] = pc[d]
      BY <1>1 DEF Call, At, TypeOK
    <2> QED
      BY <2>1 DEF Underway
  <1>2. ASSUME ListCall(c)
        PROVE  /\ c \notin Underway(p)
               /\ Underway(p)' = Underway(p) \union (IF c[1] = p THEN {c} ELSE {})
    <2>1. pc[c] = "store" /\ pc'[c] = "send" /\ \A d \in Caller : d # c => pc'[d] = pc[d]
      BY <1>2 DEF ListCall, List, At, TypeOK
    <2> QED
      BY <2>1 DEF Underway
  <1>3. ASSUME CallSend(c) \/ CallWait(c) PROVE Underway(p)' = Underway(p)
    <2>1. /\ pc[c] \in {"send", "wait"} /\ pc'[c] \in {"wait", "remove"}
          /\ \A d \in Caller : d # c => pc'[d] = pc[d]
      BY <1>3 DEF CallSend, CallWait, Answered, TimedOut, At, TypeOK
    <2> QED
      BY <2>1 DEF Underway
  <1>4. ASSUME CallRemove(c) PROVE Underway(p)' = Underway(p) \ {c}
    <2>1. pc'[c] = "idle" /\ \A d \in Caller : d # c => pc'[d] = pc[d]
      BY <1>4 DEF CallRemove, At, TypeOK
    <2> QED
      BY <2>1 DEF Underway
  <1> QED
    BY <1>1, <1>2, <1>3, <1>4

LEMMA ListStep ==
    ASSUME TypeOK, IdInv, ListInv, [Next]_vars
    PROVE  ListInv'
  <1> SUFFICES ASSUME NEW p \in Peers, ~raced'[p]
               PROVE  /\ IsInjective(pending_calls'[p])
                      /\ ToSet(pending_calls'[p]) \subseteq Underway(p)'
                      /\ host'[p] # "closed" => Underway(p)' \subseteq ToSet(pending_calls'[p])
    BY DEF ListInv, IsInjective, ToSet
  <1> DEFINE Goal == /\ IsInjective(pending_calls'[p])
                     /\ ToSet(pending_calls'[p]) \subseteq Underway(p)'
                     /\ host'[p] # "closed" => Underway(p)' \subseteq ToSet(pending_calls'[p])
             s == pending_calls[p]
  <1> USE DEF connVars, callVars
  <1>1. ~raced[p]
    BY UnderwayStep
  <1>2. /\ s \in Seq(Caller) /\ IsInjective(s) /\ ToSet(s) \subseteq Underway(p)
        /\ host[p] # "closed" => Underway(p) \subseteq ToSet(s)
    BY <1>1 DEF ListInv, TypeOK
  <1>3. CASE /\ Underway(p)' = Underway(p) /\ pending_calls'[p] = s
             /\ host'[p] # "closed" => host[p] # "closed"
    BY <1>2, <1>3
  <1>4. ASSUME NEW c \in Caller, Call(c) \/ CallSend(c) \/ CallWait(c) PROVE Goal
    BY <1>3, <1>4, UnderwayMoves DEF Call, CallSend, CallWait
  <1>5. ASSUME NEW c \in Caller, ListCall(c) PROVE Goal
    <2>1. CASE c[1] # p
      <3>1. Underway(p)' = Underway(p)
        BY <1>5, <2>1, UnderwayMoves
      <3>2. pending_calls'[p] = s /\ host' = host
        BY <1>5, <2>1 DEF ListCall, List, TypeOK
      <3> QED
        BY <1>3, <3>1, <3>2
    <2>2. CASE c[1] = p
      <3>1. pending_calls'[p] = Append(s, c) /\ host' = host
        BY <1>5, <2>2 DEF ListCall, List, TypeOK
      <3>2. c \notin ToSet(s) /\ Underway(p)' = Underway(p) \union {c}
        BY <1>2, <1>5, <2>2, UnderwayMoves
      <3>3. ToSet(Append(s, c)) = ToSet(s) \union {c} /\ IsInjective(Append(s, c))
        BY <1>2, <3>2, AppendMembers
      <3> QED
        BY <1>2, <3>1, <3>2, <3>3
    <2> QED
      BY <2>1, <2>2
  <1>6. ASSUME NEW c \in Caller, CallRemove(c) PROVE Goal
    <2> DEFINE k == FirstListed(p, call[c].id)
    <2>1. Underway(p)' = Underway(p) \ {c} /\ host' = host
      BY <1>6, UnderwayMoves DEF CallRemove
    <2>2. CASE c[1] # p
      <3>1. c \notin Underway(p) /\ pending_calls'[p] = s
        BY <1>6, <2>2 DEF CallRemove, Underway, TypeOK
      <3> QED
        BY <1>2, <2>1, <3>1
    <2>3. CASE c[1] = p
      <3>1. c \in Underway(p)
        BY <1>6, <2>3 DEF CallRemove, At, Underway
      <3>2. CASE Listed(p, call[c].id) = {}
        <4>1. c \notin ToSet(s)
          <5>1. \A i \in 1 .. Len(s) : s[i] # c
            BY <3>2 DEF Listed
          <5> QED
            BY <1>2, <5>1 DEF ToSet
        <4>2. pending_calls'[p] = s
          BY <1>6, <2>3, <3>2 DEF CallRemove
        <4> QED
          BY <1>2, <2>1, <3>1, <4>1, <4>2
      <3>3. CASE Listed(p, call[c].id) # {}
        <4>1. k \in 1 .. Len(s) /\ s[k] \in Caller /\ call[s[k]].id = call[c].id
          BY <3>3, FirstListedIsListed
        <4>2. s[k] \in ToSet(s)
          BY <1>2, <4>1 DEF ToSet
        <4>3. s[k] = c
          BY <1>1, <1>2, <3>1, <4>1, <4>2 DEF IdInv
        <4>4. pending_calls'[p] = RemoveAt(s, k)
          BY <1>6, <2>3, <3>3 DEF CallRemove, TypeOK
        <4> HIDE DEF k, s
        <4>5. ToSet(RemoveAt(s, k)) = ToSet(s) \ {s[k]} /\ IsInjective(RemoveAt(s, k))
          BY <1>2, <4>1, RemoveMembers
        <4> QED
          BY <1>2, <2>1, <4>3, <4>4, <4>5
      <3> QED
        BY <3>2, <3>3
    <2> QED
      BY <2>2, <2>3
  <1>7. ASSUME NEW q \in Peers, CompleteAll(q) PROVE Goal
    <2>1. Underway(p)' = Underway(p)
      BY <1>7 DEF CompleteAll, Underway
    <2>2. CASE q = p
      <3>1. pending_calls'[p] = <<>> /\ host'[p] = "closed"
        BY <1>7, <2>2 DEF CompleteAll, HostAt, TypeOK
      <3> QED
        BY <3>1 DEF ToSet, IsInjective
    <2>3. CASE q # p
      BY <1>3, <1>7, <2>1, <2>3 DEF CompleteAll, HostAt, TypeOK
    <2> QED
      BY <2>2, <2>3
  <1>8. ASSUME NEW q \in Peers, Close(q) \/ Shutdown(q) \/ Join(q) PROVE Goal
    <2>1. Underway(p)' = Underway(p) /\ pending_calls' = pending_calls
      BY <1>8 DEF Close, Shutdown, Join, Underway
    <2>2. host'[p] # "closed" => host[p] # "closed"
      BY <1>8 DEF Close, Shutdown, Join, HostAt, TypeOK
    <2> QED
      BY <1>3, <2>1, <2>2
  <1>9. CASE UNCHANGED <<pc, pending_calls, host>>
    BY <1>3, <1>9 DEF Underway
  <1>10. Closers \subseteq Peers
    BY RpcPeerConstants DEF Peers
  <1> QED
    BY <1>4, <1>5, <1>6, <1>7, <1>8, <1>9, <1>10
       DEF Next, CallProceeds, ReceiverProceeds, CloseProceeds, vars, ReceiverTop, ReceiveEnd, Complete,
           Serve, Arrives, AnswerSend

LEMMA AnswerStep ==
    ASSUME TypeOK, ChanInv, ListInv, OwnerInv, AnswerInv, [Next]_vars
    PROVE  AnswerInv'
  <1> SUFFICES ASSUME NEW c \in Caller, ~raced'[c[1]], call'[c].ok
               PROVE  c \in Underway(c[1])' /\ call'[c].of = <<c, call'[c].n>>
    BY DEF AnswerInv
  <1> DEFINE p == c[1]
             Goal == c \in Underway(p)' /\ call'[c].of = <<c, call'[c].n>>
  <1> USE DEF connVars, callVars
  <1>1. p \in Peers /\ ~raced[p]
    BY PeerType, UnderwayStep
  <1>2. call[c] \in PendingCall
    BY DEF TypeOK
  <1>3. call[c].ok => c \in Underway(p) /\ call[c].of = <<c, call[c].n>>
    BY <1>1 DEF AnswerInv
  <1>4. CASE call'[c] = call[c] /\ Underway(p) \subseteq Underway(p)'
    BY <1>3, <1>4
  <1>5. ASSUME NEW e \in Caller, Call(e) PROVE Goal
    <2>1. CASE e = c
      <3>1. call'[c].ok = call[c].ok
        BY <1>2, <1>5, <2>1, CallType DEF PendingCall
      <3>2. c \notin Underway(p)
        BY <1>5, <2>1 DEF Call, At, Underway
      <3> QED
        BY <1>3, <3>1, <3>2
    <2>2. CASE e # c
      <3>1. call'[c] = call[c]
        BY <1>5, <2>2, CallType
      <3>2. Underway(p)' = Underway(p)
        BY <1>1, <1>5, UnderwayMoves
      <3> QED
        BY <1>4, <3>1, <3>2
    <2> QED
      BY <2>1, <2>2
  <1>6. ASSUME NEW e \in Caller, ListCall(e) \/ CallSend(e) \/ CallWait(e) PROVE Goal
    <2>1. call' = call
      BY <1>6 DEF ListCall, List, CallSend, CallWait
    <2>2. Underway(p) \subseteq Underway(p)'
      BY <1>1, <1>6, UnderwayMoves
    <2> QED
      BY <1>4, <2>1, <2>2
  <1>7. ASSUME NEW e \in Caller, CallRemove(e) PROVE Goal
    <2>1. CASE e = c
      BY <1>7, <2>1, RemoveType DEF NoCall
    <2>2. CASE e # c
      <3>1. call'[c] = call[c]
        BY <1>7, <2>2, RemoveType
      <3>2. Underway(p)' = Underway(p) \ {e}
        BY <1>1, <1>7, UnderwayMoves
      <3> QED
        BY <1>3, <2>2, <3>1, <3>2
    <2> QED
      BY <2>1, <2>2
  <1>8. ASSUME NEW q \in Peers, Complete(q) PROVE Goal
    <2> DEFINE f == Head(chan[q])
    <2>1. Underway(p)' = Underway(p)
      BY <1>8 DEF Complete, Arrives, Underway
    <2>2. CASE call'[c] = call[c]
      BY <1>4, <2>1, <2>2
    <2>3. CASE call'[c] # call[c]
      <3>1. /\ c \in ToSet(pending_calls[q])
            /\ call[c].id = f.id
            /\ call'[c] = [call[c] EXCEPT !.completed = TRUE, !.ok = TRUE, !.of = f.of]
        BY <1>8, <2>3, CompleteType
      <3>2. q = p
        <4>1. pending_calls[q] \in Seq({d \in Caller : d[1] = q})
          BY DEF OwnerInv
        <4>2. \A i \in 1 .. Len(pending_calls[q]) : pending_calls[q][i] \in {d \in Caller : d[1] = q}
          BY <4>1
        <4> QED
          BY <3>1, <4>1, <4>2 DEF ToSet
      <3>3. c \in Underway(p)
        BY <1>1, <3>1, <3>2 DEF ListInv
      <3>4. f = chan[q][1] /\ 1 \in 1 .. Len(chan[q]) /\ f.kind = "answer"
        BY <1>8, FramesType DEF Complete, Arrives
      <3>5. Travels(q, f)
        BY <3>4 DEF ChanInv
      <3> HIDE DEF f
      <3>6. f.of[1][1] = p /\ Belongs(f)
        BY <3>2, <3>4, <3>5 DEF Travels
      <3>7. f.of = <<c, call[c].n>>
        BY <1>1, <3>1, <3>3, <3>6 DEF Belongs
      <3>8. call'[c].of = f.of /\ call'[c].n = call[c].n
        BY <1>2, <3>1 DEF PendingCall
      <3> QED
        BY <2>1, <3>3, <3>7, <3>8
    <2> QED
      BY <2>2, <2>3
  <1>9. ASSUME NEW q \in Peers, CompleteAll(q) PROVE Goal
    <2>1. Underway(p)' = Underway(p)
      BY <1>9 DEF CompleteAll, Underway
    <2>2. call'[c] = call[c]
      BY <1>9, CompleteAllType
    <2> QED
      BY <1>4, <2>1, <2>2
  <1>10. CASE UNCHANGED <<pc, call>>
    BY <1>4, <1>10 DEF Underway
  <1>11. Closers \subseteq Peers
    BY RpcPeerConstants DEF Peers
  <1> QED
    BY <1>5, <1>6, <1>7, <1>8, <1>9, <1>10, <1>11
       DEF Next, CallProceeds, ReceiverProceeds, CloseProceeds, vars, ReceiverTop, ReceiveEnd, Serve,
           Arrives, AnswerSend, Close, Shutdown, Join

LEMMA ToldStep ==
    ASSUME TypeOK, ShutInv, ListInv, ToldInv, [Next]_vars
    PROVE  ToldInv'
  <1> SUFFICES ASSUME NEW c \in Caller, ~raced'[c[1]], host'[c[1]] = "closed", pc'[c] = "wait"
               PROVE  call'[c].completed
    BY DEF ToldInv
  <1> DEFINE p == c[1]
  <1> USE DEF connVars, callVars
  <1>1. p \in Peers /\ ~raced[p]
    BY PeerType, UnderwayStep
  <1>2. call[c] \in PendingCall
    BY DEF TypeOK
  <1>3. CASE host[p] = "closed" /\ pc[c] = "wait" /\ call'[c] = call[c]
    BY <1>1, <1>3 DEF ToldInv
  <1>4. ASSUME NEW e \in Caller, Call(e) \/ ListCall(e) \/ CallWait(e) \/ CallRemove(e)
        PROVE  call'[c].completed
    <2>1. host' = host /\ pc'[e] # "wait" /\ \A d \in Caller : d # e => pc'[d] = pc[d]
      BY <1>4 DEF Call, ListCall, List, CallWait, Answered, TimedOut, CallRemove, At, TypeOK
    <2>2. c # e
      BY <2>1
    <2>3. call'[c] = call[c]
      BY <1>4, <2>2, CallType, RemoveType DEF ListCall, List, CallWait
    <2> QED
      BY <1>3, <2>1, <2>2, <2>3
  <1>5. ASSUME NEW e \in Caller, CallSend(e) PROVE call'[c].completed
    <2>1. host' = host /\ call' = call /\ \A d \in Caller : d # e => pc'[d] = pc[d]
      BY <1>5 DEF CallSend, At, TypeOK
    \* A call cannot be sent on a socket that is shut down.
    <2>2. CASE e = c
      <3>1. shut[p]
        BY <1>1, <2>1 DEF ShutInv
      <3>2. pc'[c] = "remove"
        BY <1>5, <2>2, <3>1 DEF CallSend, SendInto, At, TypeOK
      <3> QED
        BY <3>2
    <2> QED
      BY <1>3, <2>1, <2>2
  <1>6. ASSUME NEW q \in Peers, Complete(q) PROVE call'[c].completed
    <2>1. host' = host /\ pc' = pc
      BY <1>6 DEF Complete, Arrives
    <2>2. CASE call'[c] = call[c]
      BY <1>3, <2>1, <2>2
    <2>3. CASE call'[c] # call[c]
      <3>1. call'[c] = [call[c] EXCEPT !.completed = TRUE, !.ok = TRUE, !.of = Head(chan[q]).of]
        BY <1>6, <2>3, CompleteType
      <3> QED
        BY <1>2, <3>1 DEF PendingCall
    <2> QED
      BY <2>2, <2>3
  <1>7. ASSUME NEW q \in Peers, CompleteAll(q) PROVE call'[c].completed
    <2>1. pc' = pc
      BY <1>7 DEF CompleteAll
    <2>2. CASE c \in ToSet(pending_calls[q])
      BY <1>7, <2>2, CompleteAllType
    <2>3. CASE c \notin ToSet(pending_calls[q])
      <3>1. call'[c] = call[c]
        BY <1>7, <2>3, CompleteAllType
      <3>2. q # p
        <4>1. c \in Underway(p)
          BY <2>1 DEF Underway
        <4>2. host[q] # "closed"
          BY <1>7 DEF CompleteAll, HostAt
        <4> QED
          BY <1>1, <2>3, <4>1, <4>2 DEF ListInv
      <3>3. host[p] = "closed"
        BY <1>1, <1>7, <3>2 DEF CompleteAll, HostAt, TypeOK
      <3> QED
        BY <1>3, <2>1, <3>1, <3>3
    <2> QED
      BY <2>2, <2>3
  <1>8. ASSUME NEW q \in Peers, Close(q) \/ Shutdown(q) \/ Join(q) PROVE call'[c].completed
    <2>1. pc' = pc /\ call' = call
      BY <1>8 DEF Close, Shutdown, Join
    <2>2. host[p] = "closed"
      BY <1>1, <1>8 DEF Close, Shutdown, Join, HostAt, TypeOK
    <2> QED
      BY <1>3, <2>1, <2>2
  <1>9. CASE UNCHANGED <<pc, call, host>>
    BY <1>3, <1>9
  <1>10. Closers \subseteq Peers
    BY RpcPeerConstants DEF Peers
  <1> QED
    BY <1>4, <1>5, <1>6, <1>7, <1>8, <1>9, <1>10
       DEF Next, CallProceeds, ReceiverProceeds, CloseProceeds, vars, ReceiverTop, ReceiveEnd, Serve,
           Arrives, AnswerSend

----------------------------------------------------------------------------
(* The theorems                                                            *)

LEMMA IInvInit == Init => IInv
  <1> SUFFICES ASSUME Init PROVE IInv
    OBVIOUS
  <1>1. TypeOK
    BY TypeInit
  <1>2. \A p \in Peers : chan[p] = <<>> /\ pending_calls[p] = <<>> /\ Underway(p) = {}
    BY DEF Init, Underway
  <1>3. ShutInv /\ StoreInv /\ IdInv /\ FrameInv
    BY <1>2 DEF Init, ShutInv, StoreInv, IdInv, FrameInv
  <1>4. ChanInv
    <2>1. \A q \in Peers : Len(chan[q]) = 0
      BY <1>2
    <2> QED
      BY <2>1 DEF ChanInv
  <1>5. ListInv
    BY <1>2 DEF ListInv, ToSet, IsInjective
  <1>6. OwnerInv
    <2>1. \A S : <<>> \in Seq(S)
      OBVIOUS
    <2> QED
      BY <1>2, <2>1 DEF OwnerInv
  <1>7. AnswerInv /\ ToldInv
    BY DEF Init, AnswerInv, ToldInv, NoCall
  <1> QED
    BY <1>1, <1>3, <1>4, <1>5, <1>6, <1>7 DEF IInv

LEMMA IInvStep == IInv /\ [Next]_vars => IInv'
  BY TypeStep, ShutStep, StoreStep, IdStep, ChanStep, FrameStep, ListStep, OwnerStep, AnswerStep,
     ToldStep DEF IInv

\* The invariant, for any number of callers, calls and frames on their way.
THEOREM Invariance == Spec => []IInv
  BY IInvInit, IInvStep, PTL DEF Spec

\* Every field keeps its type: a socket never holds more than it has room for, and the list and
\* the frames name calls (TypeOK is the first part of the invariant).
THEOREM TypeCorrect == Spec => []TypeOK
  <1>1. IInv => TypeOK
    BY DEF IInv
  <1> QED
    BY <1>1, Invariance, PTL

\* completePendingCall gives no call the answer to another one, however late it comes, as long as
\* no two threads took a request id at the same time.
THEOREM OwnAnswerTheorem == Spec => []OwnAnswer
  <1>1. IInv => OwnAnswer
    BY DEF IInv, AnswerInv, OwnAnswer
  <1> QED
    BY <1>1, Invariance, PTL

\* The list of pending calls is exact until close clears it, and close leaves no call waiting.
THEOREM ClosedToldTheorem == Spec => []ClosedTold
  <1>1. ASSUME IInv, NEW p \in Peers, ~raced[p], host[p] # "closed"
        PROVE  /\ IsInjective(pending_calls[p])
               /\ ToSet(pending_calls[p]) =
                    {c \in Caller : c[1] = p /\ pc[c] \in {"send", "wait", "remove"}}
    BY <1>1 DEF IInv, ListInv, Underway
  <1>2. ASSUME IInv, NEW p \in Peers, ~raced[p], host[p] = "closed",
               NEW c \in Caller, c[1] = p, pc[c] = "wait"
        PROVE  call[c].completed
    BY <1>2 DEF IInv, ToldInv
  <1>3. IInv => ClosedTold
    BY <1>1, <1>2 DEF ClosedTold
  <1> QED
    BY <1>3, Invariance, PTL
=============================================================================
