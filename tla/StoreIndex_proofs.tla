-------------------------- MODULE StoreIndex_proofs --------------------------
(***************************************************************************)
(* Theorems about StoreIndex, for any keys, banks, number of copies and    *)
(* calls: the index is sound at every instant, and a key that was created  *)
(* is found again.  The disk comes first, as operators of its parts (what  *)
(* a descriptor leads to, what a map names, where a key is found), then    *)
(* what a call under way knows at each of its steps (CallInv) and what is  *)
(* still promised of the keys (KeepInv).                                   *)
(***************************************************************************)
EXTENDS StoreIndex, WellFoundedInduction, NaturalsInduction, TLAPS

IndexDescriptors ==
    [range : Banks, next : Nat, map : Nat, slot : [0 .. BankSize - 1 -> Nat]]
BankMaps == [Banks -> Nat]
Contents == BankMaps \union {Invalid}
MapCopies == [Copies -> Contents]

Types ==
    /\ index \in Seq(IndexDescriptors) /\ Len(index) >= 1
    /\ maps \in Seq(MapCopies)
    /\ child \in Seq(Nat) /\ files \in Nat
    /\ pc \in PC /\ key \in Keys /\ converting \in BOOLEAN
    /\ at \in Nat /\ mem \in IndexDescriptors
    /\ bank \in BankMaps /\ copy \in Copies /\ rest \in Nat
    /\ made \subseteq Keys /\ cut \in BOOLEAN /\ uneven \in BOOLEAN

----------------------------------------------------------------------------
(* The disk, as parameters                                                 *)

Ordered(ix) == \A n \in 1 .. Len(ix) : ix[n].next # 0 => ix[n].next \in n + 1 .. Len(ix)

\* Links lead to what is there.
Linked(ix, ms, ch) == \A n \in 1 .. Len(ix) :
    /\ ix[n].map \in 0 .. Len(ms)
    /\ \A s \in 0 .. BankSize - 1 : ix[n].slot[s] \in 0 .. Len(ch)

\* A map names descriptors of the right ranges.
Names(ix, f) == \A b \in DOMAIN f : f[b] # 0 => f[b] <= Len(ix) /\ ix[f[b]].range = b
AllName(ix, ms) == \A m \in 1 .. Len(ms), c \in Copies : Names(ix, ms[m][c])

\* The head of the list tells whether there is a map.
HeadTells(ix) ==
    /\ ix[1].range = 0
    /\ ix[1].map # 0 => ix[1].next = 0
    /\ ix[1].map = 0 => \A n \in 1 .. Len(ix) : ix[n].map = 0

Distinct(ix, S) == \A i, j \in S : ix[i].range = ix[j].range => i = j

HoldsIn(ix, ch, n, k) == ix[n].slot[Slot(k)] # 0 /\ ch[ix[n].slot[Slot(k)]] # 0

IsReadable(copies) == \E c \in Copies : copies[c] # Invalid
TrustedOf(copies) == copies[FirstValid(copies)]
IsEven(copies) == \A c, d \in Copies :
    (c < d /\ copies[c] = TrustedOf(copies)) => copies[d] = TrustedOf(copies)

\* Where the descriptor of k is: in a map, or in a list.
BankHolds(ix, ch, f, k) == f[BankOf(k)] # 0 /\ HoldsIn(ix, ch, f[BankOf(k)], k)
ListHolds(ix, ch, S, k) == \E n \in S : ix[n].range = BankOf(k) /\ HoldsIn(ix, ch, n, k)

FoundIn(ix, ms, ch, k) ==
    IF ix[1].map # 0
    THEN IsReadable(ms[ix[1].map]) /\ BankHolds(ix, ch, TrustedOf(ms[ix[1].map]), k)
    ELSE ListHolds(ix, ch, ListFrom(ix, 1), k)

----------------------------------------------------------------------------
(* The inductive invariant                                                 *)

DiskInv ==
    /\ Ordered(index)
    /\ Linked(index, maps, child)
    /\ AllName(index, maps)
    /\ HeadTells(index)
    /\ Distinct(index, ListFrom(index, 1))

\* The list is not converted; no descriptor of it has the range of the key.
Listed == index[1].map = 0
Absent == \A j \in ListFrom(index, 1) : index[j].range # BankOf(key)

\* The call has loaded the descriptor of the key.
Target ==
    /\ Listed => at \in ListFrom(index, 1) /\ index[at].range = BankOf(key)
    /\ ~Listed => IsReadable(maps[index[1].map]) /\ TrustedOf(maps[index[1].map])[BankOf(key)] = at

\* The call works on the map, of which it holds the head and a content.
AtMap == ~Listed /\ at = 1 /\ mem = index[1] /\ Names(index, bank)

InCall ==
    /\ pc # "idle" => at \in 1 .. Len(index)
    /\ pc \in {"head", "sibling"} => converting
    /\ pc \notin {"idle", "head", "sibling", "tear", "copy"} => ~converting

InNode == pc = "node" =>
    /\ mem = index[at]
    /\ Listed => /\ at \in ListFrom(index, 1)
                 /\ \A j \in ListFrom(index, 1) : index[j].range = BankOf(key) => j >= at
    /\ ~Listed => at = 1

InNewSibling == pc = "newsibling" =>
    Listed /\ at \in ListFrom(index, 1) /\ mem = index[at] /\ mem.next = 0 /\ Absent

InLinkSibling == pc = "linksibling" =>
    /\ Listed /\ at \in ListFrom(index, 1) /\ index[at].next = 0 /\ at < Len(index) /\ Absent
    /\ mem = [index[at] EXCEPT !.next = Len(index)]
    /\ index[Len(index)] = Descriptor(BankOf(key))

InNewBank == pc = "newbank" =>
    /\ AtMap /\ IsReadable(maps[mem.map])
    /\ bank = TrustedOf(maps[mem.map]) /\ bank[BankOf(key)] = 0

InCopies == pc \in {"tear", "copy"} =>
    /\ AtMap
    /\ ~converting => bank[BankOf(key)] # 0
    /\ copy > 1 => maps[mem.map][1] = bank

InSlot ==
    /\ pc \in {"slot", "linkslot", "child", "linkfile"} => Target
    /\ pc \in {"slot", "child", "linkfile"} => mem = index[at]
    /\ pc = "linkslot" =>
          /\ index[at].slot[Slot(key)] = 0 /\ Len(child) # 0
          /\ mem = [index[at] EXCEPT !.slot[Slot(key)] = Len(child)]
    /\ pc \in {"child", "linkfile"} => mem.slot[Slot(key)] # 0
    /\ pc = "linkfile" => files # 0

InHead == pc = "head" =>
    /\ Listed /\ at = 1 /\ Len(maps) # 0 /\ copy = 1
    /\ mem = [index[1] EXCEPT !.map = Len(maps), !.next = 0]
    /\ rest = index[1].next /\ bank = [NoBanks EXCEPT ![0] = 1]

InSiblings == pc = "sibling" =>
    /\ AtMap /\ copy = 1 /\ rest \in 0 .. Len(index) /\ rest # 1
    /\ Distinct(index, ListFrom(index, rest))
    /\ \A n \in ListFrom(index, rest) : bank[index[n].range] = 0

CallInv ==
    /\ InCall /\ InNode /\ InNewSibling /\ InLinkSibling /\ InNewBank
    /\ InCopies /\ InSlot /\ InHead /\ InSiblings

\* What was promised, as long as the copies can be relied on.
Reliable == Redundancy > 0 /\ ~cut /\ ~uneven

\* A conversion has changed the head and has yet to write the first copy.
Between == pc = "sibling" \/ (pc \in {"tear", "copy"} /\ converting /\ copy = 1)

\* The map is being brought up to a bank that is new.
Updating == pc \in {"tear", "copy"} /\ ~converting /\ copy = 1

KeepInv == Reliable =>
    /\ \A k \in made :
        /\ ~Between => FoundIn(index, maps, child, k)
        /\ Between => \/ BankHolds(index, child, bank, k)
                      \/ pc = "sibling" /\ ListHolds(index, child, ListFrom(index, rest), k)
    /\ Updating => /\ IsReadable(maps[mem.map])
                   /\ TrustedOf(maps[mem.map]) = [bank EXCEPT ![BankOf(key)] = 0]
                   /\ pc = "tear" => IsEven(maps[mem.map])

IInv == Types /\ DiskInv /\ CallInv /\ KeepInv

----------------------------------------------------------------------------
(* Sets of naturals                                                        *)

\* A set of naturals that is not empty has a least element.
LEMMA LeastNatural ==
    ASSUME NEW T \in SUBSET Nat, T # {}
    PROVE  \E m \in T : \A n \in T : m <= n
  <1>1. PICK m \in T : \A n \in T : <<n, m>> \notin OpToRel(<, Nat)
    BY WFMin, NatLessThanWellFounded
  <1>2. \A n \in T : ~(n < m)
    BY <1>1 DEF OpToRel
  <1> QED
    BY <1>2

----------------------------------------------------------------------------
(* The way along a list                                                    *)

\* What the i-th step of a way is, given those before.
StepOf(g, ix, s, i) == IF i = 1 THEN s ELSE IF g[i - 1] = 0 THEN 0 ELSE ix[g[i - 1]].next

\* There is a way of any length.
LEMMA WayExists ==
    ASSUME NEW ix, NEW s, NEW n \in Nat
    PROVE  \E g : \A i \in 1 .. n : g[i] = StepOf(g, ix, s, i)
  <1> DEFINE Way(m) == \E g : \A i \in 1 .. m : g[i] = StepOf(g, ix, s, i)
             T == {m \in Nat : ~Way(m)}
  <1>1. SUFFICES ASSUME T # {} PROVE FALSE
    OBVIOUS
  <1>2. PICK m \in T : \A k \in T : m <= k
    BY <1>1, LeastNatural
  <1>3. m \in Nat /\ ~Way(m)
    OBVIOUS
  <1>4. Way(0)
    OBVIOUS
  <1>5. m # 0 /\ m - 1 \in Nat /\ ~(m <= m - 1)
    BY <1>3, <1>4
  <1>6. Way(m - 1)
    BY <1>2, <1>5
  <1>7. PICK g : \A i \in 1 .. m - 1 : g[i] = StepOf(g, ix, s, i)
    BY <1>6
  <1> DEFINE h == [i \in 1 .. m |-> IF i = m THEN StepOf(g, ix, s, m) ELSE g[i]]
  <1>8. ASSUME NEW i \in 1 .. m PROVE h[i] = StepOf(h, ix, s, i)
    <2>1. CASE i # m
      <3>1. i \in 1 .. m - 1 /\ h[i] = g[i] /\ (i # 1 => h[i - 1] = g[i - 1])
        BY <1>3, <2>1
      <3> QED
        BY <1>7, <3>1 DEF StepOf
    <2>2. CASE i = m
      <3>1. h[i] = StepOf(g, ix, s, m) /\ (i # 1 => h[i - 1] = g[i - 1])
        BY <1>3, <1>5, <2>2
      <3> QED
        BY <2>2, <3>1 DEF StepOf
    <2> QED
      BY <2>1, <2>2
  <1>9. Way(m)
    <2> HIDE DEF h
    <2> QED
      BY <1>8
  <1> QED
    BY <1>3, <1>9

\* The steps along a list are what their recursive definition says.
LEMMA StepsAre ==
    ASSUME NEW ix, Len(ix) \in Nat, NEW s
    PROVE  /\ Steps(ix, s) = [i \in 1 .. Len(ix) |-> StepOf(Steps(ix, s), ix, s, i)]
  <1> DEFINE IsWay(g) == g = [i \in 1 .. Len(ix) |->
                                 IF i = 1 THEN s ELSE IF g[i - 1] = 0 THEN 0 ELSE ix[g[i - 1]].next]
  <1>1. PICK h : \A i \in 1 .. Len(ix) : h[i] = StepOf(h, ix, s, i)
    BY WayExists
  <1> DEFINE g == [i \in 1 .. Len(ix) |-> h[i]]
  <1>2. IsWay(g)
    <2>1. ASSUME NEW i \in 1 .. Len(ix) 
          PROVE  g[i] = IF i = 1 THEN s ELSE IF g[i - 1] = 0 THEN 0 ELSE ix[g[i - 1]].next
      <3>1. g[i] = h[i] /\ (i # 1 => g[i - 1] = h[i - 1])
        OBVIOUS
      <3> QED
        BY <1>1, <3>1 DEF StepOf
    <2> QED
      BY <2>1
  <1>3. Steps(ix, s) = CHOOSE f : IsWay(f)
    BY DEF Steps
  <1>4. IsWay(Steps(ix, s))
    <2> HIDE DEF IsWay, g
    <2> QED
      BY <1>2, <1>3
  <1> QED
    BY <1>4 DEF StepOf

\* A list leads forward through its descriptors, so that it ends.
LEMMA WayOrdered ==
    ASSUME NEW ix \in Seq(IndexDescriptors), Ordered(ix), NEW s \in 0 .. Len(ix)
    PROVE  /\ Len(ix) \in Nat
           /\ Len(ix) # 0 => Steps(ix, s)[1] = s
           /\ \A i \in 1 .. Len(ix) - 1 :
                Steps(ix, s)[i + 1] = IF Steps(ix, s)[i] = 0 THEN 0 ELSE ix[Steps(ix, s)[i]].next
           /\ \A i \in 1 .. Len(ix) : Steps(ix, s)[i] \in 0 .. Len(ix)
           /\ \A i \in 1 .. Len(ix) : Steps(ix, s)[i] # 0 => Steps(ix, s)[i] >= i
           /\ \A i, j \in 1 .. Len(ix) :
                i < j /\ Steps(ix, s)[j] # 0 => Steps(ix, s)[i] # 0 /\ Steps(ix, s)[i] < Steps(ix, s)[j]
  <1>1. Len(ix) \in Nat
    OBVIOUS
  <1>2. PICK L \in Nat : L = Len(ix)
    BY <1>1
  <1>3. PICK g : g = Steps(ix, s)
    OBVIOUS
  <1>4. g = [i \in 1 .. L |-> StepOf(g, ix, s, i)]
    BY <1>1, <1>2, <1>3, StepsAre
  <1>5. \A i \in 1 .. L : g[i] = StepOf(g, ix, s, i)
    BY <1>4
  <1>6. L # 0 => g[1] = s
    BY <1>5 DEF StepOf
  <1>7. ASSUME NEW i \in 1 .. L - 1 PROVE g[i + 1] = IF g[i] = 0 THEN 0 ELSE ix[g[i]].next
    <2>1. i + 1 \in 1 .. L /\ i + 1 # 1 /\ (i + 1) - 1 = i
      OBVIOUS
    <2> QED
      BY <1>5, <2>1 DEF StepOf
  <1>8. \A n \in 1 .. L : ix[n].next # 0 => ix[n].next \in n + 1 .. L
    BY <1>2 DEF Ordered
  <1> DEFINE Good(n) == g[n] \in 0 .. L /\ (g[n] # 0 => g[n] >= n)
             T == {n \in 1 .. L : ~Good(n)}
  <1>9. T = {}
    <2>1. SUFFICES ASSUME T # {} PROVE FALSE
      OBVIOUS
    <2> HIDE DEF Good
    <2>0. T \in SUBSET Nat
      OBVIOUS
    <2>2. PICK n \in T : \A k \in T : n <= k
      <3> HIDE DEF T
      <3> QED
        BY <2>0, <2>1, LeastNatural
    <2>3. n \in 1 .. L /\ ~Good(n)
      OBVIOUS
    <2> USE DEF Good
    <2>4. CASE n = 1
      BY <1>2, <1>6, <2>3, <2>4
    <2>5. CASE n # 1
      <3>1. n - 1 \in 1 .. L - 1 /\ n - 1 \in 1 .. L /\ ~(n <= n - 1) /\ (n - 1) + 1 = n
        BY <2>3, <2>5
      <3>2. Good(n - 1)
        BY <2>2, <3>1
      <3>3. g[n] = IF g[n - 1] = 0 THEN 0 ELSE ix[g[n - 1]].next
        BY <1>7, <3>1
      <3>4. CASE g[n - 1] = 0
        BY <2>3, <3>3, <3>4
      <3>5. CASE g[n - 1] # 0
        <4>1. PICK m \in 1 .. L : m = g[n - 1] /\ m >= n - 1
          BY <3>1, <3>2, <3>5
        <4>2. g[n] = ix[m].next
          BY <3>3, <3>5, <4>1
        <4>3. g[n] # 0 => g[n] \in m + 1 .. L
          BY <1>8, <4>1, <4>2
        <4> QED
          BY <2>3, <4>1, <4>3
      <3> QED
        BY <3>4, <3>5
    <2> QED
      BY <2>4, <2>5
  <1>10. \A n \in 1 .. L : Good(n)
    BY <1>9
  <1>11. ASSUME NEW i \in 1 .. L PROVE \A j \in 1 .. L : i < j /\ g[j] # 0 => g[i] # 0 /\ g[i] < g[j]
    <2> DEFINE Below(j) == i < j /\ g[j] # 0 => g[i] # 0 /\ g[i] < g[j]
               U == {j \in 1 .. L : ~Below(j)}
    <2>1. SUFFICES ASSUME U # {} PROVE FALSE
      OBVIOUS
    <2>0. U \in SUBSET Nat
      <3> HIDE DEF Below
      <3> QED
        OBVIOUS
    <2>2. PICK j \in U : \A k \in U : j <= k
      <3> HIDE DEF U
      <3> QED
        BY <2>0, <2>1, LeastNatural
    <2>3. j \in 1 .. L /\ ~Below(j) /\ i < j /\ g[j] # 0
      OBVIOUS
    <2>4. j - 1 \in 1 .. L - 1 /\ j - 1 \in 1 .. L /\ ~(j <= j - 1) /\ (j - 1) + 1 = j
      BY <2>3
    <2>5. g[j] = IF g[j - 1] = 0 THEN 0 ELSE ix[g[j - 1]].next
      BY <1>7, <2>4
    <2>6. PICK m \in 1 .. L : m = g[j - 1]
      BY <1>10, <2>3, <2>4, <2>5
    <2>7. g[j] \in m + 1 .. L
      BY <1>8, <2>3, <2>5, <2>6
    <2>8. Below(j - 1)
      BY <2>2, <2>4
    <2>9. CASE i = j - 1
      BY <2>3, <2>6, <2>7, <2>9
    <2>10. CASE i # j - 1
      <3>1. g[i] # 0 /\ g[i] < m
        BY <2>3, <2>4, <2>6, <2>8, <2>10
      <3>2. g[i] \in 0 .. L
        BY <1>10
      <3> QED
        BY <2>3, <2>7, <3>1, <3>2
    <2> QED
      BY <2>9, <2>10
  <1> QED
    <2> HIDE DEF Good, T
    <2>1. \A n \in 1 .. L : g[n] \in 0 .. L /\ (g[n] # 0 => g[n] >= n)
      BY <1>10 DEF Good
    <2> QED
      BY <1>2, <1>3, <1>6, <1>7, <1>11, <2>1

\* What a list is made of: it begins at s, goes on at every link, and contains nothing else.
LEMMA ListMembers ==
    ASSUME NEW ix \in Seq(IndexDescriptors), Ordered(ix), NEW s \in 0 .. Len(ix)
    PROVE  /\ ListFrom(ix, s) \subseteq 1 .. Len(ix)
           /\ s # 0 => s \in ListFrom(ix, s)
           /\ \A n \in ListFrom(ix, s) : ix[n].next # 0 => ix[n].next \in ListFrom(ix, s)
           /\ \A n \in ListFrom(ix, s) : n >= s
           /\ \A i, j \in ListFrom(ix, s) : i < j => ix[i].next # 0 /\ ix[i].next <= j
  <1>1. PICK L \in Nat : L = Len(ix)
    OBVIOUS
  <1>2. PICK g : g = Steps(ix, s)
    OBVIOUS
  <1>3. /\ L # 0 => g[1] = s
        /\ \A i \in 1 .. L - 1 : g[i + 1] = IF g[i] = 0 THEN 0 ELSE ix[g[i]].next
        /\ \A i \in 1 .. L : g[i] \in 0 .. L
        /\ \A i \in 1 .. L : g[i] # 0 => g[i] >= i
        /\ \A i, j \in 1 .. L : i < j /\ g[j] # 0 => g[i] # 0 /\ g[i] < g[j]
    BY <1>1, <1>2, WayOrdered
  <1>4. \A n : n \in ListFrom(ix, s) <=> \E i \in 1 .. L : g[i] = n /\ n # 0
    BY <1>1, <1>2 DEF ListFrom
  <1>5. \A n \in 1 .. L : ix[n].next # 0 => ix[n].next \in n + 1 .. L
    BY <1>1 DEF Ordered
  <1>6. ListFrom(ix, s) \subseteq 1 .. L
    BY <1>3, <1>4
  <1>7. s # 0 => s \in ListFrom(ix, s)
    <2>1. s # 0 => 1 \in 1 .. L
      BY <1>1
    <2> QED
      BY <1>3, <1>4, <2>1
  <1>8. ASSUME NEW n \in ListFrom(ix, s) PROVE ix[n].next # 0 => ix[n].next \in ListFrom(ix, s)
    <2>1. PICK i \in 1 .. L : g[i] = n /\ n # 0 /\ n \in 1 .. L
      BY <1>4, <1>6
    <2>2. ASSUME ix[n].next # 0 PROVE ix[n].next \in ListFrom(ix, s)
      <3>1. n >= i /\ ix[n].next \in n + 1 .. L
        BY <1>3, <1>5, <2>1, <2>2
      <3>2. i \in 1 .. L - 1 /\ i + 1 \in 1 .. L
        BY <2>1, <3>1
      <3>3. g[i + 1] = ix[n].next
        BY <1>3, <2>1, <3>2
      <3> QED
        BY <1>4, <2>2, <3>2, <3>3
    <2> QED
      BY <2>2
  <1>9. ASSUME NEW n \in ListFrom(ix, s) PROVE n >= s
    <2>1. PICK i \in 1 .. L : g[i] = n /\ n # 0 /\ n \in 1 .. L
      BY <1>4, <1>6
    <2>2. 1 \in 1 .. L /\ g[1] = s
      BY <1>3, <2>1
    <2>3. i = 1 \/ g[1] < g[i]
      BY <1>3, <2>1, <2>2
    <2> QED
      BY <1>1, <2>1, <2>2, <2>3
  <1>10. ASSUME NEW m \in ListFrom(ix, s), NEW n \in ListFrom(ix, s), m < n
         PROVE  ix[m].next # 0 /\ ix[m].next <= n
    <2>1. PICK i \in 1 .. L : g[i] = m /\ m # 0 /\ m \in 1 .. L
      BY <1>4, <1>6
    <2>2. PICK j \in 1 .. L : g[j] = n /\ n # 0 /\ n \in 1 .. L
      BY <1>4, <1>6
    <2>3. i < j
      <3>1. j < i => g[j] < g[i]
        BY <1>3, <2>1, <2>2
      <3>2. i # j
        BY <1>10, <2>1, <2>2
      <3> QED
        BY <1>1, <1>10, <2>1, <2>2, <3>1, <3>2
    <2>4. i \in 1 .. L - 1 /\ i + 1 \in 1 .. L
      BY <2>3
    <2>5. g[i + 1] = ix[m].next
      BY <1>3, <2>1, <2>4
    <2>6. i + 1 = j \/ (i + 1 < j /\ g[i + 1] # 0 /\ g[i + 1] < g[j])
      BY <1>3, <2>2, <2>3, <2>4
    <2>7. g[i + 1] \in 0 .. L
      BY <1>3, <2>4
    <2> QED
      BY <2>2, <2>5, <2>6, <2>7
  <1> QED
    BY <1>1, <1>6, <1>7, <1>8, <1>9, <1>10

\* A list is the least set that contains s and goes on at every link.
LEMMA ListLeast ==
    ASSUME NEW ix \in Seq(IndexDescriptors), Ordered(ix), NEW s \in 0 .. Len(ix), NEW S,
           s # 0 => s \in S,
           \A n \in 1 .. Len(ix) : n \in S /\ ix[n].next # 0 => ix[n].next \in S
    PROVE  ListFrom(ix, s) \subseteq S
  <1>1. PICK L \in Nat : L = Len(ix)
    OBVIOUS
  <1>2. PICK g : g = Steps(ix, s)
    OBVIOUS
  <1>3. /\ L # 0 => g[1] = s
        /\ \A i \in 1 .. L - 1 : g[i + 1] = IF g[i] = 0 THEN 0 ELSE ix[g[i]].next
        /\ \A i \in 1 .. L : g[i] \in 0 .. L
    BY <1>1, <1>2, WayOrdered
  <1>4. \A n : n \in ListFrom(ix, s) <=> \E i \in 1 .. L : g[i] = n /\ n # 0
    BY <1>1, <1>2 DEF ListFrom
  <1> DEFINE T == {i \in 1 .. L : g[i] # 0 /\ g[i] \notin S}
  <1>5. T = {}
    <2>1. SUFFICES ASSUME T # {} PROVE FALSE
      OBVIOUS
    <2>0. T \in SUBSET Nat
      OBVIOUS
    <2>2. PICK i \in T : \A k \in T : i <= k
      <3> HIDE DEF T
      <3> QED
        BY <2>0, <2>1, LeastNatural
    <2>3. i \in 1 .. L /\ g[i] # 0 /\ g[i] \notin S
      OBVIOUS
    <2>4. i # 1
      BY <1>3, <2>3
    <2>5. i - 1 \in 1 .. L - 1 /\ i - 1 \in 1 .. L /\ ~(i <= i - 1) /\ (i - 1) + 1 = i
      BY <2>3, <2>4
    <2>6. g[i] = IF g[i - 1] = 0 THEN 0 ELSE ix[g[i - 1]].next
      BY <1>3, <2>5
    <2>7. g[i - 1] # 0 /\ g[i - 1] \in 1 .. L /\ g[i] = ix[g[i - 1]].next
      BY <1>3, <2>3, <2>5, <2>6
    <2>8. g[i - 1] \in S
      BY <2>2, <2>5, <2>7
    <2> QED
      BY <1>1, <2>3, <2>7, <2>8
  <1> QED
    BY <1>4, <1>5

\* The list from nowhere is empty.
LEMMA ListEmpty ==
    ASSUME NEW ix \in Seq(IndexDescriptors), Ordered(ix)
    PROVE  ListFrom(ix, 0) = {}
  <1>1. 0 \in 0 .. Len(ix)
    OBVIOUS
  <1> QED
    BY <1>1, ListLeast

\* The list from a descriptor is the descriptor and the list from the next one.
LEMMA ListHead ==
    ASSUME NEW ix \in Seq(IndexDescriptors), Ordered(ix), NEW s \in 1 .. Len(ix)
    PROVE  ListFrom(ix, s) = {s} \union ListFrom(ix, ix[s].next)
  <1>1. PICK t : t = ix[s].next
    OBVIOUS
  <1>2. t \in 0 .. Len(ix) /\ s \in 0 .. Len(ix) /\ s # 0
    <2>0. ix[s] \in IndexDescriptors
      OBVIOUS
    <2>1. t \in Nat
      BY <1>1, <2>0 DEF IndexDescriptors
    <2> QED
      BY <1>1, <2>1 DEF Ordered
  <1>3. t # 0 => t \in ListFrom(ix, t)
    BY <1>2, ListMembers
  <1>4. \A n \in ListFrom(ix, t) : ix[n].next # 0 => ix[n].next \in ListFrom(ix, t)
    BY <1>2, ListMembers
  <1>5. s \in ListFrom(ix, s)
    BY <1>2, ListMembers
  <1>6. \A n \in ListFrom(ix, s) : ix[n].next # 0 => ix[n].next \in ListFrom(ix, s)
    BY <1>2, ListMembers
  <1>7. ListFrom(ix, s) \subseteq {s} \union ListFrom(ix, t)
    <2>1. PICK S : S = {s} \union ListFrom(ix, t)
      OBVIOUS
    <2>2. \A n \in 1 .. Len(ix) : n \in S /\ ix[n].next # 0 => ix[n].next \in S
      BY <1>1, <1>3, <1>4, <2>1
    <2>3. s # 0 => s \in S
      BY <2>1
    <2> QED
      BY <1>2, <2>1, <2>2, <2>3, ListLeast
  <1>8. ListFrom(ix, t) \subseteq ListFrom(ix, s)
    <2>1. PICK S : S = ListFrom(ix, s)
      OBVIOUS
    <2>2. \A n \in 1 .. Len(ix) : n \in S /\ ix[n].next # 0 => ix[n].next \in S
      BY <1>6, <2>1
    <2>3. t # 0 => t \in S
      BY <1>1, <1>5, <1>6, <2>1
    <2> QED
      BY <1>2, <2>1, <2>2, <2>3, ListLeast
  <1> QED
    BY <1>1, <1>5, <1>7, <1>8

\* The list is the same as long as its own descriptors lead on as before.
LEMMA ListSame ==
    ASSUME NEW ix \in Seq(IndexDescriptors), Ordered(ix),
           NEW iy \in Seq(IndexDescriptors), Ordered(iy),
           NEW s \in 0 .. Len(ix), Len(ix) <= Len(iy),
           \A n \in ListFrom(ix, s) : iy[n].next = ix[n].next
    PROVE  ListFrom(iy, s) = ListFrom(ix, s)
  <1>1. s \in 0 .. Len(iy)
    OBVIOUS
  <1>2. PICK S : S = ListFrom(ix, s)
    OBVIOUS
  <1>3. PICK R : R = ListFrom(iy, s)
    OBVIOUS
  <1>4. /\ s # 0 => s \in S
        /\ \A n \in S : ix[n].next # 0 => ix[n].next \in S
    BY <1>2, ListMembers
  <1>5. /\ s # 0 => s \in R
        /\ \A n \in R : iy[n].next # 0 => iy[n].next \in R
    BY <1>1, <1>3, ListMembers
  <1>6. R \subseteq S
    <2>1. \A n \in 1 .. Len(iy) : n \in S /\ iy[n].next # 0 => iy[n].next \in S
      BY <1>2, <1>4
    <2> QED
      BY <1>1, <1>3, <1>4, <2>1, ListLeast
  <1>7. S \subseteq R
    <2>1. PICK Q : Q = S \intersect R
      OBVIOUS
    <2>2. \A n \in 1 .. Len(ix) : n \in Q /\ ix[n].next # 0 => ix[n].next \in Q
      BY <1>2, <1>4, <1>5, <2>1
    <2>3. s # 0 => s \in Q
      BY <1>4, <1>5, <2>1
    <2>4. S \subseteq Q
      BY <1>2, <2>2, <2>3, ListLeast
    <2> QED
      BY <2>1, <2>4
  <1> QED
    BY <1>2, <1>3, <1>6, <1>7

\* A descriptor that the last one of a list is led to is the new last one.
LEMMA ListExtended ==
    ASSUME NEW ix \in Seq(IndexDescriptors), Ordered(ix),
           NEW iy \in Seq(IndexDescriptors), Ordered(iy),
           NEW s \in 0 .. Len(ix), Len(ix) = Len(iy),
           NEW a \in ListFrom(ix, s), NEW e \in 1 .. Len(ix),
           ix[a].next = 0, ix[e].next = 0, e # a, iy[a].next = e,
           \A n \in 1 .. Len(ix) : n # a => iy[n].next = ix[n].next
    PROVE  ListFrom(iy, s) = ListFrom(ix, s) \union {e}
  <1>1. s \in 0 .. Len(iy)
    OBVIOUS
  <1>2. PICK S : S = ListFrom(ix, s)
    OBVIOUS
  <1>3. PICK R : R = ListFrom(iy, s)
    OBVIOUS
  <1>4. /\ s # 0 => s \in S
        /\ \A n \in S : ix[n].next # 0 => ix[n].next \in S
        /\ S \subseteq 1 .. Len(ix)
    BY <1>2, ListMembers
  <1>5. /\ s # 0 => s \in R
        /\ \A n \in R : iy[n].next # 0 => iy[n].next \in R
    BY <1>1, <1>3, ListMembers
  <1>6. R \subseteq S \union {e}
    <2>1. PICK Q : Q = S \union {e}
      OBVIOUS
    <2>2. \A n \in 1 .. Len(iy) : n \in Q /\ iy[n].next # 0 => iy[n].next \in Q
      BY <1>4, <2>1
    <2>3. s # 0 => s \in Q
      BY <1>4, <2>1
    <2>4. R \subseteq Q
      BY <1>1, <1>3, <2>2, <2>3, ListLeast
    <2> QED
      BY <2>1, <2>4
  <1>7. S \subseteq R
    <2>1. PICK Q : Q = S \intersect R
      OBVIOUS
    <2>2. \A n \in 1 .. Len(ix) : n \in Q /\ ix[n].next # 0 => ix[n].next \in Q
      BY <1>4, <1>5, <2>1
    <2>3. s # 0 => s \in Q
      BY <1>4, <1>5, <2>1
    <2>4. S \subseteq Q
      BY <1>2, <2>2, <2>3, ListLeast
    <2> QED
      BY <2>1, <2>4
  <1>8. e \in R
    BY <1>2, <1>5, <1>7
  <1> QED
    BY <1>2, <1>3, <1>6, <1>7, <1>8

----------------------------------------------------------------------------
(* Constants and copies of a map                                           *)

\* What the assumption on the constants says of banks, slots and copies.
LEMMA ConstantFacts ==
    /\ BankSize \in Nat \ {0} /\ Redundancy \in Nat
    /\ 1 \in Copies /\ Copies \subseteq Nat
    /\ 0 \in Banks
    /\ \A k \in Keys : BankOf(k) \in Banks /\ Slot(k) \in 0 .. BankSize - 1
    /\ NoBanks \in BankMaps
    /\ \A b \in Banks : Descriptor(b) \in IndexDescriptors
    /\ \A f \in BankMaps : f # Invalid
  <1>1. BankSize \in Nat \ {0} /\ Redundancy \in Nat /\ Keys \subseteq Nat
    BY StoreIndexConstants
  <1>2. 1 \in Copies /\ Copies \subseteq Nat
    BY <1>1 DEF Copies
  <1>3. 0 \in Banks /\ \A k \in Keys : BankOf(k) \in Banks
    BY DEF Banks
  <1>4. \A k \in Keys : Slot(k) \in 0 .. BankSize - 1
    BY <1>1 DEF Slot
  <1>5. NoBanks \in BankMaps
    BY DEF NoBanks, BankMaps
  <1>6. \A b \in Banks : Descriptor(b) \in IndexDescriptors
    BY DEF Descriptor, IndexDescriptors
  <1>7. ASSUME NEW f \in BankMaps PROVE f # Invalid
    <2>1. DOMAIN f = Banks
      BY DEF BankMaps
    <2>2. DOMAIN Invalid = {}
      BY DEF Invalid
    <2> QED
      BY <1>3, <2>1, <2>2
  <1> QED
    BY <1>1, <1>2, <1>3, <1>4, <1>5, <1>6, <1>7

\* The copy that is trusted is the first valid one, and the only one that can be.
LEMMA FirstValidIs ==
    ASSUME NEW copies, NEW c \in Copies, copies[c] # Invalid
    PROVE  /\ FirstValid(copies) \in Copies
           /\ copies[FirstValid(copies)] # Invalid
           /\ \A d \in 1 .. FirstValid(copies) - 1 : copies[d] = Invalid
  <1> DEFINE T == {d \in Copies : copies[d] # Invalid}
  <1>1. T \in SUBSET Nat /\ T # {}
    BY ConstantFacts
  <1>2. PICK e \in T : \A d \in T : e <= d
    <2> HIDE DEF T
    <2> QED
      BY <1>1, LeastNatural
  <1>3. \A d \in 1 .. e - 1 : copies[d] = Invalid
    <2>1. ASSUME NEW d \in 1 .. e - 1 PROVE d \in Copies /\ ~(e <= d)
      BY <1>2, ConstantFacts DEF Copies
    <2> QED
      BY <1>2, <2>1
  <1>4. e \in Copies /\ copies[e] # Invalid
    OBVIOUS
  <1> HIDE DEF T
  <1> QED
    BY <1>3, <1>4 DEF FirstValid

\* There is one first valid copy.
LEMMA FirstValidOnly ==
    ASSUME NEW copies, NEW c \in Copies, copies[c] # Invalid, \A d \in 1 .. c - 1 : copies[d] = Invalid
    PROVE  FirstValid(copies) = c
  <1>1. PICK e : e = FirstValid(copies)
    OBVIOUS
  <1>2. e \in Copies /\ copies[e] # Invalid /\ \A d \in 1 .. e - 1 : copies[d] = Invalid
    BY <1>1, FirstValidIs
  <1>3. ~(e < c) /\ ~(c < e) /\ e \in Nat /\ c \in Nat
    BY <1>2, ConstantFacts DEF Copies
  <1> QED
    BY <1>1, <1>3

\* A sequence with an element replaced, or one more.
LEMMA Replaced ==
    ASSUME NEW T, NEW q \in Seq(T), NEW i \in 1 .. Len(q), NEW e \in T
    PROVE  /\ [q EXCEPT ![i] = e] \in Seq(T)
           /\ Len([q EXCEPT ![i] = e]) = Len(q)
           /\ [q EXCEPT ![i] = e][i] = e
           /\ \A j \in 1 .. Len(q) : j # i => [q EXCEPT ![i] = e][j] = q[j]
  OBVIOUS

LEMMA OneMore ==
    ASSUME NEW T, NEW q \in Seq(T), NEW e \in T
    PROVE  /\ Append(q, e) \in Seq(T)
           /\ Len(Append(q, e)) = Len(q) + 1
           /\ Append(q, e)[Len(q) + 1] = e
           /\ \A j \in 1 .. Len(q) : Append(q, e)[j] = q[j]
  OBVIOUS

\* A descriptor has its four fields.
LEMMA DescriptorFacts ==
    ASSUME NEW d \in IndexDescriptors
    PROVE  /\ d.range \in Banks /\ d.next \in Nat /\ d.map \in Nat
           /\ \A s \in 0 .. BankSize - 1 : d.slot[s] \in Nat
           /\ DOMAIN d.slot = 0 .. BankSize - 1
  BY DEF IndexDescriptors

\* What is trusted of a readable map is a bank map that names descriptors.
LEMMA TrustedFacts ==
    ASSUME NEW ix \in Seq(IndexDescriptors), NEW ms \in Seq(MapCopies), AllName(ix, ms),
           NEW m \in 1 .. Len(ms), IsReadable(ms[m])
    PROVE  TrustedOf(ms[m]) \in BankMaps /\ Names(ix, TrustedOf(ms[m]))
  <1>1. PICK c \in Copies : ms[m][c] # Invalid
    BY DEF IsReadable
  <1>2. FirstValid(ms[m]) \in Copies /\ ms[m][FirstValid(ms[m])] # Invalid
    BY <1>1, FirstValidIs
  <1>3. ms[m] \in MapCopies
    OBVIOUS
  <1>4. ms[m][FirstValid(ms[m])] \in BankMaps
    BY <1>2, <1>3 DEF MapCopies, Contents
  <1>5. Names(ix, ms[m][FirstValid(ms[m])])
    BY <1>2 DEF AllName
  <1> QED
    BY <1>4, <1>5 DEF TrustedOf

\* What a bank map names is a descriptor of its range.
LEMMA NamesFacts ==
    ASSUME NEW ix \in Seq(IndexDescriptors), NEW f \in BankMaps, Names(ix, f), NEW b \in Banks, f[b] # 0
    PROVE  f[b] \in 1 .. Len(ix) /\ ix[f[b]].range = b
  BY DEF Names, BankMaps

\* Names, and with them the maps, hold on to descriptors that keep their ranges.
LEMMA NamesKept ==
    ASSUME NEW ix \in Seq(IndexDescriptors), NEW iy \in Seq(IndexDescriptors), Len(ix) <= Len(iy),
           \A n \in 1 .. Len(ix) : iy[n].range = ix[n].range,
           NEW f \in Contents, Names(ix, f)
    PROVE  Names(iy, f)
  <1>1. CASE f = Invalid
    BY <1>1 DEF Names, Invalid
  <1>2. CASE f \in BankMaps
    <2>1. DOMAIN f = Banks
      BY <1>2 DEF BankMaps
    <2>2. ASSUME NEW b \in Banks, f[b] # 0 PROVE f[b] <= Len(iy) /\ iy[f[b]].range = b
      <3>1. f[b] \in 1 .. Len(ix) /\ ix[f[b]].range = b
        BY <1>2, <2>2, NamesFacts
      <3> QED
        BY <3>1
    <2> QED
      BY <2>1, <2>2 DEF Names
  <1> QED
    BY <1>1, <1>2 DEF Contents

\* The same of all copies of all maps.
LEMMA AllNameKept ==
    ASSUME NEW ix \in Seq(IndexDescriptors), NEW iy \in Seq(IndexDescriptors), Len(ix) <= Len(iy),
           \A n \in 1 .. Len(ix) : iy[n].range = ix[n].range,
           NEW ms \in Seq(MapCopies), AllName(ix, ms)
    PROVE  AllName(iy, ms)
  <1>1. ASSUME NEW m \in 1 .. Len(ms), NEW c \in Copies PROVE Names(iy, ms[m][c])
    <2>1. ms[m] \in MapCopies /\ Names(ix, ms[m][c])
      BY DEF AllName
    <2>2. ms[m][c] \in Contents
      BY <2>1 DEF MapCopies
    <2> QED
      BY <2>1, <2>2, NamesKept
  <1> QED
    BY <1>1 DEF AllName

\* The list and the slots are kept: what was found is still found.
Grows(ix, iy, ch, di) ==
    /\ \A n \in 1 .. Len(ix) : iy[n].range = ix[n].range
    /\ \A n \in 1 .. Len(ix) : \A k \in Keys : HoldsIn(ix, ch, n, k) => HoldsIn(iy, di, n, k)
    /\ ListFrom(ix, 1) \subseteq ListFrom(iy, 1)
    /\ iy[1].map = ix[1].map

\* What was found is still found in an index that has grown.
LEMMA FoundKept ==
    ASSUME NEW ix \in Seq(IndexDescriptors), Len(ix) >= 1, Ordered(ix),
           NEW ms \in Seq(MapCopies), AllName(ix, ms), ix[1].map \in 0 .. Len(ms),
           NEW iy, NEW ch, NEW di, Grows(ix, iy, ch, di),
           NEW k \in Keys, FoundIn(ix, ms, ch, k)
    PROVE  FoundIn(iy, ms, di, k)
  <1>1. PICK m : m = ix[1].map /\ m = iy[1].map
    BY DEF Grows
  <1>2. CASE m # 0
    <2>1. IsReadable(ms[m]) /\ BankHolds(ix, ch, TrustedOf(ms[m]), k)
      BY <1>1, <1>2 DEF FoundIn
    <2>2. PICK f : f = TrustedOf(ms[m])
      OBVIOUS
    <2>3. f \in BankMaps /\ Names(ix, f)
      BY <1>1, <1>2, <2>1, <2>2, TrustedFacts
    <2>4. f[BankOf(k)] # 0 /\ HoldsIn(ix, ch, f[BankOf(k)], k)
      BY <2>1, <2>2 DEF BankHolds
    <2>5. f[BankOf(k)] \in 1 .. Len(ix)
      BY <2>3, <2>4, NamesFacts, ConstantFacts
    <2>6. HoldsIn(iy, di, f[BankOf(k)], k)
      BY <2>4, <2>5 DEF Grows
    <2> QED
      BY <1>1, <1>2, <2>1, <2>2, <2>4, <2>6 DEF FoundIn, BankHolds
  <1>3. CASE m = 0
    <2>1. PICK n \in ListFrom(ix, 1) : ix[n].range = BankOf(k) /\ HoldsIn(ix, ch, n, k)
      BY <1>1, <1>3 DEF FoundIn, ListHolds
    <2>2. n \in 1 .. Len(ix)
      BY <2>1, ListMembers
    <2>3. n \in ListFrom(iy, 1) /\ iy[n].range = BankOf(k) /\ HoldsIn(iy, di, n, k)
      BY <2>1, <2>2 DEF Grows
    <2> QED
      BY <1>1, <1>3, <2>3 DEF FoundIn, ListHolds
  <1> QED
    BY <1>2, <1>3

\* A copy of a map is overwritten.
Overwritten(ms, mt, m, c, v) == mt = [ms EXCEPT ![m][c] = v]

\* What the maps are then.
LEMMA CopyReplaced ==
    ASSUME NEW ms \in Seq(MapCopies), NEW m \in 1 .. Len(ms), NEW c \in Copies,
           NEW v \in Contents, NEW mt, Overwritten(ms, mt, m, c, v)
    PROVE  /\ mt \in Seq(MapCopies) /\ Len(mt) = Len(ms)
           /\ \A j \in 1 .. Len(ms) : j # m => mt[j] = ms[j]
           /\ mt[m][c] = v
           /\ \A d \in Copies : d # c => mt[m][d] = ms[m][d]
  <1>1. PICK e : e = [ms[m] EXCEPT ![c] = v]
    OBVIOUS
  <1>2. ms[m] \in MapCopies
    OBVIOUS
  <1>3. e \in MapCopies /\ e[c] = v /\ \A d \in Copies : d # c => e[d] = ms[m][d]
    BY <1>1, <1>2 DEF MapCopies
  <1>4. mt = [ms EXCEPT ![m] = e]
    BY <1>1 DEF Overwritten
  <1> QED
    BY <1>1, <1>3, <1>4, Replaced

\* A copy that names descriptors, or is torn, leaves all maps naming them.
LEMMA AllNameReplaced ==
    ASSUME NEW ix, NEW ms \in Seq(MapCopies), AllName(ix, ms), NEW m \in 1 .. Len(ms), NEW c \in Copies,
           NEW v \in Contents, Names(ix, v), NEW mt, Overwritten(ms, mt, m, c, v)
    PROVE  AllName(ix, mt)
  <1>1. /\ Len(mt) = Len(ms)
        /\ \A j \in 1 .. Len(ms) : j # m => mt[j] = ms[j]
        /\ mt[m][c] = v
        /\ \A d \in Copies : d # c => mt[m][d] = ms[m][d]
    BY CopyReplaced
  <1>2. ASSUME NEW j \in 1 .. Len(ms), NEW d \in Copies PROVE Names(ix, mt[j][d])
    BY <1>1 DEF AllName
  <1> QED
    BY <1>1, <1>2 DEF AllName

\* What the invariant says of the head and of the list, for any step.
LEMMA DiskFacts ==
    ASSUME Types, DiskInv
    PROVE  /\ index \in Seq(IndexDescriptors) /\ Len(index) \in Nat /\ 1 \in 1 .. Len(index)
           /\ \A n \in 1 .. Len(index) : index[n] \in IndexDescriptors
           /\ index[1].next \in 0 .. Len(index) /\ index[1].next # 1
           /\ 1 \in ListFrom(index, 1) /\ ListFrom(index, 1) \subseteq 1 .. Len(index)
           /\ index[1].map \in 0 .. Len(maps)
  <1>1. index \in Seq(IndexDescriptors) /\ Len(index) \in Nat /\ 1 \in 1 .. Len(index)
    BY DEF Types
  <1>2. \A n \in 1 .. Len(index) : index[n] \in IndexDescriptors
    BY <1>1
  <1>3. Ordered(index) /\ index[1].map \in 0 .. Len(maps)
    BY <1>1 DEF DiskInv, Linked
  <1>4. 1 \in ListFrom(index, 1) /\ ListFrom(index, 1) \subseteq 1 .. Len(index)
    <2>1. 1 \in 0 .. Len(index) /\ 1 # 0
      BY <1>1
    <2> QED
      BY <1>1, <1>3, <2>1, ListMembers
  <1>5. index[1].next \in Nat
    BY <1>1, <1>2, DescriptorFacts
  <1>6. index[1].next \in 0 .. Len(index) /\ index[1].next # 1
    BY <1>1, <1>3, <1>5 DEF Ordered
  <1> QED
    BY <1>1, <1>2, <1>3, <1>4, <1>6

\* A store that was just made satisfies the invariant.
LEMMA Initially == Init => IInv
  <1> SUFFICES ASSUME Init PROVE IInv
    OBVIOUS
  <1>1. /\ Descriptor(0) \in IndexDescriptors /\ NoBanks \in BankMaps /\ 1 \in Copies
        /\ Descriptor(0).next = 0 /\ Descriptor(0).map = 0 /\ Descriptor(0).range = 0
        /\ \A s \in 0 .. BankSize - 1 : Descriptor(0).slot[s] = 0
    BY ConstantFacts DEF Descriptor
  <1>2. index = <<Descriptor(0)>> /\ maps = <<>> /\ child = <<>>
    BY DEF Init
  <1>3. index \in Seq(IndexDescriptors) /\ Len(index) = 1 /\ index[1] = Descriptor(0)
    BY <1>1, <1>2
  <1>4. Types
    <2>1. maps \in Seq(MapCopies) /\ child \in Seq(Nat)
      BY <1>2
    <2>2. mem \in IndexDescriptors /\ bank \in BankMaps /\ copy \in Copies
      BY <1>1 DEF Init
    <2>3. pc \in PC /\ key \in Keys /\ converting \in BOOLEAN /\ cut \in BOOLEAN /\ uneven \in BOOLEAN
      BY DEF Init, PC
    <2>4. files \in Nat /\ at \in Nat /\ rest \in Nat /\ made \subseteq Keys /\ Len(index) >= 1
      BY <1>3 DEF Init
    <2> QED
      BY <1>3, <2>1, <2>2, <2>3, <2>4 DEF Types
  <1>5. Ordered(index)
    BY <1>1, <1>3 DEF Ordered
  <1>6. Linked(index, maps, child)
    BY <1>1, <1>2, <1>3 DEF Linked
  <1>7. AllName(index, maps)
    BY <1>2 DEF AllName
  <1>8. HeadTells(index)
    BY <1>1, <1>3 DEF HeadTells
  <1>9. Distinct(index, ListFrom(index, 1))
    <2>1. ListFrom(index, 1) \subseteq {1}
      BY <1>3, <1>5, ListMembers
    <2> QED
      BY <2>1 DEF Distinct
  <1>10. CallInv
    BY DEF Init, CallInv, InCall, InNode, InNewSibling, InLinkSibling, InNewBank, InCopies,
           InSlot, InHead, InSiblings
  <1>11. KeepInv
    BY DEF Init, KeepInv, Updating
  <1> QED
    BY <1>4, <1>5, <1>6, <1>7, <1>8, <1>9, <1>10, <1>11 DEF IInv, DiskInv

----------------------------------------------------------------------------
(* The calls, and the ways to a descriptor                                 *)

\* A call begins at the head.
LEMMA GetOrCreateFileInv ==
    ASSUME IInv, NEW k \in Keys, GetOrCreateFile(k)
    PROVE  IInv'
  <1>1. /\ pc = "idle" /\ pc' = "node" /\ at' = 1 /\ mem' = index[1]
        /\ key' = k /\ converting' = FALSE
        /\ UNCHANGED <<index, maps, child, files, bank, copy, rest, made, cut, uneven>>
    BY DEF GetOrCreateFile, Call, Load, diskVars
  <1>2. Types /\ DiskInv /\ KeepInv
    BY DEF IInv
  <1>3. /\ 1 \in 1 .. Len(index) /\ index[1] \in IndexDescriptors
        /\ 1 \in ListFrom(index, 1) /\ ListFrom(index, 1) \subseteq 1 .. Len(index)
    BY <1>2, DiskFacts
  <1>4. Types'
    BY <1>1, <1>2, <1>3 DEF Types, PC
  <1>5. DiskInv'
    BY <1>1, <1>2 DEF DiskInv
  <1>6. InNode'
    <2>1. ASSUME NEW j \in ListFrom(index, 1) PROVE j >= 1
      BY <1>3
    <2> QED
      BY <1>1, <1>3, <2>1 DEF InNode
  <1>7. CallInv'
    BY <1>1, <1>3, <1>6 DEF CallInv, InCall, InNewSibling, InLinkSibling, InNewBank, InCopies,
           InSlot, InHead, InSiblings
  <1>8. KeepInv'
    BY <1>1, <1>2 DEF KeepInv, Reliable, Between, Updating
  <1> QED
    BY <1>4, <1>5, <1>7, <1>8 DEF IInv

\* A conversion begins with room for a map, all of whose copies are invalid.
LEMMA ConvertInv ==
    ASSUME IInv, Convert
    PROVE  IInv'
  <1>1. /\ pc = "idle" /\ pc' = "head" /\ at' = 1 /\ index[1].map = 0
        /\ maps' = Append(maps, [c \in Copies |-> Invalid])
        /\ mem' = [index[1] EXCEPT !.map = Len(maps'), !.next = 0]
        /\ rest' = index[1].next /\ bank' = [NoBanks EXCEPT ![0] = 1] /\ copy' = 1
        /\ converting' = TRUE
        /\ UNCHANGED <<index, child, files, key, made, cut, uneven>>
    BY DEF Convert
  <1>2. Types /\ DiskInv /\ KeepInv
    BY DEF IInv
  <1>3. /\ Len(index) \in Nat /\ 1 \in 1 .. Len(index) /\ index[1] \in IndexDescriptors
        /\ index[1].next \in 0 .. Len(index)
    BY <1>2, DiskFacts
  <1>4. /\ maps' \in Seq(MapCopies) /\ Len(maps') = Len(maps) + 1 /\ Len(maps) \in Nat
        /\ maps'[Len(maps')] = [c \in Copies |-> Invalid]
        /\ \A m \in 1 .. Len(maps) : maps'[m] = maps[m]
    <2>1. maps \in Seq(MapCopies) /\ [c \in Copies |-> Invalid] \in MapCopies
      BY <1>2 DEF Types, MapCopies, Contents
    <2> QED
      BY <1>1, <2>1, OneMore
  <1>5. Types'
    <2>1. mem' \in IndexDescriptors
      <3>1. PICK d : d = index[1]
        OBVIOUS
      <3>2. PICK n \in Nat : n = Len(maps')
        BY <1>4
      <3>3. d \in IndexDescriptors
        BY <1>3, <3>1
      <3>4. [d EXCEPT !.map = n, !.next = 0] \in IndexDescriptors
        BY <3>3 DEF IndexDescriptors
      <3> QED
        BY <1>1, <3>1, <3>2, <3>4
    <2>2. bank' \in BankMaps
      BY <1>1, ConstantFacts DEF BankMaps
    <2> QED
      BY <1>1, <1>2, <1>3, <1>4, <2>1, <2>2, ConstantFacts DEF Types, PC
  <1>6. DiskInv'
    <2>1. Ordered(index') /\ HeadTells(index') /\ Distinct(index', ListFrom(index', 1))
      BY <1>1, <1>2 DEF DiskInv
    <2>2. Linked(index', maps', child')
      <3>1. \A m : m \in 0 .. Len(maps) => m \in 0 .. Len(maps')
        BY <1>4
      <3> QED
        BY <1>1, <1>2, <3>1 DEF DiskInv, Linked
    <2>3. AllName(index', maps')
      <3>1. ASSUME NEW m \in 1 .. Len(maps'), NEW c \in Copies PROVE Names(index', maps'[m][c])
        <4>1. CASE m = Len(maps')
          <5>1. maps'[m][c] = Invalid
            BY <1>4, <4>1
          <5> QED
            BY <5>1 DEF Names, Invalid
        <4>2. CASE m # Len(maps')
          <5>1. m \in 1 .. Len(maps) /\ maps'[m] = maps[m]
            BY <1>4, <4>2
          <5> QED
            BY <1>1, <1>2, <5>1 DEF DiskInv, AllName
        <4> QED
          BY <4>1, <4>2
      <3> QED
        BY <3>1 DEF AllName
    <2> QED
      BY <2>1, <2>2, <2>3 DEF DiskInv
  <1>7. InHead'
    BY <1>1, <1>4 DEF InHead, Listed
  <1>8. CallInv'
    BY <1>1, <1>3, <1>7 DEF CallInv, InCall, InNode, InNewSibling, InLinkSibling, InNewBank, InCopies,
           InSlot, InSiblings
  <1>9. KeepInv'
    <2>1. \A k : FoundIn(index, maps, child, k) => FoundIn(index', maps', child', k)
      BY <1>1 DEF FoundIn
    <2> QED
      BY <1>1, <1>2, <2>1 DEF KeepInv, Reliable, Between, Updating
  <1> QED
    BY <1>5, <1>6, <1>8, <1>9 DEF IInv

\* A call takes what the map names, or finds that it names nothing, or throws.
LEMMA ThroughMapInv ==
    ASSUME IInv, ThroughMap
    PROVE  IInv'
  <1>1. /\ pc = "node" /\ mem.map # 0
        /\ UNCHANGED <<index, maps, child, files, key, converting, copy, rest, made, cut, uneven>>
    BY DEF ThroughMap, diskVars, ghosts
  <1>2. Types /\ DiskInv /\ KeepInv /\ CallInv
    BY DEF IInv
  <1>3. /\ Len(index) \in Nat /\ 1 \in 1 .. Len(index) /\ index[1] \in IndexDescriptors
        /\ index[1].map \in 0 .. Len(maps) /\ index \in Seq(IndexDescriptors) /\ key \in Keys
        /\ \A n \in 1 .. Len(index) : index[n] \in IndexDescriptors
        /\ maps \in Seq(MapCopies)
    BY <1>2, DiskFacts DEF Types
  <1>4. ~converting /\ at \in 1 .. Len(index) /\ mem = index[at]
    BY <1>1, <1>2 DEF CallInv, InCall, InNode
  <1>5. ~Listed
    BY <1>1, <1>2, <1>4 DEF Listed, DiskInv, HeadTells
  <1>6. at = 1 /\ mem = index[1]
    BY <1>1, <1>2, <1>4, <1>5 DEF CallInv, InNode
  <1>7. mem.map \in 1 .. Len(maps)
    BY <1>1, <1>3, <1>6
  <1>8. DiskInv'
    BY <1>1, <1>2 DEF DiskInv
  <1>9. ASSUME pc' \in {"idle", "newbank", "slot"} PROVE KeepInv'
    BY <1>1, <1>2, <1>9 DEF KeepInv, Reliable, Between, Updating
  <1>10. CASE ~Readable(mem.map)
    <2>1. pc' = "idle" /\ UNCHANGED <<at, mem, bank>>
      BY <1>10 DEF ThroughMap
    <2>2. Types'
      BY <1>1, <1>2, <2>1 DEF Types, PC
    <2>3. CallInv'
      BY <2>1 DEF CallInv, InCall, InNode, InNewSibling, InLinkSibling, InNewBank, InCopies,
           InSlot, InHead, InSiblings
    <2> QED
      BY <1>8, <1>9, <2>1, <2>2, <2>3 DEF IInv
  <1>11. CASE Readable(mem.map)
    <2>1. IsReadable(maps[mem.map]) /\ Trusted(mem.map) = TrustedOf(maps[mem.map])
      BY <1>11 DEF Readable, IsReadable, Trusted, TrustedOf
    <2>2. bank' = TrustedOf(maps[mem.map])
      BY <1>11, <2>1 DEF ThroughMap
    <2>3. bank' \in BankMaps /\ Names(index, bank')
      BY <1>2, <1>3, <1>7, <2>1, <2>2, TrustedFacts DEF DiskInv
    <2>4. BankOf(key) \in Banks
      BY <1>3, ConstantFacts
    <2>5. CASE bank'[BankOf(key)] = 0
      <3>1. pc' = "newbank" /\ UNCHANGED <<at, mem>>
        BY <1>11, <2>5 DEF ThroughMap
      <3>2. Types'
        BY <1>1, <1>2, <2>3, <3>1 DEF Types, PC
      <3>3. InNewBank'
        BY <1>1, <1>5, <1>6, <2>1, <2>2, <2>3, <2>5, <3>1 DEF InNewBank, AtMap, Listed
      <3>4. CallInv'
        BY <1>1, <1>4, <3>1, <3>3 DEF CallInv, InCall, InNode, InNewSibling, InLinkSibling, InCopies,
             InSlot, InHead, InSiblings
      <3> QED
        BY <1>8, <1>9, <3>1, <3>2, <3>4 DEF IInv
    <2>6. CASE bank'[BankOf(key)] # 0
      <3>1. pc' = "slot" /\ at' = bank'[BankOf(key)] /\ mem' = index[at']
        BY <1>11, <2>6 DEF ThroughMap, Load
      <3>2. at' \in 1 .. Len(index)
        BY <1>3, <2>3, <2>4, <2>6, <3>1, NamesFacts
      <3>3. mem' \in IndexDescriptors /\ at' \in Nat
        BY <1>3, <3>1, <3>2
      <3>4. Types'
        BY <1>1, <1>2, <2>3, <3>1, <3>3 DEF Types, PC
      <3>5. InSlot'
        BY <1>1, <1>5, <1>6, <2>1, <2>2, <3>1 DEF InSlot, Target, Listed
      <3>6. CallInv'
        BY <1>1, <1>4, <3>1, <3>2, <3>5 DEF CallInv, InCall, InNode, InNewSibling, InLinkSibling, InNewBank,
             InCopies, InHead, InSiblings
      <3> QED
        BY <1>8, <1>9, <3>1, <3>4, <3>6 DEF IInv
    <2> QED
      BY <2>5, <2>6
  <1> QED
    BY <1>10, <1>11

\* A call goes on along the list, which has no descriptor of its range before where it is.
LEMMA ThroughListInv ==
    ASSUME IInv, ThroughList
    PROVE  IInv'
  <1>1. /\ pc = "node" /\ mem.map = 0
        /\ UNCHANGED <<index, maps, child, files, key, converting, bank, copy, rest, made, cut, uneven>>
    BY DEF ThroughList, diskVars, ghosts
  <1>2. Types /\ DiskInv /\ KeepInv /\ CallInv
    BY DEF IInv
  <1>3. /\ Len(index) \in Nat /\ 1 \in 1 .. Len(index)
        /\ index \in Seq(IndexDescriptors) /\ key \in Keys
        /\ \A n \in 1 .. Len(index) : index[n] \in IndexDescriptors
        /\ ListFrom(index, 1) \subseteq 1 .. Len(index)
    BY <1>2, DiskFacts DEF Types
  <1>4. ~converting /\ at \in 1 .. Len(index) /\ mem = index[at]
    BY <1>1, <1>2 DEF CallInv, InCall, InNode
  <1>5. Listed
    BY <1>1, <1>2, <1>4 DEF Listed, CallInv, InNode
  <1>6. /\ at \in ListFrom(index, 1)
        /\ \A j \in ListFrom(index, 1) : index[j].range = BankOf(key) => j >= at
    BY <1>1, <1>2, <1>5 DEF CallInv, InNode
  <1>7. /\ \A n \in ListFrom(index, 1) : index[n].next # 0 => index[n].next \in ListFrom(index, 1)
        /\ \A i, j \in ListFrom(index, 1) : i < j => index[i].next # 0 /\ index[i].next <= j
    <2>1. 1 \in 0 .. Len(index) /\ Ordered(index)
      BY <1>2, <1>3 DEF DiskInv
    <2> QED
      BY <1>3, <2>1, ListMembers
  <1>8. DiskInv'
    BY <1>1, <1>2 DEF DiskInv
  <1>9. ASSUME pc' \in {"node", "newsibling", "slot"} PROVE KeepInv'
    BY <1>1, <1>2, <1>9 DEF KeepInv, Reliable, Between, Updating
  <1>10. CASE mem.range = BankOf(key)
    <2>1. pc' = "slot" /\ UNCHANGED <<at, mem>>
      BY <1>10 DEF ThroughList
    <2>2. Types'
      BY <1>1, <1>2, <2>1 DEF Types, PC
    <2>3. InSlot'
      BY <1>1, <1>4, <1>5, <1>6, <1>10, <2>1 DEF InSlot, Target, Listed
    <2>4. CallInv'
      BY <1>1, <1>4, <2>1, <2>3 DEF CallInv, InCall, InNode, InNewSibling, InLinkSibling, InNewBank, InCopies,
           InHead, InSiblings
    <2> QED
      BY <1>8, <1>9, <2>1, <2>2, <2>4 DEF IInv
  <1>11. CASE mem.range # BankOf(key) /\ mem.next = 0
    <2>1. pc' = "newsibling" /\ UNCHANGED <<at, mem>>
      BY <1>11 DEF ThroughList
    <2>2. Types'
      BY <1>1, <1>2, <2>1 DEF Types, PC
    <2>3. Absent
      <3>1. ASSUME NEW j \in ListFrom(index, 1), index[j].range = BankOf(key) PROVE FALSE
        <4>1. j >= at /\ j # at
          BY <1>4, <1>6, <1>11, <3>1
        <4>2. at < j
          BY <1>3, <1>4, <4>1
        <4> QED
          BY <1>4, <1>6, <1>7, <1>11, <4>2
      <3> QED
        BY <3>1 DEF Absent
    <2>4. InNewSibling'
      BY <1>1, <1>4, <1>5, <1>6, <1>11, <2>1, <2>3 DEF InNewSibling, Absent, Listed
    <2>5. CallInv'
      BY <1>1, <1>4, <2>1, <2>4 DEF CallInv, InCall, InNode, InLinkSibling, InNewBank, InCopies,
           InSlot, InHead, InSiblings
    <2> QED
      BY <1>8, <1>9, <2>1, <2>2, <2>5 DEF IInv
  <1>12. CASE mem.range # BankOf(key) /\ mem.next # 0
    <2>1. pc' = "node" /\ at' = mem.next /\ mem' = index[mem.next]
      BY <1>1, <1>12 DEF ThroughList, Load
    <2>2. at' \in ListFrom(index, 1) /\ at' \in 1 .. Len(index)
      BY <1>3, <1>4, <1>6, <1>7, <1>12, <2>1
    <2>3. mem' \in IndexDescriptors /\ at' \in Nat
      BY <1>3, <2>1, <2>2
    <2>4. Types'
      BY <1>1, <1>2, <2>1, <2>3 DEF Types, PC
    <2>5. ASSUME NEW j \in ListFrom(index, 1), index[j].range = BankOf(key) PROVE j >= at'
      <3>1. j >= at /\ j # at
        BY <1>4, <1>6, <1>12, <2>5
      <3>2. at < j
        BY <1>3, <1>4, <3>1
      <3>3. at' <= j
        BY <1>4, <1>6, <1>7, <2>1, <3>2
      <3> QED
        BY <1>3, <2>3, <3>3
    <2>6. InNode'
      BY <1>1, <1>5, <2>1, <2>2, <2>5 DEF InNode, Listed
    <2>7. CallInv'
      BY <1>1, <1>4, <2>1, <2>2, <2>6 DEF CallInv, InCall, InNewSibling, InLinkSibling, InNewBank, InCopies,
           InSlot, InHead, InSiblings
    <2> QED
      BY <1>8, <1>9, <2>1, <2>4, <2>7 DEF IInv
  <1> QED
    BY <1>10, <1>11, <1>12

\* A descriptor that nothing leads to changes nothing.
LEMMA Appended ==
    ASSUME Types, DiskInv, NEW b \in Banks, index' = Append(index, Descriptor(b)),
           UNCHANGED <<maps, child>>
    PROVE  /\ index' \in Seq(IndexDescriptors)
           /\ Len(index') = Len(index) + 1
           /\ index'[Len(index')] = Descriptor(b)
           /\ \A n \in 1 .. Len(index) : index'[n] = index[n]
           /\ ListFrom(index', 1) = ListFrom(index, 1)
           /\ DiskInv'
           /\ \A k \in Keys : FoundIn(index, maps, child, k) => FoundIn(index', maps', child', k)
  <1>1. /\ index \in Seq(IndexDescriptors) /\ Len(index) \in Nat /\ 1 \in 1 .. Len(index)
        /\ ListFrom(index, 1) \subseteq 1 .. Len(index)
        /\ index[1].map \in 0 .. Len(maps)
        /\ \A n \in 1 .. Len(index) : index[n] \in IndexDescriptors
    BY DiskFacts
  <1>2. PICK iy : iy = index'
    OBVIOUS
  <1>3. /\ iy \in Seq(IndexDescriptors) /\ Len(iy) = Len(index) + 1
        /\ iy[Len(iy)] = Descriptor(b)
        /\ \A n \in 1 .. Len(index) : iy[n] = index[n]
    <2>1. Descriptor(b) \in IndexDescriptors
      BY ConstantFacts
    <2> QED
      BY <1>1, <1>2, <2>1, OneMore
  <1>4. /\ Descriptor(b).next = 0 /\ Descriptor(b).map = 0
        /\ \A s \in 0 .. BankSize - 1 : Descriptor(b).slot[s] = 0
    BY DEF Descriptor
  <1>5. ASSUME NEW n \in 1 .. Len(iy) PROVE n \in 1 .. Len(index) \/ n = Len(iy)
    BY <1>1, <1>3
  <1>6. Ordered(iy)
    <2>1. ASSUME NEW n \in 1 .. Len(iy), iy[n].next # 0 PROVE iy[n].next \in n + 1 .. Len(iy)
      <3>1. n \in 1 .. Len(index) /\ iy[n] = index[n]
        BY <1>3, <1>4, <1>5, <2>1
      <3>2. index[n].next \in n + 1 .. Len(index)
        BY <2>1, <3>1 DEF DiskInv, Ordered
      <3> QED
        BY <1>1, <1>3, <3>1, <3>2
    <2> QED
      BY <2>1 DEF Ordered
  <1>7. Linked(iy, maps, child)
    <2>1. Len(maps) \in Nat /\ Len(child) \in Nat
      BY DEF Types
    <2>2. ASSUME NEW n \in 1 .. Len(iy)
          PROVE  /\ iy[n].map \in 0 .. Len(maps)
                 /\ \A s \in 0 .. BankSize - 1 : iy[n].slot[s] \in 0 .. Len(child)
      <3>1. CASE n \in 1 .. Len(index)
        BY <1>3, <3>1 DEF DiskInv, Linked
      <3>2. CASE n = Len(iy)
        BY <1>3, <1>4, <2>1, <3>2
      <3> QED
        BY <1>5, <3>1, <3>2
    <2> QED
      BY <2>2 DEF Linked
  <1>8. AllName(iy, maps)
    <2>1. maps \in Seq(MapCopies) /\ AllName(index, maps)
      BY DEF Types, DiskInv
    <2>2. Len(index) <= Len(iy)
      BY <1>1, <1>3
    <2>3. \A n \in 1 .. Len(index) : iy[n].range = index[n].range
      BY <1>3
    <2> QED
      BY <1>1, <1>3, <2>1, <2>2, <2>3, AllNameKept
  <1>9. HeadTells(iy)
    <2>1. iy[1] = index[1]
      BY <1>1, <1>3
    <2>2. ASSUME index[1].map = 0, NEW n \in 1 .. Len(iy) PROVE iy[n].map = 0
      <3>1. \A m \in 1 .. Len(index) : index[m].map = 0
        BY <2>2 DEF DiskInv, HeadTells
      <3> QED
        BY <1>3, <1>4, <1>5, <3>1
    <2> QED
      BY <2>1, <2>2 DEF DiskInv, HeadTells
  <1>10. ListFrom(iy, 1) = ListFrom(index, 1)
    <2>1. \A n \in ListFrom(index, 1) : iy[n].next = index[n].next
      BY <1>1, <1>3
    <2>2. 1 \in 0 .. Len(index) /\ Len(index) <= Len(iy) /\ Ordered(index)
      BY <1>1, <1>3 DEF DiskInv
    <2> QED
      BY <1>1, <1>3, <1>6, <2>1, <2>2, ListSame
  <1>11. Distinct(iy, ListFrom(iy, 1))
    <2>1. \A n \in ListFrom(index, 1) : iy[n] = index[n]
      BY <1>1, <1>3
    <2> QED
      BY <1>10, <2>1 DEF DiskInv, Distinct
  <1>12. ASSUME NEW k \in Keys, FoundIn(index, maps, child, k) PROVE FoundIn(iy, maps, child, k)
    <2>1. Grows(index, iy, child, child)
      BY <1>1, <1>3, <1>10 DEF Grows, HoldsIn
    <2>2. maps \in Seq(MapCopies) /\ AllName(index, maps) /\ Ordered(index) /\ Len(index) >= 1
      BY DEF Types, DiskInv
    <2> QED
      BY <1>1, <1>12, <2>1, <2>2, FoundKept
  <1>13. DiskInv'
    BY <1>2, <1>6, <1>7, <1>8, <1>9, <1>11 DEF DiskInv
  <1> QED
    BY <1>2, <1>3, <1>10, <1>12, <1>13

\* A descriptor is appended and entered in the bank map in memory: the disk is as it was.
LEMMA NewBankInv ==
    ASSUME IInv, NewBank
    PROVE  IInv'
  <1>1. /\ pc = "newbank" /\ pc' = "tear" /\ copy' = 1
        /\ index' = Append(index, Descriptor(BankOf(key)))
        /\ bank' = [bank EXCEPT ![BankOf(key)] = Len(index')]
        /\ uneven' = (uneven \/ ~Even(mem.map))
        /\ UNCHANGED <<maps, child, files, key, converting, at, mem, rest, made, cut>>
    BY DEF NewBank
  <1>2. Types /\ DiskInv /\ KeepInv /\ CallInv
    BY DEF IInv
  <1>3. /\ AtMap /\ IsReadable(maps[mem.map]) /\ ~converting /\ at \in 1 .. Len(index)
        /\ bank = TrustedOf(maps[mem.map]) /\ bank[BankOf(key)] = 0
    BY <1>1, <1>2 DEF CallInv, InNewBank, InCall
  <1>4. BankOf(key) \in Banks /\ bank \in BankMaps /\ made \subseteq Keys
    BY <1>2, ConstantFacts DEF Types
  <1>5. /\ index' \in Seq(IndexDescriptors)
        /\ Len(index') = Len(index) + 1
        /\ index'[Len(index')] = Descriptor(BankOf(key))
        /\ \A n \in 1 .. Len(index) : index'[n] = index[n]
        /\ DiskInv'
        /\ \A k \in Keys : FoundIn(index, maps, child, k) => FoundIn(index', maps', child', k)
    BY <1>1, <1>2, <1>4, Appended
  <1>6. Len(index) \in Nat /\ 1 \in 1 .. Len(index) /\ index \in Seq(IndexDescriptors)
    BY <1>2, DiskFacts
  <1>7. bank' \in BankMaps /\ bank'[BankOf(key)] = Len(index')
        /\ \A b \in Banks : b # BankOf(key) => bank'[b] = bank[b]
    BY <1>1, <1>4, <1>5, <1>6 DEF BankMaps
  <1>8. Types'
    <2>1. Len(index') >= 1
      BY <1>5, <1>6
    <2>2. uneven' \in BOOLEAN
      BY <1>1, Zenon
    <2>3. UNCHANGED <<maps, child, files, key, converting, at, mem, rest, made, cut>> /\ pc' \in PC
      BY <1>1 DEF PC
    <2>4. copy' \in Copies
      BY <1>1, ConstantFacts
    <2> QED
      BY <1>2, <1>5, <1>7, <2>1, <2>2, <2>3, <2>4 DEF Types
  <1>9. AtMap'
    <2>1. Names(index', bank')
      <3>1. DOMAIN bank' = Banks
        BY <1>7 DEF BankMaps
      <3>2. ASSUME NEW b \in Banks, bank'[b] # 0 PROVE bank'[b] <= Len(index') /\ index'[bank'[b]].range = b
        <4>1. CASE b = BankOf(key)
          BY <1>5, <1>6, <1>7, <4>1 DEF Descriptor
        <4>2. CASE b # BankOf(key)
          <5>1. bank'[b] = bank[b] /\ bank[b] # 0
            BY <1>7, <3>2, <4>2
          <5>2. bank[b] \in 1 .. Len(index) /\ index[bank[b]].range = b
            BY <1>3, <1>4, <1>6, <5>1, NamesFacts DEF AtMap
          <5> QED
            BY <1>5, <1>6, <5>1, <5>2
        <4> QED
          BY <4>1, <4>2
      <3> QED
        BY <3>1, <3>2 DEF Names
    <2>2. index'[1] = index[1]
      BY <1>5, <1>6
    <2> QED
      BY <1>1, <1>3, <2>1, <2>2 DEF AtMap, Listed
  <1>10. InCopies'
    <2>1. bank'[BankOf(key)] # 0
      BY <1>5, <1>6, <1>7
    <2> QED
      BY <1>1, <1>9, <2>1 DEF InCopies
  <1>11. CallInv'
    <2>1. at' \in 1 .. Len(index')
      BY <1>1, <1>3, <1>5, <1>6
    <2> QED
      BY <1>1, <1>10, <2>1 DEF CallInv, InCall, InNode, InNewSibling, InLinkSibling, InNewBank,
             InSlot, InHead, InSiblings
  <1>12. KeepInv'
    <2>1. SUFFICES ASSUME Reliable' PROVE /\ \A k \in made : FoundIn(index', maps', child', k)
                                          /\ IsReadable(maps[mem.map])
                                          /\ TrustedOf(maps[mem.map]) = [bank' EXCEPT ![BankOf(key)] = 0]
                                          /\ IsEven(maps[mem.map])
      BY <1>1, <1>3 DEF KeepInv, Between
    <2>2. ~uneven /\ Even(mem.map) /\ Redundancy > 0 /\ ~cut
      BY <1>1, <2>1, Zenon DEF Reliable
    <2>3. \A k \in made : FoundIn(index', maps', child', k)
      <3>1. \A k \in made : FoundIn(index, maps, child, k)
        BY <1>1, <1>2, <2>2 DEF KeepInv, Reliable, Between
      <3> QED
        BY <1>4, <1>5, <3>1
    <2>4. IsEven(maps[mem.map])
      BY <2>2 DEF Even, IsEven, Trusted, TrustedOf
    <2>5. [bank' EXCEPT ![BankOf(key)] = 0] = bank
      BY <1>1, <1>3, <1>4 DEF BankMaps
    <2> QED
      BY <1>3, <2>3, <2>4, <2>5
  <1> QED
    BY <1>5, <1>8, <1>11, <1>12 DEF IInv

\* A descriptor is appended for a range that the list does not have.
LEMMA NewSiblingInv ==
    ASSUME IInv, NewSibling
    PROVE  IInv'
  <1>1. /\ pc = "newsibling" /\ pc' = "linksibling"
        /\ index' = Append(index, Descriptor(BankOf(key)))
        /\ mem' = [mem EXCEPT !.next = Len(index')]
        /\ UNCHANGED <<maps, child, files, key, converting, at, bank, copy, rest, made, cut, uneven>>
    BY DEF NewSibling, ghosts
  <1>2. Types /\ DiskInv /\ KeepInv /\ CallInv
    BY DEF IInv
  <1>3. /\ Listed /\ at \in ListFrom(index, 1) /\ mem = index[at] /\ mem.next = 0 /\ Absent
        /\ ~converting /\ at \in 1 .. Len(index)
    BY <1>1, <1>2 DEF CallInv, InNewSibling, InCall
  <1>4. BankOf(key) \in Banks /\ made \subseteq Keys
    BY <1>2, ConstantFacts DEF Types
  <1>5. /\ index' \in Seq(IndexDescriptors)
        /\ Len(index') = Len(index) + 1
        /\ index'[Len(index')] = Descriptor(BankOf(key))
        /\ \A n \in 1 .. Len(index) : index'[n] = index[n]
        /\ ListFrom(index', 1) = ListFrom(index, 1)
        /\ DiskInv'
        /\ \A k \in Keys : FoundIn(index, maps, child, k) => FoundIn(index', maps', child', k)
    BY <1>1, <1>2, <1>4, Appended
  <1>6. /\ Len(index) \in Nat /\ 1 \in 1 .. Len(index) /\ index \in Seq(IndexDescriptors)
        /\ ListFrom(index, 1) \subseteq 1 .. Len(index)
    BY <1>2, DiskFacts
  <1>7. mem' \in IndexDescriptors
    <2>1. PICK d : d = mem
      OBVIOUS
    <2>2. PICK n \in Nat : n = Len(index')
      BY <1>5, <1>6
    <2>3. d \in IndexDescriptors
      BY <1>2, <2>1 DEF Types
    <2>4. [d EXCEPT !.next = n] \in IndexDescriptors
      BY <2>3 DEF IndexDescriptors
    <2> QED
      BY <1>1, <2>1, <2>2, <2>4
  <1>8. Types'
    <2>1. Len(index') >= 1
      BY <1>5, <1>6
    <2>2. UNCHANGED <<maps, child, files, key, converting, at, bank, copy, rest, made, cut, uneven>> /\ pc' \in PC
      BY <1>1 DEF PC
    <2> QED
      BY <1>2, <1>5, <1>7, <2>1, <2>2 DEF Types
  <1>9. InLinkSibling'
    <2>1. index'[at] = index[at] /\ index'[1] = index[1]
      BY <1>3, <1>5, <1>6
    <2>2. at < Len(index')
      BY <1>3, <1>5, <1>6
    <2>3. \A j \in ListFrom(index', 1) : index'[j].range # BankOf(key)
      BY <1>3, <1>5, <1>6 DEF Absent
    <2>4. index'[1].map = 0 /\ at \in ListFrom(index', 1) /\ index'[at].next = 0
      BY <1>3, <1>5, <2>1 DEF Listed
    <2>5. mem' = [index'[at] EXCEPT !.next = Len(index')]
      BY <1>1, <1>3, <2>1
    <2> QED
      BY <1>1, <1>5, <2>2, <2>3, <2>4, <2>5 DEF InLinkSibling, Listed, Absent
  <1>10. CallInv'
    <2>1. at' \in 1 .. Len(index')
      BY <1>1, <1>3, <1>5, <1>6
    <2> QED
      BY <1>1, <1>3, <1>9, <2>1 DEF CallInv, InCall, InNode, InNewSibling, InNewBank, InCopies,
             InSlot, InHead, InSiblings
  <1>11. KeepInv'
    <2>1. SUFFICES ASSUME Reliable PROVE \A k \in made : FoundIn(index', maps', child', k)
      BY <1>1 DEF KeepInv, Between, Updating, Reliable
    <2>2. \A k \in made : FoundIn(index, maps, child, k)
      BY <1>1, <1>2, <2>1 DEF KeepInv, Between
    <2> QED
      BY <1>4, <1>5, <2>2
  <1> QED
    BY <1>5, <1>8, <1>10, <1>11 DEF IInv

\* It becomes the last of the list, whose ranges are still distinct.
LEMMA LinkSiblingInv ==
    ASSUME IInv, LinkSibling
    PROVE  IInv'
  <1>1. /\ pc = "linksibling" /\ pc' = "node"
        /\ index' = [index EXCEPT ![at] = mem]
        /\ at' = mem.next /\ mem' = index[mem.next]
        /\ UNCHANGED <<maps, child, files, key, converting, bank, copy, rest, made, cut, uneven>>
    BY DEF LinkSibling, ghosts
  <1>2. Types /\ DiskInv /\ KeepInv /\ CallInv
    BY DEF IInv
  <1>3. /\ Listed /\ at \in ListFrom(index, 1) /\ index[at].next = 0 /\ at < Len(index) /\ Absent
        /\ mem = [index[at] EXCEPT !.next = Len(index)]
        /\ index[Len(index)] = Descriptor(BankOf(key))
        /\ ~converting /\ at \in 1 .. Len(index)
    BY <1>1, <1>2 DEF CallInv, InLinkSibling, InCall
  <1>4. /\ Len(index) \in Nat /\ 1 \in 1 .. Len(index) /\ index \in Seq(IndexDescriptors)
        /\ ListFrom(index, 1) \subseteq 1 .. Len(index) /\ index[1].map \in 0 .. Len(maps)
        /\ \A n \in 1 .. Len(index) : index[n] \in IndexDescriptors
    BY <1>2, DiskFacts
  <1>5. mem \in IndexDescriptors /\ made \subseteq Keys
    BY <1>2 DEF Types
  <1>6. PICK iy : iy = index'
    OBVIOUS
  <1>7. PICK e \in 1 .. Len(index) : e = Len(index) /\ e # at
    BY <1>3, <1>4
  <1>8. /\ mem.range = index[at].range /\ mem.map = index[at].map
        /\ mem.slot = index[at].slot /\ mem.next = e
    <2>1. index[at] \in IndexDescriptors
      BY <1>3, <1>4
    <2> QED
      BY <1>3, <1>7, <2>1 DEF IndexDescriptors
  <1>9. /\ iy \in Seq(IndexDescriptors) /\ Len(iy) = Len(index)
        /\ iy[at] = mem /\ \A n \in 1 .. Len(index) : n # at => iy[n] = index[n]
    BY <1>1, <1>3, <1>4, <1>5, <1>6, Replaced
  <1>10. \A n \in 1 .. Len(index) :
           /\ iy[n].range = index[n].range /\ iy[n].map = index[n].map /\ iy[n].slot = index[n].slot
           /\ n # at => iy[n].next = index[n].next
    BY <1>8, <1>9
  <1>11. index[e].next = 0 /\ index[e].range = BankOf(key)
    BY <1>3, <1>7 DEF Descriptor
  <1>12. Ordered(iy)
    <2>1. ASSUME NEW n \in 1 .. Len(iy), iy[n].next # 0 PROVE iy[n].next \in n + 1 .. Len(iy)
      <3>1. CASE n = at
        <4>1. iy[n].next = e /\ Len(iy) = e
          BY <1>7, <1>8, <1>9, <3>1
        <4>2. at < e
          BY <1>3, <1>7
        <4>3. e \in at + 1 .. e
          BY <1>3, <1>4, <1>7, <4>2
        <4> QED
          BY <3>1, <4>1, <4>3
      <3>2. CASE n # at
        BY <1>2, <1>9, <1>10, <2>1, <3>2 DEF DiskInv, Ordered
      <3> QED
        BY <3>1, <3>2
    <2> QED
      BY <2>1 DEF Ordered
  <1>13. Linked(iy, maps, child)
    BY <1>2, <1>9, <1>10 DEF DiskInv, Linked
  <1>14. AllName(iy, maps)
    <2>1. maps \in Seq(MapCopies) /\ AllName(index, maps)
      BY <1>2 DEF Types, DiskInv
    <2>2. Len(index) <= Len(iy)
      BY <1>4, <1>9
    <2> QED
      BY <1>4, <1>9, <1>10, <2>1, <2>2, AllNameKept
  <1>15. HeadTells(iy)
    <2>1. \A n \in 1 .. Len(index) : iy[n].map = 0
      BY <1>2, <1>3, <1>10 DEF DiskInv, HeadTells, Listed
    <2>2. iy[1].range = 0
      BY <1>2, <1>4, <1>10 DEF DiskInv, HeadTells
    <2> QED
      BY <1>4, <1>9, <2>1, <2>2 DEF HeadTells
  <1>16. ListFrom(iy, 1) = ListFrom(index, 1) \union {e}
    <2>1. 1 \in 0 .. Len(index) /\ Ordered(index)
      BY <1>2, <1>4 DEF DiskInv
    <2>2. iy[at].next = e
      BY <1>8, <1>9
    <2>3. \A n \in 1 .. Len(index) : n # at => iy[n].next = index[n].next
      BY <1>10
    <2>4. Len(index) = Len(iy) /\ iy \in Seq(IndexDescriptors) /\ index \in Seq(IndexDescriptors)
      BY <1>4, <1>9
    <2>5. at \in ListFrom(index, 1) /\ index[at].next = 0 /\ index[e].next = 0 /\ e # at
      BY <1>3, <1>7, <1>11
    <2> QED
      BY <1>12, <2>1, <2>2, <2>3, <2>4, <2>5, ListExtended
  <1>17. Distinct(iy, ListFrom(iy, 1))
    <2>1. ASSUME NEW i \in ListFrom(index, 1) PROVE index[i].range # index[e].range
      BY <1>3, <1>11 DEF Absent
    <2>2. \A i, j \in ListFrom(index, 1) \union {e} : index[i].range = index[j].range => i = j
      BY <1>2, <2>1 DEF DiskInv, Distinct
    <2>3. \A i \in ListFrom(index, 1) \union {e} : iy[i].range = index[i].range
      BY <1>4, <1>10
    <2> QED
      BY <1>16, <2>2, <2>3 DEF Distinct
  <1>18. DiskInv'
    BY <1>1, <1>6, <1>12, <1>13, <1>14, <1>15, <1>17 DEF DiskInv
  <1>19. Types'
    <2>1. mem' \in IndexDescriptors /\ at' \in Nat
      BY <1>1, <1>4, <1>7, <1>8
    <2>2. UNCHANGED <<maps, child, files, key, converting, bank, copy, rest, made, cut, uneven>> /\ pc' \in PC
      BY <1>1 DEF PC
    <2>3. Len(index') >= 1
      BY <1>4, <1>6, <1>9
    <2> QED
      BY <1>2, <1>6, <1>9, <2>1, <2>2, <2>3 DEF Types
  <1>20. InNode'
    <2>1. at' = e /\ mem' = index'[at']
      BY <1>1, <1>6, <1>7, <1>8, <1>9
    <2>2. ASSUME NEW j \in ListFrom(iy, 1), iy[j].range = BankOf(key) PROVE j >= e
      <3>1. j = e
        BY <1>3, <1>4, <1>10, <1>16, <2>2 DEF Absent
      <3> QED
        BY <1>4, <1>7, <3>1
    <2>3. e \in ListFrom(iy, 1) /\ iy[1].map = 0
      BY <1>3, <1>4, <1>10, <1>16 DEF Listed
    <2>4. UNCHANGED key
      BY <1>1
    <2> QED
      BY <1>6, <2>1, <2>2, <2>3, <2>4 DEF InNode, Listed
  <1>21. CallInv'
    <2>1. at' \in 1 .. Len(index')
      BY <1>1, <1>6, <1>7, <1>8, <1>9
    <2> QED
      BY <1>1, <1>3, <1>20, <2>1 DEF CallInv, InCall, InNewSibling, InLinkSibling, InNewBank, InCopies,
             InSlot, InHead, InSiblings
  <1>22. KeepInv'
    <2>1. SUFFICES ASSUME Reliable PROVE \A k \in made : FoundIn(iy, maps, child, k)
      BY <1>1, <1>6 DEF KeepInv, Between, Updating, Reliable
    <2>2. \A k \in made : FoundIn(index, maps, child, k)
      BY <1>1, <1>2, <2>1 DEF KeepInv, Between
    <2>3. Grows(index, iy, child, child)
      BY <1>4, <1>10, <1>16 DEF Grows, HoldsIn
    <2>4. maps \in Seq(MapCopies) /\ AllName(index, maps) /\ Ordered(index) /\ Len(index) >= 1
      BY <1>2 DEF Types, DiskInv
    <2> QED
      BY <1>4, <1>5, <2>2, <2>3, <2>4, FoundKept
  <1> QED
    BY <1>18, <1>19, <1>21, <1>22 DEF IInv

----------------------------------------------------------------------------
(* The child and its file                                                  *)

\* A child or a file more changes nothing of what there was.
LEMMA ChildWritten ==
    ASSUME Types, DiskInv, child' \in Seq(Nat), Len(child') >= Len(child),
           \A c \in 1 .. Len(child) : child[c] # 0 => child'[c] # 0,
           UNCHANGED <<index, maps>>
    PROVE  /\ DiskInv'
           /\ \A n \in 1 .. Len(index), k \in Keys :
                HoldsIn(index, child, n, k) => HoldsIn(index, child', n, k)
           /\ \A k \in Keys : FoundIn(index, maps, child, k) => FoundIn(index', maps', child', k)
  <1>1. /\ index \in Seq(IndexDescriptors) /\ Len(index) >= 1
        /\ index[1].map \in 0 .. Len(maps) /\ maps \in Seq(MapCopies)
        /\ AllName(index, maps) /\ Ordered(index)
    BY DiskFacts DEF Types, DiskInv
  <1>2. Len(child) \in Nat /\ Len(child') \in Nat
    BY DEF Types
  <1>3. Linked(index, maps, child')
    <2>1. \A c : c \in 0 .. Len(child) => c \in 0 .. Len(child')
      BY <1>2
    <2> QED
      BY <2>1 DEF DiskInv, Linked
  <1>4. DiskInv'
    BY <1>3 DEF DiskInv
  <1>5. ASSUME NEW n \in 1 .. Len(index), NEW k \in Keys, HoldsIn(index, child, n, k)
        PROVE  HoldsIn(index, child', n, k)
    <2>1. Slot(k) \in 0 .. BankSize - 1
      BY ConstantFacts
    <2>2. index[n].slot[Slot(k)] \in 0 .. Len(child)
      BY <2>1 DEF DiskInv, Linked
    <2> QED
      BY <1>2, <1>5, <2>2 DEF HoldsIn
  <1>6. ASSUME NEW k \in Keys, FoundIn(index, maps, child, k) PROVE FoundIn(index', maps', child', k)
    <2>1. Grows(index, index, child, child')
      BY <1>5 DEF Grows
    <2>2. FoundIn(index, maps, child', k)
      BY <1>1, <1>6, <2>1, FoundKept
    <2> QED
      BY <2>2
  <1> QED
    BY <1>4, <1>5, <1>6

\* The slot is taken, or a child is appended for it.
LEMMA ChildInv ==
    ASSUME IInv, Child
    PROVE  IInv'
  <1>1. /\ pc = "slot"
        /\ UNCHANGED <<index, maps, files, key, converting, at, bank, copy, rest, made, cut, uneven>>
    BY DEF Child, ghosts
  <1>2. Types /\ DiskInv /\ KeepInv /\ CallInv
    BY DEF IInv
  <1>3. Target /\ mem = index[at] /\ ~converting /\ at \in 1 .. Len(index)
    BY <1>1, <1>2 DEF CallInv, InSlot, InCall
  <1>4. Target'
    BY <1>1, <1>3 DEF Target, Listed
  <1>5. CASE mem.slot[Slot(key)] # 0
    <2>1. pc' = "child" /\ UNCHANGED <<child, mem>>
      BY <1>5 DEF Child
    <2>2. Types'
      BY <1>1, <1>2, <2>1 DEF Types, PC
    <2>3. DiskInv'
      BY <1>1, <1>2, <2>1 DEF DiskInv
    <2>4. CallInv'
      BY <1>1, <1>3, <1>4, <1>5, <2>1 DEF CallInv, InCall, InNode, InNewSibling, InLinkSibling, InNewBank,
             InCopies, InSlot, InHead, InSiblings
    <2>5. KeepInv'
      BY <1>1, <1>2, <2>1 DEF KeepInv, Reliable, Between, Updating
    <2> QED
      BY <2>2, <2>3, <2>4, <2>5 DEF IInv
  <1>6. CASE mem.slot[Slot(key)] = 0
    <2>1. /\ pc' = "linkslot" /\ child' = Append(child, 0)
          /\ mem' = [mem EXCEPT !.slot[Slot(key)] = Len(child')]
      BY <1>6 DEF Child
    <2>2. child \in Seq(Nat) /\ Len(child) \in Nat /\ made \subseteq Keys
      BY <1>2 DEF Types
    <2>3. /\ child' \in Seq(Nat) /\ Len(child') = Len(child) + 1
          /\ \A c \in 1 .. Len(child) : child'[c] = child[c]
      BY <2>1, <2>2, OneMore
    <2>4. DiskInv' /\ \A k \in Keys : FoundIn(index, maps, child, k) => FoundIn(index', maps', child', k)
      <3>1. Len(child') >= Len(child) /\ \A c \in 1 .. Len(child) : child[c] # 0 => child'[c] # 0
        BY <2>2, <2>3
      <3> QED
        BY <1>1, <1>2, <2>3, <3>1, ChildWritten
    <2>5. Types'
      <3>1. mem' \in IndexDescriptors
        <4>1. PICK d : d = mem
          OBVIOUS
        <4>2. PICK n \in Nat : n = Len(child')
          BY <2>2, <2>3
        <4>3. d \in IndexDescriptors
          BY <1>2, <4>1 DEF Types
        <4>4. [d EXCEPT !.slot[Slot(key)] = n] \in IndexDescriptors
          BY <4>3 DEF IndexDescriptors
        <4> QED
          BY <2>1, <4>1, <4>2, <4>4
      <3>2. pc' \in PC
        BY <2>1 DEF PC
      <3>3. UNCHANGED <<index, maps, files, key, converting, at, bank, copy, rest, made, cut, uneven>>
        BY <1>1
      <3> QED
        BY <1>2, <2>3, <3>1, <3>2, <3>3 DEF Types
    <2>6. InSlot'
      <3>1. mem' = [index'[at'] EXCEPT !.slot[Slot(key')] = Len(child')]
        BY <1>1, <1>3, <2>1
      <3>2. index'[at'].slot[Slot(key')] = 0 /\ Len(child') # 0
        BY <1>1, <1>3, <1>6, <2>2, <2>3
      <3> QED
        BY <1>4, <2>1, <3>1, <3>2 DEF InSlot
    <2>7. CallInv'
      BY <1>1, <1>3, <2>1, <2>6 DEF CallInv, InCall, InNode, InNewSibling, InLinkSibling, InNewBank,
             InCopies, InHead, InSiblings
    <2>8. KeepInv'
      <3>1. SUFFICES ASSUME Reliable PROVE \A k \in made : FoundIn(index', maps', child', k)
        BY <1>1, <2>1 DEF KeepInv, Between, Updating, Reliable
      <3>2. \A k \in made : FoundIn(index, maps, child, k)
        BY <1>1, <1>2, <3>1 DEF KeepInv, Between
      <3> QED
        BY <2>2, <2>4, <3>2
    <2> QED
      BY <2>4, <2>5, <2>7, <2>8 DEF IInv
  <1> QED
    BY <1>5, <1>6

\* The child is linked in a slot that was free, so that no other key is lost.
LEMMA LinkChildInv ==
    ASSUME IInv, LinkChild
    PROVE  IInv'
  <1>1. /\ pc = "linkslot" /\ pc' = "child" /\ index' = [index EXCEPT ![at] = mem]
        /\ UNCHANGED <<maps, child, files, key, converting, at, mem, bank, copy, rest, made, cut, uneven>>
    BY DEF LinkChild, ghosts, callVars
  <1>2. Types /\ DiskInv /\ KeepInv /\ CallInv
    BY DEF IInv
  <1>3. /\ Target /\ index[at].slot[Slot(key)] = 0 /\ Len(child) # 0
        /\ mem = [index[at] EXCEPT !.slot[Slot(key)] = Len(child)]
        /\ ~converting /\ at \in 1 .. Len(index)
    BY <1>1, <1>2 DEF CallInv, InSlot, InCall
  <1>4. /\ Len(index) \in Nat /\ 1 \in 1 .. Len(index) /\ index \in Seq(IndexDescriptors)
        /\ ListFrom(index, 1) \subseteq 1 .. Len(index) /\ index[1].map \in 0 .. Len(maps)
        /\ \A n \in 1 .. Len(index) : index[n] \in IndexDescriptors
    BY <1>2, DiskFacts
  <1>5. mem \in IndexDescriptors /\ made \subseteq Keys /\ key \in Keys /\ Len(child) \in Nat
    BY <1>2 DEF Types
  <1>6. PICK iy : iy = index'
    OBVIOUS
  <1>7. Slot(key) \in 0 .. BankSize - 1
    BY <1>5, ConstantFacts
  <1>8. /\ mem.range = index[at].range /\ mem.map = index[at].map /\ mem.next = index[at].next
        /\ mem.slot[Slot(key)] = Len(child)
        /\ \A s \in 0 .. BankSize - 1 : s # Slot(key) => mem.slot[s] = index[at].slot[s]
    <2>1. index[at] \in IndexDescriptors
      BY <1>3, <1>4
    <2> QED
      BY <1>3, <1>7, <2>1 DEF IndexDescriptors
  <1>9. /\ iy \in Seq(IndexDescriptors) /\ Len(iy) = Len(index)
        /\ iy[at] = mem /\ \A n \in 1 .. Len(index) : n # at => iy[n] = index[n]
    <2>1. index' = [index EXCEPT ![at] = mem]
      BY <1>1
    <2>2. index \in Seq(IndexDescriptors) /\ at \in 1 .. Len(index) /\ mem \in IndexDescriptors
      BY <1>3, <1>4, <1>5
    <2> QED
      BY <1>6, <2>1, <2>2, Replaced
  <1>10. \A n \in 1 .. Len(index) :
            iy[n].range = index[n].range /\ iy[n].map = index[n].map /\ iy[n].next = index[n].next
    BY <1>8, <1>9
  <1>11. Ordered(iy)
    BY <1>2, <1>9, <1>10 DEF DiskInv, Ordered
  <1>12. Linked(iy, maps, child)
    <2>1. ASSUME NEW n \in 1 .. Len(index), NEW s \in 0 .. BankSize - 1
          PROVE  iy[n].slot[s] \in 0 .. Len(child)
      <3>1. CASE n = at /\ s = Slot(key)
        BY <1>5, <1>8, <1>9, <3>1
      <3>2. CASE ~(n = at /\ s = Slot(key))
        <4>1. iy[n].slot[s] = index[n].slot[s]
          BY <1>8, <1>9, <3>2
        <4> QED
          BY <1>2, <4>1 DEF DiskInv, Linked
      <3> QED
        BY <3>1, <3>2
    <2> QED
      BY <1>2, <1>9, <1>10, <2>1 DEF DiskInv, Linked
  <1>13. AllName(iy, maps)
    <2>1. maps \in Seq(MapCopies) /\ AllName(index, maps)
      BY <1>2 DEF Types, DiskInv
    <2>2. Len(index) <= Len(iy)
      BY <1>4, <1>9
    <2>3. \A n \in 1 .. Len(index) : iy[n].range = index[n].range
      BY <1>10
    <2> QED
      BY <1>4, <1>9, <2>1, <2>2, <2>3, AllNameKept
  <1>14. HeadTells(iy)
    BY <1>2, <1>4, <1>9, <1>10 DEF DiskInv, HeadTells
  <1>15. ListFrom(iy, 1) = ListFrom(index, 1)
    <2>1. 1 \in 0 .. Len(index) /\ Ordered(index) /\ Len(index) <= Len(iy)
      BY <1>2, <1>4, <1>9 DEF DiskInv
    <2>2. \A n \in ListFrom(index, 1) : iy[n].next = index[n].next
      BY <1>4, <1>10
    <2> QED
      BY <1>4, <1>9, <1>11, <2>1, <2>2, ListSame
  <1>16. Distinct(iy, ListFrom(iy, 1))
    BY <1>2, <1>4, <1>10, <1>15 DEF DiskInv, Distinct
  <1>17. DiskInv'
    BY <1>1, <1>6, <1>11, <1>12, <1>13, <1>14, <1>16 DEF DiskInv
  <1>18. Types'
    <2>1. Len(index') >= 1
      BY <1>4, <1>6, <1>9
    <2>2. UNCHANGED <<maps, child, files, key, converting, at, mem, bank, copy, rest, made, cut, uneven>> /\ pc' \in PC
      BY <1>1 DEF PC
    <2> QED
      BY <1>2, <1>6, <1>9, <2>1, <2>2 DEF Types
  <1>19. InSlot'
    <2>1. Target'
      BY <1>1, <1>3, <1>4, <1>6, <1>10, <1>15 DEF Target, Listed
    <2>2. mem' = index'[at'] /\ mem'.slot[Slot(key')] # 0
      BY <1>1, <1>3, <1>6, <1>8, <1>9
    <2> QED
      BY <1>1, <2>1, <2>2 DEF InSlot
  <1>20. CallInv'
    <2>1. at' \in 1 .. Len(index')
      BY <1>1, <1>3, <1>6, <1>9
    <2> QED
      BY <1>1, <1>3, <1>19, <2>1 DEF CallInv, InCall, InNode, InNewSibling, InLinkSibling, InNewBank,
             InCopies, InHead, InSiblings
  <1>21. KeepInv'
    <2>1. SUFFICES ASSUME Reliable PROVE \A k \in made : FoundIn(iy, maps, child, k)
      BY <1>1, <1>6 DEF KeepInv, Between, Updating, Reliable
    <2>2. \A k \in made : FoundIn(index, maps, child, k)
      BY <1>1, <1>2, <2>1 DEF KeepInv, Between
    <2>3. ASSUME NEW n \in 1 .. Len(index), NEW k \in Keys, HoldsIn(index, child, n, k)
          PROVE  HoldsIn(iy, child, n, k)
      <3>1. Slot(k) \in 0 .. BankSize - 1
        BY ConstantFacts
      <3>2. iy[n].slot[Slot(k)] = index[n].slot[Slot(k)]
        BY <1>3, <1>8, <1>9, <2>3, <3>1 DEF HoldsIn
      <3> QED
        BY <2>3, <3>2 DEF HoldsIn
    <2>4. Grows(index, iy, child, child)
      BY <1>4, <1>10, <1>15, <2>3 DEF Grows
    <2>5. maps \in Seq(MapCopies) /\ AllName(index, maps) /\ Ordered(index) /\ Len(index) >= 1
      BY <1>2 DEF Types, DiskInv
    <2> QED
      BY <1>4, <1>5, <2>2, <2>4, <2>5, FoundKept
  <1> QED
    BY <1>17, <1>18, <1>20, <1>21 DEF IInv

\* The key of a call that has found its child and its file is found.
LEMMA TargetFound ==
    ASSUME Types, DiskInv, Target, at \in 1 .. Len(index), HoldsIn(index, child, at, key)
    PROVE  FoundIn(index, maps, child, key)
  <1>1. CASE Listed
    BY <1>1 DEF Target, Listed, FoundIn, ListHolds
  <1>2. CASE ~Listed
    <2>1. at # 0
      BY DiskFacts
    <2> QED
      BY <1>2, <2>1 DEF Target, Listed, FoundIn, BankHolds
  <1> QED
    BY <1>1, <1>2

\* The file of the child is there, and the key is found, or is created.
LEMMA NewFileInv ==
    ASSUME IInv, NewFile
    PROVE  IInv'
  <1>1. /\ pc = "child"
        /\ UNCHANGED <<index, maps, child, key, converting, at, mem, bank, copy, rest, cut, uneven>>
    BY DEF NewFile, callVars
  <1>2. Types /\ DiskInv /\ KeepInv /\ CallInv
    BY DEF IInv
  <1>3. /\ Target /\ mem = index[at] /\ mem.slot[Slot(key)] # 0
        /\ ~converting /\ at \in 1 .. Len(index)
    BY <1>1, <1>2 DEF CallInv, InSlot, InCall
  <1>4. DiskInv'
    BY <1>1, <1>2 DEF DiskInv
  <1>5. CASE child[mem.slot[Slot(key)]] # 0
    <2>1. pc' = "idle" /\ made' = made \union {key} /\ UNCHANGED files
      BY <1>5 DEF NewFile
    <2>2. Types'
      <3>1. made' \subseteq Keys /\ pc' \in PC
        BY <1>2, <2>1 DEF Types, PC
      <3>2. UNCHANGED <<index, maps, child, files, key, converting, at, mem, bank, copy, rest, cut, uneven>>
        BY <1>1, <2>1
      <3> QED
        BY <1>2, <3>1, <3>2 DEF Types
    <2>3. CallInv'
      BY <2>1 DEF CallInv, InCall, InNode, InNewSibling, InLinkSibling, InNewBank,
             InCopies, InSlot, InHead, InSiblings
    <2>4. KeepInv'
      <3>1. SUFFICES ASSUME Reliable PROVE \A k \in made' : FoundIn(index, maps, child, k)
        BY <1>1, <2>1 DEF KeepInv, Between, Updating, Reliable
      <3>2. \A k \in made : FoundIn(index, maps, child, k)
        BY <1>1, <1>2, <3>1 DEF KeepInv, Between
      <3>3. FoundIn(index, maps, child, key)
        BY <1>2, <1>3, <1>5, TargetFound DEF HoldsIn
      <3> QED
        BY <2>1, <3>2, <3>3
    <2> QED
      BY <1>4, <2>2, <2>3, <2>4 DEF IInv
  <1>6. CASE child[mem.slot[Slot(key)]] = 0
    <2>1. pc' = "linkfile" /\ files' = files + 1 /\ UNCHANGED made
      BY <1>6 DEF NewFile
    <2>2. files' \in Nat /\ files' # 0
      BY <1>2, <2>1 DEF Types
    <2>3. Types'
      <3>1. UNCHANGED <<index, maps, child, made, key, converting, at, mem, bank, copy, rest, cut, uneven>>
        BY <1>1, <2>1
      <3>2. pc' \in PC
        BY <2>1 DEF PC
      <3> QED
        BY <1>2, <2>2, <3>1, <3>2 DEF Types
    <2>4. InSlot'
      <3>1. Target'
        BY <1>1, <1>3 DEF Target, Listed
      <3> QED
        BY <1>1, <1>3, <2>1, <2>2, <3>1 DEF InSlot
    <2>5. CallInv'
      BY <1>1, <1>3, <2>1, <2>4 DEF CallInv, InCall, InNode, InNewSibling, InLinkSibling, InNewBank,
             InCopies, InHead, InSiblings
    <2>6. KeepInv'
      BY <1>1, <1>2, <2>1 DEF KeepInv, Between, Updating, Reliable
    <2> QED
      BY <1>4, <2>3, <2>5, <2>6 DEF IInv
  <1> QED
    BY <1>5, <1>6

\* The file is linked: the key is found.
LEMMA LinkFileInv ==
    ASSUME IInv, LinkFile
    PROVE  IInv'
  <1>1. /\ pc = "linkfile" /\ pc' = "idle"
        /\ child' = [child EXCEPT ![mem.slot[Slot(key)]] = files]
        /\ made' = made \union {key}
        /\ UNCHANGED <<index, maps, files, key, converting, at, mem, bank, copy, rest, cut, uneven>>
    BY DEF LinkFile, callVars
  <1>2. Types /\ DiskInv /\ KeepInv /\ CallInv
    BY DEF IInv
  <1>3. /\ Target /\ mem = index[at] /\ mem.slot[Slot(key)] # 0 /\ files # 0
        /\ ~converting /\ at \in 1 .. Len(index)
    BY <1>1, <1>2 DEF CallInv, InSlot, InCall
  <1>4. made \subseteq Keys /\ key \in Keys /\ child \in Seq(Nat) /\ files \in Nat /\ Len(child) \in Nat
    BY <1>2 DEF Types
  <1>5. PICK c \in 1 .. Len(child) : c = mem.slot[Slot(key)]
    <2>1. Slot(key) \in 0 .. BankSize - 1
      BY <1>4, ConstantFacts
    <2>2. mem.slot[Slot(key)] \in 0 .. Len(child)
      BY <1>2, <1>3, <2>1 DEF DiskInv, Linked
    <2> QED
      BY <1>3, <1>4, <2>2
  <1>6. /\ child' \in Seq(Nat) /\ Len(child') = Len(child) /\ child'[c] = files
        /\ \A d \in 1 .. Len(child) : d # c => child'[d] = child[d]
    BY <1>1, <1>4, <1>5, Replaced
  <1>7. /\ DiskInv'
        /\ \A k \in Keys : FoundIn(index, maps, child, k) => FoundIn(index', maps', child', k)
    <2>1. Len(child') >= Len(child) /\ \A d \in 1 .. Len(child) : child[d] # 0 => child'[d] # 0
      BY <1>3, <1>4, <1>6
    <2> QED
      BY <1>1, <1>2, <1>6, <2>1, ChildWritten
  <1>8. Types'
    <2>1. made' \subseteq Keys /\ pc' \in PC
      BY <1>1, <1>4 DEF PC
    <2>2. UNCHANGED <<index, maps, files, key, converting, at, mem, bank, copy, rest, cut, uneven>>
      BY <1>1
    <2> QED
      BY <1>2, <1>6, <2>1, <2>2 DEF Types
  <1>9. CallInv'
    BY <1>1 DEF CallInv, InCall, InNode, InNewSibling, InLinkSibling, InNewBank,
             InCopies, InSlot, InHead, InSiblings
  <1>10. KeepInv'
    <2>1. SUFFICES ASSUME Reliable PROVE \A k \in made' : FoundIn(index', maps', child', k)
      BY <1>1 DEF KeepInv, Between, Updating, Reliable
    <2>2. \A k \in made : FoundIn(index, maps, child, k)
      BY <1>1, <1>2, <2>1 DEF KeepInv, Between
    <2>3. FoundIn(index', maps', child', key)
      <3>1. HoldsIn(index', child', at', key')
        BY <1>1, <1>3, <1>5, <1>6 DEF HoldsIn
      <3>2. Target' /\ at' \in 1 .. Len(index')
        BY <1>1, <1>3 DEF Target, Listed
      <3>3. FoundIn(index', maps', child', key')
        <4>1. CASE Listed'
          BY <3>1, <3>2, <4>1 DEF Target, Listed, FoundIn, ListHolds
        <4>2. CASE ~Listed'
          <5>1. at' # 0
            BY <1>2, <3>2, <1>1, DiskFacts
          <5> QED
            BY <3>1, <3>2, <4>2, <5>1 DEF Target, Listed, FoundIn, BankHolds
        <4> QED
          BY <4>1, <4>2
      <3> QED
        BY <1>1, <3>3
    <2> QED
      BY <1>1, <1>4, <1>7, <2>2, <2>3
  <1> QED
    BY <1>7, <1>8, <1>9, <1>10 DEF IInv

----------------------------------------------------------------------------
(* The copies of the map                                                   *)

\* The first copy, when it is valid, is the one that is trusted.
LEMMA FirstTrusted ==
    ASSUME NEW copies, copies[1] \in BankMaps
    PROVE  IsReadable(copies) /\ TrustedOf(copies) = copies[1]
  <1>1. 1 \in Copies /\ copies[1] # Invalid
    BY ConstantFacts
  <1>2. \A d \in 1 .. 1 - 1 : copies[d] = Invalid
    OBVIOUS
  <1>3. FirstValid(copies) = 1
    BY <1>1, <1>2, FirstValidOnly
  <1> QED
    BY <1>1, <1>3 DEF IsReadable, TrustedOf

\* When every copy is like the trusted one from there on, the first can be lost.
LEMMA FirstLost ==
    ASSUME Redundancy > 0, NEW copies, NEW torn, IsReadable(copies), IsEven(copies),
           torn[1] = Invalid, \A d \in Copies : d # 1 => torn[d] = copies[d]
    PROVE  IsReadable(torn) /\ TrustedOf(torn) = TrustedOf(copies)
  <1>1. PICK c : c = FirstValid(copies)
    OBVIOUS
  <1>2. c \in Copies /\ copies[c] # Invalid /\ \A d \in 1 .. c - 1 : copies[d] = Invalid
    BY <1>1, FirstValidIs DEF IsReadable
  <1>3. PICK t : t = copies[c] /\ t = TrustedOf(copies)
    BY <1>1 DEF TrustedOf
  <1>4. PICK e \in Copies : torn[e] = t /\ \A d \in 1 .. e - 1 : torn[d] = Invalid
    <2>1. CASE c = 1
      <3>1. 2 \in Copies /\ 1 \in Copies
        BY ConstantFacts DEF Copies
      <3>2. copies[1] = TrustedOf(copies)
        BY <1>3, <2>1
      <3>3. copies[2] = TrustedOf(copies)
        BY <3>1, <3>2 DEF IsEven
      <3>4. copies[2] = t
        BY <1>3, <3>3
      <3>5. torn[2] = t /\ \A d \in 1 .. 2 - 1 : torn[d] = Invalid
        BY <3>1, <3>4
      <3> QED
        BY <3>1, <3>5
    <2>2. CASE c # 1
      <3>1. torn[c] = t
        BY <1>2, <1>3, <2>2
      <3>2. ASSUME NEW d \in 1 .. c - 1 PROVE torn[d] = Invalid
        <4>1. d \in Copies
          BY <1>2, ConstantFacts DEF Copies
        <4> QED
          BY <1>2, <4>1
      <3> QED
        BY <1>2, <3>1, <3>2
    <2> QED
      BY <2>1, <2>2
  <1>5. torn[e] # Invalid
    BY <1>2, <1>3, <1>4
  <1>6. FirstValid(torn) = e
    BY <1>4, <1>5, FirstValidOnly
  <1> QED
    BY <1>3, <1>4, <1>5, <1>6 DEF IsReadable, TrustedOf

\* What holds whenever a copy of the map is about to be torn or written.
LEMMA CopiesFacts ==
    ASSUME IInv, pc \in {"tear", "copy"}
    PROVE  /\ index[1].map # 0 /\ at = 1 /\ mem = index[1] /\ Names(index, bank)
           /\ mem.map \in 1 .. Len(maps) /\ maps \in Seq(MapCopies)
           /\ bank \in BankMaps /\ copy \in Copies /\ key \in Keys
           /\ ~converting => bank[BankOf(key)] # 0
           /\ copy # 1 => maps[mem.map][1] = bank
           /\ index \in Seq(IndexDescriptors) /\ 1 \in 1 .. Len(index)
           /\ Linked(index, maps, child) /\ AllName(index, maps)
           /\ \A k \in made : BankOf(k) \in Banks
  <1>1. Types /\ DiskInv /\ CallInv
    BY DEF IInv
  <1>2. AtMap /\ (~converting => bank[BankOf(key)] # 0) /\ (copy > 1 => maps[mem.map][1] = bank)
    BY <1>1 DEF CallInv, InCopies
  <1>3. index[1].map \in 0 .. Len(maps) /\ index \in Seq(IndexDescriptors) /\ 1 \in 1 .. Len(index)
    BY <1>1, DiskFacts
  <1>4. /\ maps \in Seq(MapCopies) /\ bank \in BankMaps /\ copy \in Copies /\ key \in Keys
        /\ made \subseteq Keys
    BY <1>1 DEF Types
  <1>5. copy # 1 => copy > 1
    BY <1>4, ConstantFacts DEF Copies
  <1>6. mem.map \in 1 .. Len(maps) /\ index[1].map # 0
    BY <1>2, <1>3 DEF AtMap, Listed
  <1>7. \A k \in made : BankOf(k) \in Banks
    BY <1>4, ConstantFacts
  <1> QED
    BY <1>1, <1>2, <1>3, <1>4, <1>5, <1>6, <1>7 DEF AtMap, DiskInv

\* A copy is lost: the next valid one says the same, but for the first of a map in conversion.
LEMMA TearCopyInv ==
    ASSUME IInv, TearCopy
    PROVE  IInv'
  <1>1. /\ pc = "tear" /\ pc' = "copy" /\ maps' = [maps EXCEPT ![mem.map][copy] = Invalid]
        /\ UNCHANGED <<index, child, files, key, converting, at, mem, bank, copy, rest, made, cut, uneven>>
    BY DEF TearCopy, callVars, ghosts
  <1>2. Types /\ DiskInv /\ KeepInv /\ CallInv
    BY DEF IInv
  <1>3. /\ index[1].map # 0 /\ at = 1 /\ mem = index[1] /\ Names(index, bank)
        /\ mem.map \in 1 .. Len(maps) /\ maps \in Seq(MapCopies)
        /\ bank \in BankMaps /\ copy \in Copies /\ key \in Keys
        /\ ~converting => bank[BankOf(key)] # 0
        /\ copy # 1 => maps[mem.map][1] = bank
        /\ index \in Seq(IndexDescriptors) /\ 1 \in 1 .. Len(index)
        /\ Linked(index, maps, child) /\ AllName(index, maps)
    BY <1>1, CopiesFacts
  <1>4. PICK m \in 1 .. Len(maps) : m = mem.map
    BY <1>3
  <1>5. /\ maps' \in Seq(MapCopies) /\ Len(maps') = Len(maps) /\ maps'[m][copy] = Invalid
        /\ \A d \in Copies : d # copy => maps'[m][d] = maps[m][d]
    <2>1. Overwritten(maps, maps', m, copy, Invalid) /\ Invalid \in Contents
      BY <1>1, <1>3, <1>4 DEF Overwritten, Contents
    <2> QED
      BY <1>3, <2>1, CopyReplaced
  <1>6. AllName(index, maps')
    <2>1. Overwritten(maps, maps', m, copy, Invalid) /\ Invalid \in Contents
      BY <1>1, <1>3, <1>4 DEF Overwritten, Contents
    <2>2. Names(index, Invalid)
      BY DEF Names, Invalid
    <2> QED
      BY <1>3, <2>1, <2>2, AllNameReplaced
  <1>7. Types'
    <2>1. UNCHANGED <<index, child, files, key, converting, at, mem, bank, copy, rest, made, cut, uneven>>
          /\ pc' \in PC
      BY <1>1 DEF PC
    <2> QED
      BY <1>2, <1>5, <2>1 DEF Types
  <1>8. DiskInv'
    <2>1. Linked(index, maps', child)
      BY <1>3, <1>5 DEF Linked
    <2> QED
      BY <1>1, <1>2, <1>6, <2>1 DEF DiskInv
  <1>9. InCopies'
    <2>1. AtMap'
      BY <1>1, <1>3 DEF AtMap, Listed
    <2>2. copy > 1 => maps'[m][1] = bank
      BY <1>3, <1>4, <1>5, ConstantFacts
    <2> QED
      BY <1>1, <1>3, <1>4, <2>1, <2>2 DEF InCopies
  <1>10. CallInv'
    BY <1>1, <1>3, <1>9 DEF CallInv, InCall, InNode, InNewSibling, InLinkSibling, InNewBank,
             InSlot, InHead, InSiblings
  <1>11. KeepInv'
    <2>1. SUFFICES ASSUME Reliable
          PROVE  /\ \A k \in made :
                     /\ ~(converting /\ copy = 1) => FoundIn(index, maps', child, k)
                     /\ converting /\ copy = 1 => BankHolds(index, child, bank, k)
                 /\ ~converting /\ copy = 1 => /\ IsReadable(maps'[mem.map])
                                               /\ TrustedOf(maps'[mem.map]) = [bank EXCEPT ![BankOf(key)] = 0]
      BY <1>1 DEF KeepInv, Between, Updating, Reliable
    <2>2. CASE converting /\ copy = 1
      BY <1>1, <1>2, <2>1, <2>2 DEF KeepInv, Between
    <2>3. CASE ~(converting /\ copy = 1)
      <3>1. IsReadable(maps'[m]) /\ TrustedOf(maps'[m]) = TrustedOf(maps[m])
        <4>1. CASE copy = 1
          <5>1. IsReadable(maps[m]) /\ IsEven(maps[m]) /\ Redundancy > 0
            BY <1>1, <1>2, <1>4, <2>1, <2>3, <4>1 DEF KeepInv, Updating, Reliable
          <5>2. maps'[m][1] = Invalid /\ \A d \in Copies : d # 1 => maps'[m][d] = maps[m][d]
            BY <1>5, <4>1
          <5> QED
            BY <5>1, <5>2, FirstLost
        <4>2. CASE copy # 1
          <5>1. maps[m][1] = bank /\ maps'[m][1] = bank
            BY <1>3, <1>4, <1>5, <4>2, ConstantFacts
          <5> QED
            BY <1>3, <5>1, FirstTrusted
        <4> QED
          BY <4>1, <4>2
      <3>2. ASSUME NEW k \in made PROVE FoundIn(index, maps', child, k)
        <4>1. FoundIn(index, maps, child, k)
          BY <1>1, <1>2, <2>1, <2>3 DEF KeepInv, Between
        <4> QED
          BY <1>3, <1>4, <3>1, <4>1 DEF FoundIn
      <3>3. ~converting /\ copy = 1 => TrustedOf(maps[m]) = [bank EXCEPT ![BankOf(key)] = 0]
        BY <1>1, <1>2, <1>4, <2>1 DEF KeepInv, Updating
      <3> QED
        BY <1>4, <2>3, <3>1, <3>2, <3>3
    <2> QED
      BY <2>2, <2>3
  <1> QED
    BY <1>7, <1>8, <1>10, <1>11 DEF IInv

\* A copy is written: from the first on, it is the bank in memory that is trusted.
LEMMA WriteCopyInv ==
    ASSUME IInv, WriteCopy
    PROVE  IInv'
  <1>1. /\ pc = "copy" /\ maps' = [maps EXCEPT ![mem.map][copy] = bank]
        /\ UNCHANGED <<index, child, files, key, converting, bank, rest, made, cut, uneven>>
    BY DEF WriteCopy, ghosts
  <1>2. Types /\ DiskInv /\ KeepInv /\ CallInv
    BY DEF IInv
  <1>3. /\ index[1].map # 0 /\ at = 1 /\ mem = index[1] /\ Names(index, bank)
        /\ mem.map \in 1 .. Len(maps) /\ maps \in Seq(MapCopies)
        /\ bank \in BankMaps /\ copy \in Copies /\ key \in Keys
        /\ ~converting => bank[BankOf(key)] # 0
        /\ copy # 1 => maps[mem.map][1] = bank
        /\ index \in Seq(IndexDescriptors) /\ 1 \in 1 .. Len(index)
        /\ Linked(index, maps, child) /\ AllName(index, maps)
        /\ \A k \in made : BankOf(k) \in Banks
    BY <1>1, CopiesFacts
  <1>4. PICK m \in 1 .. Len(maps) : m = mem.map
    BY <1>3
  <1>5. /\ maps' \in Seq(MapCopies) /\ Len(maps') = Len(maps) /\ maps'[m][copy] = bank
        /\ \A d \in Copies : d # copy => maps'[m][d] = maps[m][d]
    <2>1. Overwritten(maps, maps', m, copy, bank) /\ bank \in Contents
      BY <1>1, <1>3, <1>4 DEF Overwritten, Contents
    <2> QED
      BY <1>3, <2>1, CopyReplaced
  <1>6. AllName(index, maps')
    <2>1. Overwritten(maps, maps', m, copy, bank) /\ bank \in Contents
      BY <1>1, <1>3, <1>4 DEF Overwritten, Contents
    <2> QED
      BY <1>3, <2>1, AllNameReplaced
  <1>7. maps'[m][1] = bank
    BY <1>3, <1>4, <1>5, ConstantFacts
  <1>8. IsReadable(maps'[m]) /\ TrustedOf(maps'[m]) = bank
    BY <1>3, <1>7, FirstTrusted
  <1>9. DiskInv'
    <2>1. Linked(index, maps', child)
      BY <1>3, <1>5 DEF Linked
    <2> QED
      BY <1>1, <1>2, <1>6, <2>1 DEF DiskInv
  <1>10. ASSUME Reliable, NEW k \in made PROVE FoundIn(index, maps', child, k)
    <2>1. BankHolds(index, child, bank, k)
      <3>1. CASE converting /\ copy = 1
        BY <1>1, <1>2, <1>10, <3>1 DEF KeepInv, Between
      <3>2. CASE ~(converting /\ copy = 1)
        <4>1. FoundIn(index, maps, child, k)
          BY <1>1, <1>2, <1>10, <3>2 DEF KeepInv, Between
        <4>2. BankHolds(index, child, TrustedOf(maps[m]), k)
          BY <1>3, <1>4, <4>1 DEF FoundIn
        <4>3. CASE copy = 1
          <5>1. TrustedOf(maps[m]) = [bank EXCEPT ![BankOf(key)] = 0]
            BY <1>1, <1>2, <1>4, <1>10, <3>2, <4>3 DEF KeepInv, Updating
          <5>2. TrustedOf(maps[m])[BankOf(k)] # 0
            BY <4>2 DEF BankHolds
          <5>3. BankOf(k) \in Banks
            BY <1>3, <1>10
          <5>4. TrustedOf(maps[m])[BankOf(k)] = bank[BankOf(k)]
            BY <1>3, <5>1, <5>2, <5>3 DEF BankMaps
          <5> QED
            BY <4>2, <5>4 DEF BankHolds
        <4>4. CASE copy # 1
          <5>1. maps[m][1] = bank
            BY <1>3, <1>4, <4>4
          <5>2. TrustedOf(maps[m]) = bank
            BY <1>3, <5>1, FirstTrusted
          <5> QED
            BY <4>2, <5>2
        <4> QED
          BY <4>3, <4>4
      <3> QED
        BY <3>1, <3>2
    <2> QED
      BY <1>3, <1>4, <1>8, <2>1 DEF FoundIn
  <1>11. ASSUME pc' # "sibling", copy' # 1 \/ pc' \notin {"tear", "copy"} PROVE KeepInv'
    <2>1. ~Between' /\ ~Updating' /\ (Reliable' => Reliable)
      BY <1>1, <1>11 DEF Between, Updating, Reliable
    <2>2. Reliable' => \A k \in made' : FoundIn(index', maps', child', k)
      BY <1>1, <1>10, <2>1
    <2> QED
      BY <2>1, <2>2 DEF KeepInv
  <1>12. UNCHANGED <<index, child, files, key, converting, bank, rest, made, cut, uneven>>
    BY <1>1
  <1>13. CASE copy <= Redundancy
    <2>1. copy' = copy + 1 /\ pc' = "tear" /\ UNCHANGED <<at, mem>>
      BY <1>13 DEF WriteCopy
    <2>2. copy' \in Copies /\ copy' # 1
      BY <1>3, <1>13, <2>1, ConstantFacts DEF Copies
    <2>3. Types'
      <3>1. UNCHANGED <<at, mem>> /\ pc' \in PC
        BY <2>1 DEF PC
      <3> QED
        BY <1>2, <1>5, <1>12, <2>2, <3>1 DEF Types
    <2>4. InCopies'
      <3>1. AtMap'
        BY <1>1, <1>3, <2>1 DEF AtMap, Listed
      <3>2. maps'[mem'.map][1] = bank'
        BY <1>1, <1>4, <1>7, <2>1
      <3>3. ~converting' => bank'[BankOf(key')] # 0
        BY <1>1, <1>3
      <3> QED
        BY <3>1, <3>2, <3>3 DEF InCopies
    <2>5. CallInv'
      BY <1>1, <1>3, <2>1, <2>4 DEF CallInv, InCall, InNode, InNewSibling, InLinkSibling, InNewBank,
             InSlot, InHead, InSiblings
    <2> QED
      BY <1>9, <1>11, <2>1, <2>2, <2>3, <2>5 DEF IInv
  <1>14. CASE ~(copy <= Redundancy) /\ converting
    <2>1. pc' = "idle" /\ UNCHANGED <<at, mem, copy>>
      BY <1>14 DEF WriteCopy
    <2>2. Types'
      <3>1. UNCHANGED <<at, mem, copy>> /\ pc' \in PC
        BY <2>1 DEF PC
      <3> QED
        BY <1>2, <1>5, <1>12, <3>1 DEF Types
    <2>3. CallInv'
      BY <2>1 DEF CallInv, InCall, InNode, InNewSibling, InLinkSibling, InNewBank, InCopies,
             InSlot, InHead, InSiblings
    <2> QED
      BY <1>9, <1>11, <2>1, <2>2, <2>3 DEF IInv
  <1>15. CASE ~(copy <= Redundancy) /\ ~converting
    <2>1. pc' = "slot" /\ at' = bank[BankOf(key)] /\ mem' = index[at'] /\ UNCHANGED copy
      BY <1>15 DEF WriteCopy, Load
    <2>2. at' \in 1 .. Len(index)
      BY <1>3, <1>15, <2>1, NamesFacts, ConstantFacts
    <2>3. Types'
      <3>1. at' \in Nat /\ mem' \in IndexDescriptors /\ pc' \in PC
        BY <1>3, <2>1, <2>2 DEF PC
      <3>2. UNCHANGED copy
        BY <2>1
      <3> QED
        BY <1>2, <1>5, <1>12, <3>1, <3>2 DEF Types
    <2>4. InSlot'
      <3>1. Target'
        <4>1. ~Listed'
          BY <1>1, <1>3 DEF Listed
        <4>2. IsReadable(maps'[index'[1].map]) /\ TrustedOf(maps'[index'[1].map])[BankOf(key')] = at'
          BY <1>1, <1>3, <1>4, <1>8, <2>1
        <4> QED
          BY <4>1, <4>2 DEF Target
      <3>2. mem' = index'[at']
        BY <1>1, <2>1
      <3> QED
        BY <2>1, <3>1, <3>2 DEF InSlot
    <2>5. CallInv'
      <3>1. at' \in 1 .. Len(index') /\ ~converting'
        BY <1>1, <1>15, <2>2
      <3> QED
        BY <2>1, <2>4, <3>1 DEF CallInv, InCall, InNode, InNewSibling, InLinkSibling, InNewBank,
             InCopies, InHead, InSiblings
    <2> QED
      BY <1>9, <1>11, <2>1, <2>3, <2>5 DEF IInv
  <1> QED
    BY <1>13, <1>14, <1>15

----------------------------------------------------------------------------
(* The conversion                                                          *)

\* The head is turned over to the map: what was in the list is in the bank or still to come.
LEMMA ConvertHeadInv ==
    ASSUME IInv, ConvertHead
    PROVE  IInv'
  <1>1. /\ pc = "head" /\ pc' = "sibling" /\ index' = [index EXCEPT ![1] = mem]
        /\ UNCHANGED <<maps, child, files, key, converting, at, mem, bank, copy, rest, made, cut, uneven>>
    BY DEF ConvertHead, callVars, ghosts
  <1>2. Types /\ DiskInv /\ KeepInv /\ CallInv
    BY DEF IInv
  <1>3. /\ Listed /\ at = 1 /\ Len(maps) # 0 /\ copy = 1
        /\ mem = [index[1] EXCEPT !.map = Len(maps), !.next = 0]
        /\ rest = index[1].next /\ bank = [NoBanks EXCEPT ![0] = 1] /\ converting
    BY <1>1, <1>2 DEF CallInv, InHead, InCall
  <1>4. /\ Len(index) \in Nat /\ 1 \in 1 .. Len(index) /\ index \in Seq(IndexDescriptors)
        /\ 1 \in ListFrom(index, 1) /\ ListFrom(index, 1) \subseteq 1 .. Len(index)
        /\ index[1] \in IndexDescriptors
        /\ rest \in 0 .. Len(index) /\ rest # 1
        /\ \A n \in 1 .. Len(index) : index[n] \in IndexDescriptors
    BY <1>2, <1>3, DiskFacts
  <1>5. mem \in IndexDescriptors /\ made \subseteq Keys /\ Len(maps) \in Nat
    BY <1>2 DEF Types
  <1>6. PICK iy : iy = index'
    OBVIOUS
  <1>7. mem.range = index[1].range /\ mem.map = Len(maps) /\ mem.next = 0 /\ mem.slot = index[1].slot
    BY <1>3, <1>4 DEF IndexDescriptors
  <1>8. /\ iy \in Seq(IndexDescriptors) /\ Len(iy) = Len(index)
        /\ iy[1] = mem /\ \A n \in 1 .. Len(index) : n # 1 => iy[n] = index[n]
    <2>1. index' = [index EXCEPT ![1] = mem]
      BY <1>1
    <2> QED
      BY <1>4, <1>5, <1>6, <2>1, Replaced
  <1>9. \A n \in 1 .. Len(index) :
           /\ iy[n].range = index[n].range /\ iy[n].slot = index[n].slot
           /\ n # 1 => iy[n].map = index[n].map /\ iy[n].next = index[n].next
    BY <1>7, <1>8
  <1>10. Ordered(iy)
    BY <1>2, <1>7, <1>8, <1>9 DEF DiskInv, Ordered
  <1>11. Linked(iy, maps, child)
    <2>1. mem.map \in 0 .. Len(maps)
      BY <1>5, <1>7
    <2> QED
      BY <1>2, <1>8, <1>9, <2>1 DEF DiskInv, Linked
  <1>12. AllName(iy, maps)
    <2>1. maps \in Seq(MapCopies) /\ AllName(index, maps)
      BY <1>2 DEF Types, DiskInv
    <2>2. Len(index) <= Len(iy)
      BY <1>4, <1>8
    <2>3. \A n \in 1 .. Len(index) : iy[n].range = index[n].range
      BY <1>9
    <2> QED
      BY <1>4, <1>8, <2>1, <2>2, <2>3, AllNameKept
  <1>13. iy[1].map = Len(maps) /\ iy[1].next = 0 /\ iy[1].range = 0
    BY <1>2, <1>7, <1>8 DEF DiskInv, HeadTells
  <1>14. HeadTells(iy)
    BY <1>3, <1>13 DEF HeadTells
  <1>15. Distinct(iy, ListFrom(iy, 1))
    <2>1. ListFrom(iy, 1) = {1} \union ListFrom(iy, 0)
      BY <1>4, <1>8, <1>10, <1>13, ListHead
    <2>2. ListFrom(iy, 0) = {}
      BY <1>8, <1>10, ListEmpty
    <2> QED
      BY <2>1, <2>2 DEF Distinct
  <1>16. Ordered(index) /\ Distinct(index, ListFrom(index, 1))
    BY <1>2 DEF DiskInv
  <1>17. ListFrom(index, 1) = {1} \union ListFrom(index, rest)
    BY <1>3, <1>4, <1>16, ListHead
  <1>18. ASSUME NEW n \in ListFrom(index, rest) PROVE n \in 1 .. Len(index) /\ n # 1
    <2>1. n \in 1 .. Len(index) /\ n >= rest
      BY <1>4, <1>16, ListMembers
    <2>2. rest # 0
      <3>1. rest = 0 => ListFrom(index, rest) = {}
        BY <1>4, <1>16, ListEmpty
      <3> QED
        BY <3>1
    <2> QED
      BY <1>4, <2>1, <2>2
  <1>19. ListFrom(iy, rest) = ListFrom(index, rest)
    <2>1. \A n \in ListFrom(index, rest) : iy[n].next = index[n].next
      BY <1>9, <1>18
    <2>2. Len(index) <= Len(iy)
      BY <1>4, <1>8
    <2> QED
      BY <1>4, <1>8, <1>10, <1>16, <2>1, <2>2, ListSame
  <1>20. DiskInv'
    BY <1>1, <1>6, <1>10, <1>11, <1>12, <1>14, <1>15 DEF DiskInv
  <1>21. Types'
    <2>1. Len(index') >= 1
      BY <1>4, <1>6, <1>8
    <2>2. UNCHANGED <<maps, child, files, key, converting, at, mem, bank, copy, rest, made, cut, uneven>> /\ pc' \in PC
      BY <1>1 DEF PC
    <2> QED
      BY <1>2, <1>6, <1>8, <2>1, <2>2 DEF Types
  <1>22. bank \in BankMaps /\ bank[0] = 1 /\ \A b \in Banks : b # 0 => bank[b] = 0
    BY <1>3, ConstantFacts DEF BankMaps, NoBanks
  <1>23. InSiblings'
    <2>1. Names(iy, bank)
      <3>1. DOMAIN bank = Banks
        BY <1>22 DEF BankMaps
      <3>2. ASSUME NEW b \in Banks, bank[b] # 0 PROVE bank[b] <= Len(iy) /\ iy[bank[b]].range = b
        <4>1. b = 0 /\ bank[b] = 1
          BY <1>22, <3>2
        <4> QED
          BY <1>4, <1>8, <1>13, <4>1
      <3> QED
        BY <3>1, <3>2 DEF Names
    <2>2. Distinct(iy, ListFrom(iy, rest))
      <3>1. \A i \in ListFrom(index, rest) : iy[i].range = index[i].range
        BY <1>9, <1>18
      <3> QED
        BY <1>16, <1>17, <1>19, <3>1 DEF Distinct
    <2>3. ASSUME NEW n \in ListFrom(iy, rest) PROVE bank[iy[n].range] = 0
      <3>1. n \in ListFrom(index, rest) /\ n \in 1 .. Len(index) /\ n # 1
        BY <1>18, <1>19
      <3>2. index[n].range # index[1].range
        BY <1>16, <1>17, <3>1 DEF Distinct
      <3>3. iy[n].range = index[n].range /\ index[n].range \in Banks
        BY <1>4, <1>9, <3>1, DescriptorFacts
      <3>4. index[1].range = 0
        BY <1>2 DEF DiskInv, HeadTells
      <3> QED
        BY <1>22, <3>2, <3>3, <3>4
    <2>4. AtMap'
      <3>1. ~Listed'
        BY <1>3, <1>6, <1>13 DEF Listed
      <3> QED
        BY <1>1, <1>3, <1>6, <1>8, <2>1, <3>1 DEF AtMap
    <2>5. rest' \in 0 .. Len(index') /\ rest' # 1 /\ copy' = 1
      BY <1>1, <1>3, <1>4, <1>6, <1>8
    <2>6. UNCHANGED <<bank, rest>>
      BY <1>1
    <2> QED
      BY <1>6, <2>2, <2>3, <2>4, <2>5, <2>6 DEF InSiblings
  <1>24. CallInv'
    <2>1. at' \in 1 .. Len(index')
      BY <1>1, <1>3, <1>4, <1>6, <1>8
    <2> QED
      BY <1>1, <1>3, <1>23, <2>1 DEF CallInv, InCall, InNode, InNewSibling, InLinkSibling, InNewBank,
             InCopies, InSlot, InHead
  <1>25. KeepInv'
    <2>1. SUFFICES ASSUME Reliable, NEW k \in made
                   PROVE  BankHolds(iy, child, bank, k) \/ ListHolds(iy, child, ListFrom(iy, rest), k)
      BY <1>1, <1>6 DEF KeepInv, Between, Updating, Reliable
    <2>2. FoundIn(index, maps, child, k)
      BY <1>1, <1>2, <2>1 DEF KeepInv, Between
    <2>3. PICK n \in ListFrom(index, 1) : index[n].range = BankOf(k) /\ HoldsIn(index, child, n, k)
      BY <1>3, <2>2 DEF FoundIn, ListHolds, Listed
    <2>4. iy[n].range = BankOf(k) /\ HoldsIn(iy, child, n, k)
      BY <1>4, <1>9, <2>3 DEF HoldsIn
    <2>5. CASE n = 1
      <3>1. bank[BankOf(k)] = 1
        BY <1>13, <1>22, <2>4, <2>5
      <3> QED
        BY <2>4, <2>5, <3>1 DEF BankHolds
    <2>6. CASE n # 1
      BY <1>17, <1>19, <2>3, <2>4, <2>6 DEF ListHolds
    <2> QED
      BY <2>5, <2>6
  <1> QED
    BY <1>20, <1>21, <1>24, <1>25 DEF IInv

\* A descriptor to come is entered in the bank, at a range that was free.
LEMMA ConvertSiblingInv ==
    ASSUME IInv, ConvertSibling
    PROVE  IInv'
  <1>1. /\ pc = "sibling"
        /\ UNCHANGED <<maps, child, files, key, converting, at, mem, copy, made, cut, uneven>>
    BY DEF ConvertSibling, ghosts
  <1>2. Types /\ DiskInv /\ KeepInv /\ CallInv
    BY DEF IInv
  <1>3. /\ ~Listed /\ at = 1 /\ mem = index[1] /\ Names(index, bank)
        /\ copy = 1 /\ rest \in 0 .. Len(index) /\ rest # 1 /\ converting
        /\ Distinct(index, ListFrom(index, rest))
        /\ \A n \in ListFrom(index, rest) : bank[index[n].range] = 0
    BY <1>1, <1>2 DEF CallInv, InSiblings, InCall, AtMap
  <1>4. /\ Len(index) \in Nat /\ 1 \in 1 .. Len(index) /\ index \in Seq(IndexDescriptors)
        /\ index[1].map \in 0 .. Len(maps)
        /\ \A n \in 1 .. Len(index) : index[n] \in IndexDescriptors
    BY <1>2, DiskFacts
  <1>5. Ordered(index) /\ bank \in BankMaps /\ made \subseteq Keys
    BY <1>2 DEF DiskInv, Types
  <1>6. CASE rest = 0
    <2>1. pc' = "tear" /\ UNCHANGED <<index, bank, rest>>
      BY <1>6 DEF ConvertSibling
    <2>2. Types'
      BY <1>1, <1>2, <2>1 DEF Types, PC
    <2>3. DiskInv'
      BY <1>1, <1>2, <2>1 DEF DiskInv
    <2>4. InCopies'
      BY <1>1, <1>3, <2>1 DEF InCopies, AtMap, Listed
    <2>5. CallInv'
      BY <1>1, <1>3, <1>4, <2>1, <2>4 DEF CallInv, InCall, InNode, InNewSibling, InLinkSibling, InNewBank,
             InSlot, InHead, InSiblings
    <2>6. KeepInv'
      <3>1. SUFFICES ASSUME Reliable, NEW k \in made PROVE BankHolds(index, child, bank, k)
        BY <1>1, <1>3, <2>1 DEF KeepInv, Between, Updating, Reliable
      <3>2. BankHolds(index, child, bank, k) \/ ListHolds(index, child, ListFrom(index, rest), k)
        BY <1>1, <1>2, <3>1 DEF KeepInv, Between
      <3>3. ListFrom(index, rest) = {}
        BY <1>4, <1>5, <1>6, ListEmpty
      <3> QED
        BY <3>2, <3>3 DEF ListHolds
    <2> QED
      BY <2>2, <2>3, <2>5, <2>6 DEF IInv
  <1>7. CASE rest # 0
    <2>1. PICK r \in 1 .. Len(index) : r = rest /\ r # 1
      BY <1>3, <1>7
    <2>2. PICK t : t = index[r].next
      OBVIOUS
    <2>3. PICK d : d = [index[r] EXCEPT !.map = mem.map, !.next = 0]
      OBVIOUS
    <2>4. index[r] \in IndexDescriptors /\ mem.map \in Nat /\ mem.map \in 0 .. Len(maps)
      BY <1>2, <1>3, <1>4, <2>1, DescriptorFacts
    <2>5. /\ d \in IndexDescriptors /\ d.range = index[r].range /\ d.slot = index[r].slot
          /\ d.map = mem.map /\ d.next = 0
      BY <2>3, <2>4 DEF IndexDescriptors
    <2>6. /\ pc' = "sibling" /\ bank' = [bank EXCEPT ![index[r].range] = r] /\ rest' = t
          /\ index' = [index EXCEPT ![r] = d]
      <3>1. /\ bank' = [bank EXCEPT ![index[rest].range] = rest]
            /\ index' = [index EXCEPT ![rest].map = mem.map, ![rest].next = 0]
            /\ rest' = index[rest].next /\ UNCHANGED pc
        BY <1>7 DEF ConvertSibling
      <3>2. [index EXCEPT ![r].map = mem.map, ![r].next = 0] = [index EXCEPT ![r] = d]
        BY <1>4, <2>1, <2>3
      <3> QED
        BY <1>1, <2>1, <2>2, <3>1, <3>2
    <2>7. PICK iy : iy = index'
      OBVIOUS
    <2>8. /\ iy \in Seq(IndexDescriptors) /\ Len(iy) = Len(index)
          /\ iy[r] = d /\ \A n \in 1 .. Len(index) : n # r => iy[n] = index[n]
      BY <1>4, <2>1, <2>5, <2>6, <2>7, Replaced
    <2>9. \A n \in 1 .. Len(index) :
             /\ iy[n].range = index[n].range /\ iy[n].slot = index[n].slot
             /\ n # r => iy[n].map = index[n].map /\ iy[n].next = index[n].next
      BY <2>5, <2>8
    <2>10. iy[1] = index[1]
      BY <1>4, <2>1, <2>8
    <2>11. Ordered(iy)
      BY <1>5, <2>5, <2>8, <2>9 DEF Ordered
    <2>12. Linked(iy, maps, child)
      BY <1>2, <2>4, <2>5, <2>8, <2>9 DEF DiskInv, Linked
    <2>13. AllName(iy, maps)
      <3>1. maps \in Seq(MapCopies) /\ AllName(index, maps)
        BY <1>2 DEF Types, DiskInv
      <3>2. Len(index) <= Len(iy)
        BY <1>4, <2>8
      <3>3. \A n \in 1 .. Len(index) : iy[n].range = index[n].range
        BY <2>9
      <3> QED
        BY <1>4, <2>8, <3>1, <3>2, <3>3, AllNameKept
    <2>14. HeadTells(iy)
      BY <1>2, <1>3, <2>10 DEF DiskInv, HeadTells, Listed
    <2>15. iy[1].next = 0
      BY <1>2, <1>3, <2>10 DEF DiskInv, HeadTells, Listed
    <2>16. Distinct(iy, ListFrom(iy, 1))
      <3>1. ListFrom(iy, 1) = {1} \union ListFrom(iy, 0)
        BY <1>4, <2>8, <2>11, <2>15, ListHead
      <3>2. ListFrom(iy, 0) = {}
        BY <2>8, <2>11, ListEmpty
      <3> QED
        BY <3>1, <3>2 DEF Distinct
    <2>17. DiskInv'
      BY <1>1, <2>7, <2>11, <2>12, <2>13, <2>14, <2>16 DEF DiskInv
    <2>18. t \in 0 .. Len(index) /\ (t # 0 => t > r)
      <3>1. t \in Nat
        BY <2>2, <2>4, DescriptorFacts
      <3>2. t # 0 => t \in r + 1 .. Len(index)
        BY <1>5, <2>2 DEF Ordered
      <3> QED
        BY <1>4, <3>1, <3>2
    <2>19. ListFrom(index, r) = {r} \union ListFrom(index, t)
      BY <1>4, <1>5, <2>2, ListHead
    <2>20. ASSUME NEW n \in ListFrom(index, t) PROVE n \in 1 .. Len(index) /\ n # r
      <3>1. n \in 1 .. Len(index) /\ n >= t
        BY <1>4, <1>5, <2>18, ListMembers
      <3>2. t # 0
        <4>1. t = 0 => ListFrom(index, t) = {}
          BY <1>4, <1>5, ListEmpty
        <4> QED
          BY <4>1
      <3> QED
        BY <1>4, <2>18, <3>1, <3>2
    <2>21. ListFrom(iy, t) = ListFrom(index, t)
      <3>1. \A n \in ListFrom(index, t) : iy[n].next = index[n].next
        BY <2>9, <2>20
      <3>2. Len(index) <= Len(iy)
        BY <1>4, <2>8
      <3> QED
        BY <1>4, <1>5, <2>8, <2>11, <2>18, <3>1, <3>2, ListSame
    <2>22. index[r].range \in Banks
      BY <2>4, DescriptorFacts
    <2>23. PICK f : f = bank'
      OBVIOUS
    <2>24. /\ f \in BankMaps /\ f[index[r].range] = r
           /\ \A b \in Banks : b # index[r].range => f[b] = bank[b]
      BY <1>4, <1>5, <2>6, <2>22, <2>23 DEF BankMaps
    <2>25. bank[index[r].range] = 0
      BY <1>3, <2>1, <2>19
    <2>26. Types'
      <3>1. Len(index') >= 1 /\ rest' \in Nat
        BY <1>4, <2>6, <2>7, <2>8, <2>18
      <3>2. UNCHANGED <<maps, child, files, key, converting, at, mem, copy, made, cut, uneven>> /\ pc' \in PC
        BY <1>1, <2>6 DEF PC
      <3> QED
        BY <1>2, <2>7, <2>8, <2>23, <2>24, <3>1, <3>2 DEF Types
    <2>27. InSiblings'
      <3>1. Names(iy, f)
        <4>1. DOMAIN f = Banks
          BY <2>24 DEF BankMaps
        <4>2. ASSUME NEW b \in Banks, f[b] # 0 PROVE f[b] <= Len(iy) /\ iy[f[b]].range = b
          <5>1. CASE b = index[r].range
            BY <1>4, <2>8, <2>9, <2>24, <5>1
          <5>2. CASE b # index[r].range
            <6>1. f[b] = bank[b] /\ bank[b] # 0
              BY <2>24, <4>2, <5>2
            <6>2. bank[b] \in 1 .. Len(index) /\ index[bank[b]].range = b
              BY <1>3, <1>4, <1>5, <6>1, NamesFacts
            <6> QED
              BY <1>4, <2>8, <2>9, <6>1, <6>2
          <5> QED
            BY <5>1, <5>2
        <4> QED
          BY <4>1, <4>2 DEF Names
      <3>2. Distinct(iy, ListFrom(iy, t))
        <4>1. \A i \in ListFrom(index, t) : iy[i].range = index[i].range
          BY <2>9, <2>20
        <4> QED
          BY <1>3, <2>1, <2>19, <2>21, <4>1 DEF Distinct
      <3>3. ASSUME NEW n \in ListFrom(iy, t) PROVE f[iy[n].range] = 0
        <4>1. n \in ListFrom(index, t) /\ n \in 1 .. Len(index) /\ n # r
          BY <2>20, <2>21
        <4>2. n \in ListFrom(index, rest) /\ r \in ListFrom(index, rest)
          BY <2>1, <2>19, <4>1
        <4>3. index[n].range # index[r].range /\ bank[index[n].range] = 0
          BY <1>3, <4>1, <4>2 DEF Distinct
        <4>4. iy[n].range = index[n].range /\ index[n].range \in Banks
          BY <1>4, <2>9, <4>1, DescriptorFacts
        <4> QED
          BY <2>24, <4>3, <4>4
      <3>4. AtMap'
        <4>1. ~Listed'
          BY <1>3, <2>7, <2>10 DEF Listed
        <4> QED
          BY <1>1, <1>3, <2>7, <2>10, <2>23, <3>1, <4>1 DEF AtMap
      <3>5. rest' \in 0 .. Len(index') /\ rest' # 1 /\ copy' = 1
        BY <1>1, <1>3, <2>1, <2>6, <2>7, <2>8, <2>18
      <3>6. rest' = t
        BY <2>6
      <3> QED
        BY <2>7, <2>23, <3>2, <3>3, <3>4, <3>5, <3>6 DEF InSiblings
    <2>28. CallInv'
      <3>1. at' \in 1 .. Len(index')
        BY <1>1, <1>3, <1>4, <2>7, <2>8
      <3> QED
        BY <1>1, <1>3, <2>6, <2>27, <3>1 DEF CallInv, InCall, InNode, InNewSibling, InLinkSibling, InNewBank,
               InCopies, InSlot, InHead
    <2>29. KeepInv'
      <3>1. SUFFICES ASSUME Reliable, NEW k \in made
                     PROVE  BankHolds(iy, child, f, k) \/ ListHolds(iy, child, ListFrom(iy, t), k)
        BY <1>1, <2>6, <2>7, <2>23 DEF KeepInv, Between, Updating, Reliable
      <3>2. BankHolds(index, child, bank, k) \/ ListHolds(index, child, ListFrom(index, rest), k)
        BY <1>1, <1>2, <3>1 DEF KeepInv, Between
      <3>3. \A n \in 1 .. Len(index) : HoldsIn(index, child, n, k) => HoldsIn(iy, child, n, k)
        BY <2>9 DEF HoldsIn
      <3>4. BankOf(k) \in Banks
        BY <1>5, <3>1, ConstantFacts
      <3>5. CASE BankHolds(index, child, bank, k)
        <4>1. bank[BankOf(k)] # 0 /\ HoldsIn(index, child, bank[BankOf(k)], k)
          BY <3>5 DEF BankHolds
        <4>2. f[BankOf(k)] = bank[BankOf(k)]
          BY <2>24, <2>25, <3>4, <4>1
        <4>3. bank[BankOf(k)] \in 1 .. Len(index)
          BY <1>3, <1>4, <1>5, <3>4, <4>1, NamesFacts
        <4> QED
          BY <3>3, <4>1, <4>2, <4>3 DEF BankHolds
      <3>6. CASE ListHolds(index, child, ListFrom(index, rest), k)
        <4>1. PICK n \in ListFrom(index, rest) : index[n].range = BankOf(k) /\ HoldsIn(index, child, n, k)
          BY <3>6 DEF ListHolds
        <4>2. CASE n = r
          <5>1. f[BankOf(k)] = r /\ r # 0
            BY <1>4, <2>24, <4>1, <4>2
          <5>2. HoldsIn(iy, child, r, k)
            BY <3>3, <4>1, <4>2
          <5> QED
            BY <5>1, <5>2 DEF BankHolds
        <4>3. CASE n # r
          <5>1. n \in ListFrom(index, t)
            BY <2>1, <2>19, <4>1, <4>3
          <5>2. n \in 1 .. Len(index)
            BY <2>20, <5>1
          <5>3. n \in ListFrom(iy, t) /\ iy[n].range = BankOf(k) /\ HoldsIn(iy, child, n, k)
            BY <2>9, <2>21, <3>3, <4>1, <5>1, <5>2
          <5> QED
            BY <5>3 DEF ListHolds
        <4> QED
          BY <4>2, <4>3
      <3> QED
        BY <3>2, <3>5, <3>6
    <2> QED
      BY <2>17, <2>26, <2>28, <2>29 DEF IInv
  <1> QED
    BY <1>6, <1>7

----------------------------------------------------------------------------
(* A crash, and every step                                                 *)

\* A crash leaves the disk, and with it what is found.
LEMMA CrashInv ==
    ASSUME IInv, Crash
    PROVE  IInv'
  <1>1. /\ pc # "idle" /\ pc' = "idle"
        /\ cut' = (cut \/ (converting /\ copy = 1 /\ pc \in {"sibling", "tear", "copy"}))
        /\ UNCHANGED <<index, maps, child, files, key, converting, at, mem, bank, copy, rest, made, uneven>>
    BY DEF Crash, diskVars, callVars
  <1>2. Types /\ DiskInv /\ KeepInv /\ CallInv
    BY DEF IInv
  <1>3. DiskInv'
    BY <1>1, <1>2 DEF DiskInv
  <1>4. Types'
    <2>1. cut' \in BOOLEAN
      BY <1>1, Zenon
    <2>2. UNCHANGED <<index, maps, child, files, key, converting, at, mem, bank, copy, rest, made, uneven>>
          /\ pc' \in PC
      BY <1>1 DEF PC
    <2> QED
      BY <1>2, <2>1, <2>2 DEF Types
  <1>5. CallInv'
    BY <1>1 DEF CallInv, InCall, InNode, InNewSibling, InLinkSibling, InNewBank, InCopies,
             InSlot, InHead, InSiblings
  <1>6. KeepInv'
    <2>1. SUFFICES ASSUME Reliable' PROVE \A k \in made : FoundIn(index, maps, child, k)
      BY <1>1 DEF KeepInv, Between, Updating
    <2>2. Reliable /\ ~(converting /\ copy = 1 /\ pc \in {"sibling", "tear", "copy"})
      BY <1>1, <2>1, Zenon DEF Reliable
    <2>3. pc = "sibling" => converting /\ copy = 1
      BY <1>2 DEF CallInv, InCall, InSiblings
    <2>4. ~Between
      BY <2>2, <2>3 DEF Between
    <2> QED
      BY <1>2, <2>2, <2>4 DEF KeepInv
  <1> QED
    BY <1>3, <1>4, <1>5, <1>6 DEF IInv

\* The invariant is kept by every step.
LEMMA Inductive == IInv /\ [Next]_vars => IInv'
  <1> SUFFICES ASSUME IInv, [Next]_vars PROVE IInv'
    OBVIOUS
  <1>1. ASSUME NEW k \in Keys, GetOrCreateFile(k) PROVE IInv'
    BY <1>1, GetOrCreateFileInv
  <1>2. CASE Proceed
    BY <1>2, ThroughMapInv, NewBankInv, TearCopyInv, WriteCopyInv, ThroughListInv, NewSiblingInv,
       LinkSiblingInv, ChildInv, LinkChildInv, NewFileInv, LinkFileInv, ConvertHeadInv,
       ConvertSiblingInv DEF Proceed
  <1>3. CASE UNCHANGED vars
    BY <1>3 DEF vars, diskVars, callVars, ghosts, IInv, Types, DiskInv, CallInv, KeepInv, InCall, InNode,
       InNewSibling, InLinkSibling, InNewBank, InCopies, InSlot, InHead, InSiblings, Listed, Absent,
       Target, AtMap, Reliable, Between, Updating
  <1> QED
    BY <1>1, <1>2, <1>3, ConvertInv, CrashInv DEF Next

\* As long as the copies can be relied on, the map of the head can be read: also by a store
\* that holds no keys yet, of which KeepInv says nothing.
ReadableInv == Reliable /\ ~Between /\ index[1].map # 0 => IsReadable(maps[index[1].map])

LEMMA ReadableStep ==
    ASSUME IInv, ReadableInv, [Next]_vars
    PROVE  ReadableInv'
  <1>1. Types /\ DiskInv /\ CallInv /\ KeepInv
    BY DEF IInv
  <1>2. index \in Seq(IndexDescriptors) /\ 1 \in 1 .. Len(index) /\ index[1].map \in 0 .. Len(maps)
    BY <1>1, DiskFacts
  <1>3. Redundancy' = Redundancy /\ maps \in Seq(MapCopies)
    BY <1>1 DEF Types
  <1>4. ASSUME maps' = maps, index'[1].map = index[1].map, Reliable' => Reliable,
               Reliable' /\ ~Between' => ~Between
        PROVE  ReadableInv'
    BY <1>4 DEF ReadableInv
  <1>5. ASSUME NEW k \in Keys, GetOrCreateFile(k) PROVE ReadableInv'
    BY <1>4, <1>5 DEF GetOrCreateFile, Call, diskVars, Between, Reliable
  <1>6. CASE Convert
    <2>1. index' = index /\ index[1].map = 0
      BY <1>6 DEF Convert
    <2> QED
      BY <2>1 DEF ReadableInv
  <1>7. CASE ThroughMap \/ ThroughList \/ Child \/ NewFile \/ LinkFile
    BY <1>4, <1>7 DEF ThroughMap, ThroughList, Child, NewFile, LinkFile, diskVars, callVars, ghosts,
       Between, Reliable
  <1>8. CASE NewBank \/ NewSibling
    <2>1. /\ index' = Append(index, Descriptor(BankOf(key))) /\ maps' = maps /\ cut' = cut
          /\ ~Between
      BY <1>8 DEF NewBank, NewSibling, Between, ghosts
    <2>2. index'[1] = index[1]
      <3>1. Descriptor(BankOf(key)) \in IndexDescriptors
        BY <1>1, ConstantFacts DEF Types
      <3> QED
        BY <1>2, <2>1, <3>1, OneMore
    <2>3. uneven => uneven'
      BY <1>8, Zenon DEF NewBank, NewSibling, ghosts
    <2> QED
      BY <1>4, <2>1, <2>2, <2>3 DEF Reliable
  <1>9. CASE LinkSibling \/ LinkChild
    <2>1. /\ index' = [index EXCEPT ![at] = mem] /\ maps' = maps /\ cut' = cut /\ uneven' = uneven
          /\ ~Between
      BY <1>9 DEF LinkSibling, LinkChild, Between, ghosts
    <2>2. \/ mem = [index[at] EXCEPT !.next = Len(index)]
          \/ mem = [index[at] EXCEPT !.slot[Slot(key)] = Len(child)]
      BY <1>1, <1>9 DEF LinkSibling, LinkChild, CallInv, InLinkSibling, InSlot
    <2>3. at \in 1 .. Len(index)
      BY <1>1, <1>9 DEF LinkSibling, LinkChild, CallInv, InCall
    <2>4. index[at] \in IndexDescriptors
      BY <1>2, <2>3
    <2>5. mem.map = index[at].map
      BY <2>2, <2>4 DEF IndexDescriptors
    <2>6. index'[1].map = index[1].map
      BY <1>2, <2>1, <2>3, <2>5
    <2> QED
      BY <1>4, <2>1, <2>6 DEF Reliable
  <1>10. CASE TearCopy
    <2>1. /\ pc = "tear" /\ pc' = "copy" /\ maps' = [maps EXCEPT ![mem.map][copy] = Invalid]
          /\ UNCHANGED <<index, converting, bank, copy, cut, uneven>>
      BY <1>10 DEF TearCopy, callVars, ghosts
    <2>2. /\ index[1].map # 0 /\ mem = index[1] /\ mem.map \in 1 .. Len(maps)
          /\ copy \in Copies /\ bank \in BankMaps /\ (copy # 1 => maps[mem.map][1] = bank)
      BY <1>1, <2>1, CopiesFacts DEF IInv
    <2>3. PICK m \in 1 .. Len(maps) : m = mem.map
      BY <2>2
    <2>4. /\ maps'[m][copy] = Invalid
          /\ \A d \in Copies : d # copy => maps'[m][d] = maps[m][d]
      <3>1. Overwritten(maps, maps', m, copy, Invalid) /\ Invalid \in Contents
        BY <2>1, <2>2, <2>3 DEF Overwritten, Contents
      <3> QED
        BY <1>3, <2>2, <3>1, CopyReplaced
    <2>5. CASE copy # 1
      <3>1. maps'[m][1] = bank
        BY <2>2, <2>3, <2>4, <2>5, ConstantFacts
      <3> QED
        BY <2>1, <2>2, <2>3, <3>1, FirstTrusted DEF ReadableInv
    <2>6. CASE copy = 1
      <3>1. SUFFICES ASSUME Reliable, ~converting PROVE IsReadable(maps'[m])
        BY <1>3, <2>1, <2>2, <2>3, <2>6 DEF ReadableInv, Reliable, Between
      <3>2. IsReadable(maps[m]) /\ IsEven(maps[m]) /\ Redundancy > 0
        BY <1>1, <2>1, <2>3, <2>6, <3>1 DEF KeepInv, Updating, Reliable
      <3> QED
        BY <2>4, <2>6, <3>2, FirstLost
    <2> QED
      BY <2>5, <2>6
  <1>11. CASE WriteCopy
    <2>1. pc = "copy" /\ maps' = [maps EXCEPT ![mem.map][copy] = bank] /\ index' = index
      BY <1>11 DEF WriteCopy
    <2>2. /\ index[1].map # 0 /\ mem = index[1] /\ mem.map \in 1 .. Len(maps)
          /\ copy \in Copies /\ bank \in BankMaps
      BY <1>1, <2>1, CopiesFacts DEF IInv
    <2>3. PICK m \in 1 .. Len(maps) : m = mem.map
      BY <2>2
    <2>4. maps'[m][copy] = bank
      <3>1. Overwritten(maps, maps', m, copy, bank) /\ bank \in Contents
        BY <2>1, <2>2, <2>3 DEF Overwritten, Contents
      <3> QED
        BY <1>3, <2>2, <3>1, CopyReplaced
    <2>5. bank # Invalid
      BY <2>2, ConstantFacts
    <2>6. IsReadable(maps'[m])
      BY <2>2, <2>4, <2>5 DEF IsReadable
    <2> QED
      BY <2>1, <2>2, <2>3, <2>6 DEF ReadableInv
  <1>12. CASE ConvertHead \/ ConvertSibling
    <2>1. Between'
      BY <1>1, <1>12 DEF ConvertHead, ConvertSibling, callVars, CallInv, InCall, InSiblings, Between
    <2> QED
      BY <2>1 DEF ReadableInv
  <1>13. CASE Crash
    <2>1. /\ cut' = (cut \/ (converting /\ copy = 1 /\ pc \in {"sibling", "tear", "copy"}))
          /\ UNCHANGED <<index, maps, uneven>>
      BY <1>13 DEF Crash, diskVars
    <2>2. pc = "sibling" => converting /\ copy = 1
      BY <1>1 DEF CallInv, InCall, InSiblings
    <2>3. (Reliable' => Reliable) /\ (Reliable' => ~Between)
      BY <1>3, <2>1, <2>2, Zenon DEF Reliable, Between
    <2> QED
      BY <1>4, <2>1, <2>3
  <1>14. CASE UNCHANGED vars
    BY <1>4, <1>14 DEF vars, diskVars, callVars, ghosts, Reliable, Between
  <1> QED
    BY <1>5, <1>6, <1>7, <1>8, <1>9, <1>10, <1>11, <1>12, <1>13, <1>14 DEF Next, Proceed

\* What the program has stored, and what a call under way knows of it, is as it should be in
\* every state, a crash at any point included: IndexedDataStore.cpp.
THEOREM Invariance == Spec => []IInv
  BY Initially, Inductive, PTL DEF Spec

\* What is on disk leads to what is there, at every instant and so after a crash at any point:
\* lists end, links and maps lead to what is there and of the right range, no two descriptors of
\* a list share one, and a map that the head names has a readable copy, as long as there is a
\* second copy, no conversion was cut off and no update began on copies that were uneven.
THEOREM IndexSoundTheorem == Spec => []IndexSound
  <1>0. Spec => []ReadableInv
    <2>1. Init => ReadableInv
      BY DEF Init, Descriptor, ReadableInv
    <2>2. IInv /\ ReadableInv /\ [Next]_vars => ReadableInv'
      BY ReadableStep
    <2> QED
      BY <2>1, <2>2, Invariance, PTL DEF Spec
  <1>1. IInv /\ ReadableInv => IndexSound
    <2> SUFFICES ASSUME IInv, ReadableInv PROVE IndexSound
      OBVIOUS
    <2>1. Types /\ DiskInv
      BY DEF IInv
    <2>2. ASSUME NEW n \in 1 .. Len(index)
          PROVE  /\ index[n].next # 0 => index[n].next \in n + 1 .. Len(index)
                 /\ index[n].map \in 0 .. Len(maps)
                 /\ \A s \in DOMAIN index[n].slot : index[n].slot[s] \in 0 .. Len(child)
      <3>1. DOMAIN index[n].slot = 0 .. BankSize - 1
        BY <2>1, DiskFacts, DescriptorFacts
      <3> QED
        BY <2>1, <3>1 DEF DiskInv, Ordered, Linked
    <2>3. \A m \in 1 .. Len(maps), c \in Copies : Names(index, maps[m][c])
      BY <2>1 DEF DiskInv, AllName
    <2>4. Distinct(index, List)
      BY <2>1 DEF DiskInv, List
    <2>5. Redundancy > 0 /\ ~cut /\ ~uneven /\ (pc = "idle" \/ ~converting) =>
             (index[1].map # 0 => Readable(index[1].map))
      <3> SUFFICES ASSUME Redundancy > 0, ~cut, ~uneven, pc = "idle" \/ ~converting, index[1].map # 0
                   PROVE  Readable(index[1].map)
        OBVIOUS
      <3>1. Reliable /\ ~Between
        BY DEF Reliable, Between, IInv, CallInv, InCall
      <3> QED
        BY <3>1 DEF ReadableInv, IsReadable, Readable
    <2> QED
      BY <2>2, <2>3, <2>4, <2>5 DEF IndexSound, Names, Distinct
  <1> QED
    BY <1>0, <1>1, Invariance, PTL

\* A key whose file was returned is found again, whatever crash comes, as long as the map has a
\* second copy, no conversion was cut off and no update began on copies that were uneven.
THEOREM KeysKeptTheorem == Spec => []KeysKept
  <1>1. IInv => KeysKept
    <2> SUFFICES ASSUME IInv, Redundancy > 0, ~cut, ~uneven, pc = "idle" \/ ~converting, NEW k \in made
                 PROVE  Found(k)
      BY DEF KeysKept
    <2>1. Reliable /\ ~Between
      BY DEF Reliable, Between, IInv, CallInv, InCall
    <2>2. FoundIn(index, maps, child, k)
      BY <2>1 DEF IInv, KeepInv
    <2> QED
      BY <2>2 DEF FoundIn, Found, Readable, IsReadable, Trusted, TrustedOf, BankHolds, ListHolds, List,
           Holds, HoldsIn
  <1> QED
    BY <1>1, Invariance, PTL
=============================================================================
