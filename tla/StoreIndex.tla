----------------------------- MODULE StoreIndex ----------------------------
(***************************************************************************)
(* The index of an IndexedDataStore (IndexedDataStore.cpp): the children   *)
(* of one index descriptor.  They are found through a list of descriptors, *)
(* one for each range of BANK_SIZE key bytes, or, once the list has been   *)
(* converted, through a bank map of which the store keeps several copies   *)
(* with a CRC each.                                                        *)
(*                                                                         *)
(* Every write of the store to its underlying file is one action and the   *)
(* process may die between any two; it may also die in the middle of the   *)
(* write of a copy of the map, which is what the CRC is there for.  A key  *)
(* is its last byte, and a child the number of its descriptor, whose own   *)
(* list is another like this one.                                          *)
(***************************************************************************)
EXTENDS Integers, Sequences, FiniteSets, SequencesExt

CONSTANTS
    BankSize,   \* BANK_SIZE
    Keys,       \* the key bytes in use
    Redundancy, \* bank_map_redundancy_count
    MaxOps      \* bound: calls

ASSUME StoreIndexConstants ==
    /\ BankSize \in Nat \ {0}
    /\ Keys \subseteq Nat
    /\ Redundancy \in Nat
    /\ MaxOps \in Nat

VARIABLES
    index,    \* on disk: the INDEX_DESCRIPTORs of the list; the first is its head
    maps,     \* on disk: for every bank map its copies
    child,    \* on disk: for every child its file, 0 for none
    files,    \* on disk: how many file descriptors there are
    pc, key, converting, \* the call under way and where it is
    at, mem,  \* the descriptor it has loaded, and the copy
    bank,     \* the bank map it has loaded or made
    copy,     \* the copy of it that is written next
    rest,     \* convert: the part of the list to come
    made,     \* ghost: the keys whose file was returned to the program
    cut,      \* ghost: a conversion was cut off after it had changed the head
    uneven,   \* ghost: an update of a map began while a later copy was not like the first
    ops

diskVars == <<index, maps, child, files>>
callVars == <<key, converting, at, mem, bank, copy, rest>>
ghosts   == <<made, cut, uneven, ops>>
vars == <<diskVars, pc, callVars, ghosts>>

BankOf(k) == k \div BankSize
Slot(k) == k % BankSize
Banks == {BankOf(k) : k \in Keys} \union {0}

Copies == 1 .. Redundancy + 1
NoBanks == [b \in Banks |-> 0]
\* A copy whose CRC is wrong, or that was never written.
Invalid == [b \in {} |-> 0]

Descriptor(b) == [range |-> b, next |-> 0, map |-> 0, slot |-> [s \in 0 .. BankSize - 1 |-> 0]]

PC == {"idle", "node", "newbank", "tear", "copy", "newsibling", "linksibling", "slot",
       "linkslot", "child", "linkfile", "head", "sibling"}

TypeOK ==
    /\ index \in Seq([range : Nat, next : Nat, map : Nat, slot : [0 .. BankSize - 1 -> Nat]])
    /\ maps \in Seq([Copies -> [Banks -> Nat] \union {Invalid}])
    /\ child \in Seq(Nat) /\ files \in Nat
    /\ pc \in PC /\ key \in Keys /\ converting \in BOOLEAN
    /\ at \in Nat \ {0}
    /\ mem \in [range : Nat, next : Nat, map : Nat, slot : [0 .. BankSize - 1 -> Nat]]
    /\ bank \in [Banks -> Nat] /\ copy \in Nat /\ rest \in Nat
    /\ made \subseteq Keys /\ cut \in BOOLEAN /\ uneven \in BOOLEAN /\ ops \in Nat

Init ==
    /\ index = <<Descriptor(0)>> /\ maps = <<>> /\ child = <<>> /\ files = 0
    /\ pc = "idle" /\ key \in Keys /\ converting = FALSE
    /\ at = 1 /\ mem = Descriptor(0) /\ bank = NoBanks /\ copy = 1 /\ rest = 0
    /\ made = {} /\ cut = FALSE /\ uneven = FALSE /\ ops = 0

----------------------------------------------------------------------------
(* Reading                                                                 *)

Readable(m) == \E c \in Copies : maps[m][c] # Invalid

\* loadBankMap: the first copy whose CRC is right is trusted.
FirstValid(copies) ==
    CHOOSE c \in Copies : copies[c] # Invalid /\ \A d \in 1 .. c - 1 : copies[d] = Invalid

Trusted(m) == maps[m][FirstValid(maps[m])]

Even(m) == \A c, d \in Copies :
    (c < d /\ maps[m][c] = Trusted(m)) => maps[m][d] = Trusted(m)

\* The way along a list from the descriptor s, and the descriptors on it.
Steps(ix, s) ==
    LET nth[i \in 1 .. Len(ix)] ==
            IF i = 1 THEN s ELSE IF nth[i - 1] = 0 THEN 0 ELSE ix[nth[i - 1]].next
    IN nth

ListFrom(ix, s) == {Steps(ix, s)[i] : i \in 1 .. Len(ix)} \ {0}
List == ListFrom(index, 1)

\* getChildDescriptor without create_index, and the file of the child.
Holds(n, k) == index[n].slot[Slot(k)] # 0 /\ child[index[n].slot[Slot(k)]] # 0

Found(k) ==
    IF index[1].map # 0
    THEN /\ Readable(index[1].map)
         /\ Trusted(index[1].map)[BankOf(k)] # 0
         /\ Holds(Trusted(index[1].map)[BankOf(k)], k)
    ELSE \E n \in List : index[n].range = BankOf(k) /\ Holds(n, k)

----------------------------------------------------------------------------
(* getOrCreateFile                                                         *)

Load(n) == at' = n /\ mem' = index[n]

Call(step) ==
    /\ pc = "idle" /\ ops < MaxOps
    /\ ops' = ops + 1
    /\ pc' = step
    /\ Load(1)
    /\ UNCHANGED <<diskVars, bank, copy, made, cut, uneven>>

GetOrCreateFile(k) ==
    /\ Call("node")
    /\ key' = k /\ converting' = FALSE
    /\ UNCHANGED rest

\* getChildDescriptor: through the map ...
ThroughMap ==
    /\ pc = "node" /\ mem.map # 0
    /\ IF ~Readable(mem.map) THEN pc' = "idle" /\ UNCHANGED <<at, mem, bank>>   \* it throws
       ELSE /\ bank' = Trusted(mem.map)
            /\ IF bank'[BankOf(key)] = 0 THEN pc' = "newbank" /\ UNCHANGED <<at, mem>>
                                         ELSE pc' = "slot" /\ Load(bank'[BankOf(key)])
    /\ UNCHANGED <<diskVars, key, converting, copy, rest, ghosts>>

NewBank ==
    /\ pc = "newbank"
    /\ index' = Append(index, Descriptor(BankOf(key)))
    /\ bank' = [bank EXCEPT ![BankOf(key)] = Len(index')]
    /\ copy' = 1
    /\ pc' = "tear"
    /\ uneven' = (uneven \/ ~Even(mem.map))
    /\ UNCHANGED <<maps, child, files, key, converting, at, mem, rest, made, cut, ops>>

\* updateBankMap, copy after copy.
TearCopy ==
    /\ pc = "tear"
    /\ maps' = [maps EXCEPT ![mem.map][copy] = Invalid]
    /\ pc' = "copy"
    /\ UNCHANGED <<index, child, files, callVars, ghosts>>

WriteCopy ==
    /\ pc = "copy"
    /\ maps' = [maps EXCEPT ![mem.map][copy] = bank]
    /\ IF copy <= Redundancy THEN copy' = copy + 1 /\ pc' = "tear" /\ UNCHANGED <<at, mem>>
       ELSE /\ UNCHANGED copy
            /\ IF converting THEN pc' = "idle" /\ UNCHANGED <<at, mem>>
                             ELSE pc' = "slot" /\ Load(bank[BankOf(key)])
    /\ UNCHANGED <<index, child, files, key, converting, bank, rest, ghosts>>

\* ... or along the list.
ThroughList ==
    /\ pc = "node" /\ mem.map = 0
    /\ IF mem.range = BankOf(key) THEN pc' = "slot" /\ UNCHANGED <<at, mem>>
       ELSE IF mem.next = 0 THEN pc' = "newsibling" /\ UNCHANGED <<at, mem>>
       ELSE Load(mem.next) /\ UNCHANGED pc
    /\ UNCHANGED <<diskVars, key, converting, bank, copy, rest, ghosts>>

NewSibling ==
    /\ pc = "newsibling"
    /\ index' = Append(index, Descriptor(BankOf(key)))
    /\ mem' = [mem EXCEPT !.next = Len(index')]
    /\ pc' = "linksibling"
    /\ UNCHANGED <<maps, child, files, key, converting, at, bank, copy, rest, ghosts>>

LinkSibling ==
    /\ pc = "linksibling"
    /\ index' = [index EXCEPT ![at] = mem]
    /\ at' = mem.next /\ mem' = index[mem.next]
    /\ pc' = "node"
    /\ UNCHANGED <<maps, child, files, key, converting, bank, copy, rest, ghosts>>

\* The child is there, or is appended and linked.
Child ==
    /\ pc = "slot"
    /\ IF mem.slot[Slot(key)] # 0 THEN pc' = "child" /\ UNCHANGED <<child, mem>>
       ELSE /\ child' = Append(child, 0)
            /\ mem' = [mem EXCEPT !.slot[Slot(key)] = Len(child')]
            /\ pc' = "linkslot"
    /\ UNCHANGED <<index, maps, files, key, converting, at, bank, copy, rest, ghosts>>

LinkChild ==
    /\ pc = "linkslot"
    /\ index' = [index EXCEPT ![at] = mem]
    /\ pc' = "child"
    /\ UNCHANGED <<maps, child, files, callVars, ghosts>>

\* Its file is there, or is created and linked.
NewFile ==
    /\ pc = "child"
    /\ IF child[mem.slot[Slot(key)]] # 0
       THEN pc' = "idle" /\ made' = made \union {key} /\ UNCHANGED files
       ELSE files' = files + 1 /\ pc' = "linkfile" /\ UNCHANGED made
    /\ UNCHANGED <<index, maps, child, callVars, cut, uneven, ops>>

LinkFile ==
    /\ pc = "linkfile"
    /\ child' = [child EXCEPT ![mem.slot[Slot(key)]] = files]
    /\ made' = made \union {key}
    /\ pc' = "idle"
    /\ UNCHANGED <<index, maps, files, callVars, cut, uneven, ops>>

----------------------------------------------------------------------------
(* convertDescriptorListToBankMap                                          *)

\* Room for the map is made; the list goes on in memory only.
Convert ==
    /\ pc = "idle" /\ ops < MaxOps
    /\ index[1].map = 0
    /\ ops' = ops + 1
    /\ converting' = TRUE
    /\ maps' = Append(maps, [c \in Copies |-> Invalid])
    /\ at' = 1
    /\ mem' = [index[1] EXCEPT !.map = Len(maps'), !.next = 0]
    /\ rest' = index[1].next
    /\ bank' = [NoBanks EXCEPT ![0] = 1]
    /\ copy' = 1
    /\ pc' = "head"
    /\ UNCHANGED <<index, child, files, key, made, cut, uneven>>

ConvertHead ==
    /\ pc = "head"
    /\ index' = [index EXCEPT ![1] = mem]
    /\ pc' = "sibling"
    /\ UNCHANGED <<maps, child, files, callVars, ghosts>>

\* Mutant: the last descriptor of the list is left out.
ConvertAllButLast ==
    /\ pc = "sibling"
    /\ IF rest = 0 \/ index[rest].next = 0
       THEN pc' = "tear" /\ UNCHANGED <<index, bank, rest>>
       ELSE /\ bank' = [bank EXCEPT ![index[rest].range] = rest]
            /\ index' = [index EXCEPT ![rest].map = mem.map, ![rest].next = 0]
            /\ rest' = index[rest].next
            /\ UNCHANGED pc
    /\ UNCHANGED <<maps, child, files, key, converting, at, mem, copy, ghosts>>

\* Mutant: the map is given the descriptor after.
ConvertSiblingNext ==
    /\ pc = "sibling"
    /\ IF rest = 0 THEN pc' = "tear" /\ UNCHANGED <<index, bank, rest>>
       ELSE /\ bank' = [bank EXCEPT ![index[rest].range] = index[rest].next]
            /\ index' = [index EXCEPT ![rest].map = mem.map, ![rest].next = 0]
            /\ rest' = index[rest].next
            /\ UNCHANGED pc
    /\ UNCHANGED <<maps, child, files, key, converting, at, mem, copy, ghosts>>

ConvertSibling ==
    /\ pc = "sibling"
    /\ IF rest = 0 THEN pc' = "tear" /\ UNCHANGED <<index, bank, rest>>
       ELSE /\ bank' = [bank EXCEPT ![index[rest].range] = rest]
            /\ index' = [index EXCEPT ![rest].map = mem.map, ![rest].next = 0]
            /\ rest' = index[rest].next
            /\ UNCHANGED pc
    /\ UNCHANGED <<maps, child, files, key, converting, at, mem, copy, ghosts>>

\* The process dies and another opens the store.
Crash ==
    /\ pc # "idle"
    /\ pc' = "idle"
    /\ cut' = (cut \/ (converting /\ copy = 1 /\ pc \in {"sibling", "tear", "copy"}))
    /\ UNCHANGED <<diskVars, callVars, made, uneven, ops>>

Proceed == \/ ThroughMap \/ NewBank \/ TearCopy \/ WriteCopy \/ ThroughList \/ NewSibling
           \/ LinkSibling \/ Child \/ LinkChild \/ NewFile \/ LinkFile
           \/ ConvertHead \/ ConvertSibling

Next == (\E k \in Keys : GetOrCreateFile(k)) \/ Convert \/ Proceed \/ Crash

Spec == Init /\ [][Next]_vars

----------------------------------------------------------------------------
(* Properties                                                              *)

\* Where what is on disk leads, at every instant, which is what a crash leaves: a list ends, a
\* map names descriptors of the right ranges, a slot names a child, and no two descriptors of a
\* list have the same range, for the second would hide its keys; and the map of the head has a
\* readable copy under the conditions of KeysKept.  This is less than the integrity walk of the
\* tests asks of a store: a crash between ConvertHead and the first copy leaves a map without
\* a valid copy, and one between the append of a descriptor and its link leaves a descriptor
\* that nothing leads to, and the walk refuses both.
IndexSound ==
    /\ \A n \in 1 .. Len(index) :
        /\ index[n].next # 0 => index[n].next \in n + 1 .. Len(index)
        /\ index[n].map \in 0 .. Len(maps)
        /\ \A s \in DOMAIN index[n].slot : index[n].slot[s] \in 0 .. Len(child)
    /\ \A m \in 1 .. Len(maps), c \in Copies :
        \A b \in DOMAIN maps[m][c] :
            maps[m][c][b] # 0 => maps[m][c][b] <= Len(index) /\ index[maps[m][c][b]].range = b
    /\ \A i, j \in List : index[i].range = index[j].range => i = j
    /\ Redundancy > 0 /\ ~cut /\ ~uneven /\ (pc = "idle" \/ ~converting) =>
          (index[1].map # 0 => Readable(index[1].map))

\* A key that was created is found again, wherever in a later call the process dies, even in
\* the middle of a copy of the map; but not if it dies in a conversion before the first copy is
\* written, nor in the first copy of a map whose later copies had not been brought up to it.
KeysKept ==
    Redundancy > 0 /\ ~cut /\ ~uneven /\ (pc = "idle" \/ ~converting) =>
        \A k \in made : Found(k)

\* "the bank-map replicas protect index readability": the store can be read after any crash.
IndexReadable == Redundancy > 0 /\ pc = "idle" => \A k \in made : Found(k)
=============================================================================
