-------------------------- MODULE StoreFile_proofs --------------------------
(***************************************************************************)
(* Theorems about StoreFile, for every block size, length and number of    *)
(* calls and crashes.  IInv says of the blocks that links lead forward to  *)
(* whole ones, whatever was called.  HeldInv says what the blocks hold, as *)
(* long as nothing misled a call: there is a chain whose bytes are the     *)
(* content, but for those that the call under way writes.                  *)
(***************************************************************************)
EXTENDS StoreFile, SequenceTheorems, WellFoundedInduction, NaturalsInduction, TLAPS

----------------------------------------------------------------------------
(* The inductive invariant                                                 *)

\* A block that is there with its payload.
Whole(n) == n \in 1 .. Len(blocks) /\ Len(blocks[n].data) = B

\* A descriptor names a first block and a last one that are whole, or none.
Sound(d) ==
    /\ d.first = 0 <=> d.last = 0
    /\ d.first # 0 => Whole(d.first)
    /\ d.last # 0 => Whole(d.last)

Types ==
    /\ desc \in Descriptors /\ kept \in Descriptors /\ fd \in Descriptors
    /\ blocks \in Seq(Blocks) /\ mem \in Blocks /\ at \in Nat
    /\ pc \in PC
    /\ args \in [set : BOOLEAN, off : Nat, len : Nat, byte : Nat]
    /\ boff \in Nat /\ written \in Nat /\ ops \in Nat

\* A link leads to a later block, which is whole.
Forward(n, next) == next # 0 => next > n /\ Whole(next)

Links == \A n \in 1 .. Len(blocks) : Forward(n, blocks[n].next)

Loaded == pc \in {"walk", "create", "pay", "link", "describe", "fill", "used", "data"}

\* What the call under way holds in its variables.
CallInv ==
    /\ written <= args.len
    /\ pc = "firstpay" => Len(blocks) # 0
    /\ pc \notin {"idle", "first", "firstpay"} => fd.first # 0
    /\ pc = "pay" => at < Len(blocks)
    /\ Loaded => Whole(at) /\ Len(mem.data) = B /\ Forward(at, mem.next)

\* What is on disk, and what descriptors in memory say of it.
DiskInv == Sound(desc) /\ Sound(kept) /\ Sound(fd) /\ Links

IInv == Types /\ DiskInv /\ CallInv

----------------------------------------------------------------------------
(* Blocks                                                                  *)

LEMMA ConstantBlocks ==
    /\ B \in Nat /\ B # 0
    /\ Zeros \in Seq(Nat) /\ Len(Zeros) = B
    /\ Fresh \in Blocks /\ Fresh.next = 0
  <1>1. B \in Nat /\ B # 0
    BY StoreFileConstants
  <1>2. Zeros \in Seq(Nat) /\ Len(Zeros) = B
    BY <1>1 DEF Zeros
  <1>3. << >> \in Seq(Nat)
    OBVIOUS
  <1> QED
    BY <1>1, <1>2, <1>3 DEF Fresh, Blocks

LEMMA AppendedBlocks ==
    ASSUME NEW s \in Seq(Blocks), NEW x \in Blocks
    PROVE  /\ Append(s, x) \in Seq(Blocks)
           /\ Len(Append(s, x)) = Len(s) + 1
           /\ \A n \in 1 .. Len(s) : Append(s, x)[n] = s[n]
           /\ Append(s, x)[Len(s) + 1] = x
  OBVIOUS

LEMMA ReplacedBlock ==
    ASSUME NEW s \in Seq(Blocks), NEW k \in 1 .. Len(s), NEW x \in Blocks
    PROVE  /\ [s EXCEPT ![k] = x] \in Seq(Blocks)
           /\ Len([s EXCEPT ![k] = x]) = Len(s)
           /\ \A n \in 1 .. Len(s) : [s EXCEPT ![k] = x][n] = IF n = k THEN x ELSE s[n]
  OBVIOUS

\* Blocks are never taken away, and a payload that is there stays there.
LEMMA WholeStays ==
    ASSUME blocks \in Seq(Blocks), blocks' \in Seq(Blocks),
           Len(blocks') >= Len(blocks),
           \A n \in 1 .. Len(blocks) : Len(blocks[n].data) = B => Len(blocks'[n].data) = B
    PROVE  \A n : Whole(n) => Whole(n)'
  BY DEF Whole

\* What a new block that nothing leads to changes: nothing.
LEMMA NewBlock ==
    ASSUME Types, blocks' = Append(blocks, Fresh)
    PROVE  /\ blocks' \in Seq(Blocks) /\ Len(blocks') = Len(blocks) + 1
           /\ \A n : Whole(n) => Whole(n)'
           /\ Links => Links'
  <1>1. /\ blocks \in Seq(Blocks) /\ blocks' \in Seq(Blocks)
        /\ Len(blocks') = Len(blocks) + 1 /\ Len(blocks) \in Nat
        /\ \A n \in 1 .. Len(blocks) : blocks'[n] = blocks[n]
        /\ blocks'[Len(blocks) + 1] = Fresh
    BY ConstantBlocks, AppendedBlocks DEF Types
  <1>2. \A n : Whole(n) => Whole(n)'
    BY <1>1, WholeStays
  <1>3. ASSUME Links, NEW n \in 1 .. Len(blocks') PROVE Forward(n, blocks[n].next)'
    <2>1. CASE n = Len(blocks) + 1
      BY <1>1, <2>1, ConstantBlocks DEF Forward
    <2>2. CASE n \in 1 .. Len(blocks)
      BY <1>1, <1>2, <1>3, <2>2 DEF Links, Forward
    <2> QED
      BY <1>1, <2>1, <2>2
  <1> QED
    BY <1>1, <1>2, <1>3 DEF Links

\* A block that is described or filled keeps its payload if it had one, and its link leads forward.
LEMMA ChangedBlock ==
    ASSUME Types, NEW k \in 1 .. Len(blocks), NEW x \in Blocks,
           blocks' = [blocks EXCEPT ![k] = x],
           Len(blocks[k].data) = B => Len(x.data) = B,
           Forward(k, x.next)
    PROVE  /\ blocks' \in Seq(Blocks) /\ Len(blocks') = Len(blocks)
           /\ blocks'[k] = x
           /\ \A n : Whole(n) => Whole(n)'
           /\ Links => Links'
  <1>1. /\ blocks \in Seq(Blocks) /\ blocks' \in Seq(Blocks)
        /\ Len(blocks') = Len(blocks) /\ Len(blocks) \in Nat
        /\ \A n \in 1 .. Len(blocks) : blocks'[n] = IF n = k THEN x ELSE blocks[n]
    BY ReplacedBlock DEF Types
  <1>2. \A n : Whole(n) => Whole(n)'
    BY <1>1, WholeStays
  <1>3. ASSUME Links, NEW n \in 1 .. Len(blocks') PROVE Forward(n, blocks[n].next)'
    <2>1. CASE n = k
      BY <1>1, <1>2, <2>1 DEF Forward
    <2>2. CASE n # k
      BY <1>1, <1>2, <1>3, <2>2 DEF Links, Forward
    <2> QED
      BY <2>1, <2>2
  <1> QED
    BY <1>1, <1>2, <1>3 DEF Links

\* Descriptors and links that were sound remain so while blocks stay whole.
LEMMA SoundStays ==
    ASSUME \A n : Whole(n) => Whole(n)'
    PROVE  /\ \A d : Sound(d) => Sound(d)'
           /\ \A n, m : Forward(n, m) => Forward(n, m)'
  BY DEF Sound, Forward

\* The last block, with the payload just written.
LEMMA PayloadWritten ==
    ASSUME Types, Links, Len(blocks) # 0,
           blocks' = [blocks EXCEPT ![Len(blocks)].data = Zeros]
    PROVE  /\ blocks' \in Seq(Blocks) /\ Len(blocks') = Len(blocks)
           /\ \A n : Whole(n) => Whole(n)'
           /\ Links'
           /\ Whole(Len(blocks))'
  <1> DEFINE k == Len(blocks)
             x == [blocks[k] EXCEPT !.data = Zeros]
  <1>1. k \in 1 .. Len(blocks) /\ blocks[k] \in Blocks
    BY DEF Types
  <1>2. x \in Blocks /\ Len(x.data) = B /\ x.next = blocks[k].next
    BY <1>1, ConstantBlocks DEF Blocks
  <1>3. blocks' = [blocks EXCEPT ![k] = x]
    OBVIOUS
  <1>4. Forward(k, x.next)
    BY <1>1, <1>2 DEF Links
  <1> HIDE DEF x
  <1>5. /\ blocks' \in Seq(Blocks) /\ Len(blocks') = Len(blocks)
        /\ blocks'[k] = x
        /\ \A n : Whole(n) => Whole(n)'
        /\ Links => Links'
    BY <1>1, <1>2, <1>3, <1>4, ChangedBlock
  <1>6. Whole(Len(blocks))'
    BY <1>1, <1>2, <1>5 DEF Whole
  <1> QED
    BY <1>5, <1>6

\* The block of the call with the descriptor of its copy.
LEMMA BlockDescribed ==
    ASSUME Types, Links, Whole(at), Forward(at, mem.next),
           blocks' = [blocks EXCEPT ![at] = Described]
    PROVE  /\ blocks' \in Seq(Blocks) /\ Len(blocks') = Len(blocks)
           /\ \A n : Whole(n) => Whole(n)'
           /\ Links'
  <1>1. at \in 1 .. Len(blocks) /\ blocks[at] \in Blocks /\ mem \in Blocks
    BY DEF Types, Whole
  <1>2. Described \in Blocks /\ Described.next = mem.next /\ Described.data = blocks[at].data
    BY <1>1 DEF Described, Blocks
  <1> QED
    BY <1>1, <1>2, ChangedBlock

\* Loading a block that is whole.
LEMMA LoadedBlock ==
    ASSUME Types, Links, NEW n, Whole(n), Load(n)
    PROVE  at' = n /\ at' \in Nat /\ mem' \in Blocks /\ Len(mem'.data) = B /\ Forward(n, mem'.next)
  BY DEF Types, Links, Whole, Load

----------------------------------------------------------------------------
(* The initial state, and calls                                            *)

LEMMA InitInv == Init => IInv
  <1> SUFFICES ASSUME Init PROVE IInv
    OBVIOUS
  <1>1. desc \in Descriptors /\ kept = desc /\ fd = desc /\ desc.first = 0 /\ desc.last = 0
    BY DEF Init, Descriptors
  <1>2. blocks \in Seq(Blocks) /\ Len(blocks) = 0
    BY DEF Init
  <1>3. mem \in Blocks
    BY ConstantBlocks DEF Init
  <1>4. args \in [set : BOOLEAN, off : Nat, len : Nat, byte : Nat] /\ args.len = 0
    BY DEF Init, NoCall
  <1>5. Types
    BY <1>1, <1>2, <1>3, <1>4 DEF Init, Types, PC
  <1>6. DiskInv
    BY <1>1, <1>2 DEF DiskInv, Sound, Links
  <1>7. CallInv
    BY <1>4 DEF Init, CallInv, Loaded
  <1> QED
    BY <1>5, <1>6, <1>7 DEF IInv

\* A call begins with a descriptor that is sound.
LEMMA CallStep ==
    ASSUME IInv, NEW d \in Descriptors, Sound(d),
           NEW a \in [set : BOOLEAN, off : Nat, len : Nat, byte : Nat], Call(d, a)
    PROVE  IInv'
  <1>1. Types' /\ blocks' = blocks
    <2>1. ops' \in Nat /\ boff' \in Nat /\ written' \in Nat /\ pc' \in PC
      BY DEF IInv, Types, Call, PC
    <2> QED
      BY <2>1 DEF IInv, Types, Call, diskVars
  <1>2. DiskInv'
    BY <1>1 DEF IInv, DiskInv, Links, Sound, Forward, Whole, Call, diskVars
  <1>3. CallInv'
    BY DEF Call, CallInv, Loaded
  <1> QED
    BY <1>1, <1>2, <1>3 DEF IInv

LEMMA WriteToFileStep ==
    ASSUME IInv, NEW off \in Nat, NEW len \in Nat, WriteToFile(off, len)
    PROVE  IInv'
  <1>1. [set |-> FALSE, off |-> off, len |-> len, byte |-> ops + 1]
            \in [set : BOOLEAN, off : Nat, len : Nat, byte : Nat]
    BY DEF IInv, Types
  <1>2. kept \in Descriptors /\ Sound(kept)
    BY DEF IInv, Types, DiskInv
  <1> QED
    BY <1>1, <1>2, CallStep DEF WriteToFile

LEMMA SetStep ==
    ASSUME IInv, NEW len \in Nat, Set(len)
    PROVE  IInv'
  <1>1. [set |-> TRUE, off |-> 0, len |-> len, byte |-> ops + 1]
            \in [set : BOOLEAN, off : Nat, len : Nat, byte : Nat]
    BY DEF IInv, Types
  <1>2. desc \in Descriptors /\ Sound(desc)
    BY DEF IInv, Types, DiskInv
  <1> QED
    BY <1>1, <1>2, CallStep DEF Set

----------------------------------------------------------------------------
(* The steps of a call                                                     *)

LEMMA FirstBlockStep ==
    ASSUME IInv, FirstBlock
    PROVE  IInv'
  <1>1. /\ blocks' \in Seq(Blocks) /\ Len(blocks') = Len(blocks) + 1
        /\ \A n : Whole(n) => Whole(n)'
        /\ Links'
    BY NewBlock DEF IInv, DiskInv, FirstBlock
  <1>2. Types'
    BY <1>1 DEF IInv, Types, FirstBlock, callVars, ghosts, PC
  <1>3. DiskInv'
    BY <1>1, SoundStays DEF IInv, DiskInv, Sound, FirstBlock, callVars
  <1>4. CallInv'
    BY <1>1 DEF IInv, Types, CallInv, Loaded, FirstBlock, callVars
  <1> QED
    BY <1>2, <1>3, <1>4 DEF IInv

LEMMA FirstPayloadStep ==
    ASSUME IInv, FirstPayload
    PROVE  IInv'
  <1>1. /\ blocks' \in Seq(Blocks) /\ Len(blocks') = Len(blocks)
        /\ \A n : Whole(n) => Whole(n)'
        /\ Links' /\ Whole(Len(blocks))'
    BY PayloadWritten DEF IInv, DiskInv, CallInv, FirstPayload
  <1>2. Len(blocks) \in Nat /\ Len(blocks) # 0
    BY DEF IInv, Types, CallInv, FirstPayload
  <1>3. fd' \in Descriptors /\ fd'.first = Len(blocks) /\ fd'.last = Len(blocks)
    BY <1>2 DEF IInv, Types, Descriptors, FirstPayload
  <1>4. Types'
    BY <1>1, <1>3 DEF IInv, Types, FirstPayload, ghosts, PC
  <1>5. DiskInv'
    <2>1. Sound(fd)'
      BY <1>1, <1>2, <1>3 DEF Sound
    <2> QED
      BY <1>1, <2>1, SoundStays DEF IInv, DiskInv, Sound, FirstPayload
  <1>6. CallInv'
    BY <1>2, <1>3 DEF IInv, CallInv, Loaded, FirstPayload
  <1> QED
    BY <1>4, <1>5, <1>6 DEF IInv

\* Where nothing is written to the disk and no descriptor changes.
LEMMA DiskStays ==
    ASSUME DiskInv, blocks' = blocks, desc' = desc, kept' = kept, fd' = fd
    PROVE  DiskInv' /\ \A n : Whole(n)' <=> Whole(n)
  BY DEF DiskInv, Links, Sound, Forward, Whole

LEMMA FindStep ==
    ASSUME IInv, Find
    PROVE  IInv'
  <1>1. DiskInv' /\ \A n : Whole(n)' <=> Whole(n)
    BY DiskStays DEF IInv, Find, diskVars
  <1>2. Whole(fd.first) /\ Whole(fd.last)
    BY DEF IInv, DiskInv, Sound, CallInv, Find
  <1>3. Whole(at)' /\ at' \in Nat /\ mem' \in Blocks /\ Len(mem'.data) = B /\ Forward(at, mem.next)'
    <2>1. PICK n \in {fd.first, fd.last} : Load(n)
      BY DEF Find
    <2>2. at' = n /\ at' \in Nat /\ mem' \in Blocks /\ Len(mem'.data) = B /\ Forward(n, mem'.next)
      BY <1>2, <2>1, LoadedBlock DEF IInv, DiskInv
    <2> QED
      BY <1>1, <1>2, <2>2 DEF Forward
  <1>4. pc' \in {"fill", "create", "walk"} /\ boff' \in Nat
    BY DEF IInv, Types, Find
  <1>5. Types'
    BY <1>3, <1>4 DEF IInv, Types, Find, diskVars, PC
  <1>6. CallInv'
    BY <1>3, <1>4 DEF IInv, CallInv, Loaded, Find
  <1> QED
    BY <1>1, <1>5, <1>6 DEF IInv

\* A step from one loaded block to the next, or to the end of the chain.
LEMMA NextLoaded ==
    ASSUME IInv, Loaded, blocks' = blocks,
           \/ UNCHANGED <<at, mem>>
           \/ mem.next # 0 /\ Load(mem.next)
    PROVE  /\ Whole(at)' /\ at' \in Nat /\ mem' \in Blocks
           /\ Len(mem'.data) = B /\ Forward(at, mem.next)'
  <1>1. /\ Whole(at) /\ Len(mem.data) = B /\ Forward(at, mem.next)
        /\ \A n : Whole(n)' <=> Whole(n)
    BY DEF IInv, CallInv, Whole
  <1>2. CASE UNCHANGED <<at, mem>>
    BY <1>1, <1>2 DEF IInv, Types, Forward
  <1>3. CASE mem.next # 0 /\ Load(mem.next)
    <2>1. Whole(mem.next)
      BY <1>1, <1>3 DEF Forward
    <2>2. /\ at' = mem.next /\ at' \in Nat /\ mem' \in Blocks
          /\ Len(mem'.data) = B /\ Forward(mem.next, mem'.next)
      BY <1>3, <2>1, LoadedBlock DEF IInv, DiskInv
    <2> QED
      BY <1>1, <2>1, <2>2 DEF Forward
  <1> QED
    BY <1>2, <1>3

LEMMA WalkStep ==
    ASSUME IInv, Walk
    PROVE  IInv'
  <1>1. DiskInv' /\ blocks' = blocks
    BY DiskStays DEF IInv, Walk, diskVars
  <1>2. Whole(at)' /\ at' \in Nat /\ mem' \in Blocks /\ Len(mem'.data) = B /\ Forward(at, mem.next)'
    <2>1. Loaded
      BY DEF Walk, Loaded
    <2> QED
      BY <1>1, <2>1, NextLoaded DEF Walk
  <1>3. pc' \in {"fill", "create", "walk"} /\ boff' \in Nat
    BY ConstantBlocks DEF IInv, Types, Walk
  <1>4. Types'
    BY <1>2, <1>3 DEF IInv, Types, Walk, diskVars, ghosts, PC
  <1>5. CallInv'
    BY <1>2, <1>3 DEF IInv, CallInv, Loaded, Walk
  <1> QED
    BY <1>1, <1>4, <1>5 DEF IInv

LEMMA CreateStep ==
    ASSUME IInv, Create
    PROVE  IInv'
  <1>1. /\ blocks' \in Seq(Blocks) /\ Len(blocks') = Len(blocks) + 1
        /\ \A n : Whole(n) => Whole(n)'
        /\ Links'
    BY NewBlock DEF IInv, DiskInv, Create
  <1>2. Types'
    BY <1>1 DEF IInv, Types, Create, callVars, ghosts, PC
  <1>3. DiskInv'
    BY <1>1, SoundStays DEF IInv, DiskInv, Sound, Create, callVars
  <1>4. CallInv'
    <2>1. Whole(at) /\ Len(mem.data) = B /\ Forward(at, mem.next) /\ fd.first # 0
      BY DEF IInv, CallInv, Loaded, Create
    <2>2. at < Len(blocks')
      BY <1>1, <2>1 DEF IInv, Types, Whole
    <2>3. Whole(at)' /\ Forward(at, mem.next)'
      BY <1>1, <2>1 DEF Forward, Create, callVars
    <2> QED
      BY <2>1, <2>2, <2>3 DEF IInv, CallInv, Create, callVars
  <1> QED
    BY <1>2, <1>3, <1>4 DEF IInv

LEMMA PayloadStep ==
    ASSUME IInv, Payload
    PROVE  IInv'
  <1>1. /\ Whole(at) /\ Len(mem.data) = B /\ fd.first # 0
        /\ at < Len(blocks) /\ Len(blocks) \in Nat /\ at \in Nat
    BY DEF IInv, Types, CallInv, Loaded, Payload
  <1>2. /\ blocks' \in Seq(Blocks) /\ Len(blocks') = Len(blocks)
        /\ \A n : Whole(n) => Whole(n)'
        /\ Links' /\ Whole(Len(blocks))'
    BY <1>1, PayloadWritten DEF IInv, DiskInv, Payload
  <1>3. mem' \in Blocks /\ mem'.next = Len(blocks) /\ mem'.data = mem.data
    BY <1>1 DEF IInv, Types, Blocks, Payload
  <1>4. fd' \in Descriptors /\ fd'.first = fd.first /\ fd'.last = Len(blocks)
    BY <1>1 DEF IInv, Types, Descriptors, Payload
  <1>5. Types'
    BY <1>2, <1>3, <1>4 DEF IInv, Types, Payload, ghosts, PC
  <1>6. DiskInv'
    <2>1. Sound(fd)'
      BY <1>1, <1>2, <1>4 DEF IInv, DiskInv, Sound
    <2> QED
      BY <1>2, <2>1, SoundStays DEF IInv, DiskInv, Sound, Payload
  <1>7. CallInv'
    <2>1. Whole(at)' /\ Forward(at, mem.next)'
      BY <1>1, <1>2, <1>3 DEF Forward, Payload
    <2> QED
      BY <1>1, <1>3, <1>4, <2>1 DEF IInv, CallInv, Payload
  <1> QED
    BY <1>5, <1>6, <1>7 DEF IInv

LEMMA LinkStep ==
    ASSUME IInv, Link
    PROVE  IInv'
  <1>1. Whole(at) /\ Len(mem.data) = B /\ Forward(at, mem.next) /\ fd.first # 0
    BY DEF IInv, CallInv, Loaded, Link
  <1>2. /\ blocks' \in Seq(Blocks) /\ Len(blocks') = Len(blocks)
        /\ \A n : Whole(n) => Whole(n)'
        /\ Links'
    BY <1>1, BlockDescribed DEF IInv, DiskInv, Link
  <1>3. Types'
    BY <1>2 DEF IInv, Types, Link, callVars, ghosts, PC
  <1>4. DiskInv'
    BY <1>2, SoundStays DEF IInv, DiskInv, Sound, Link, callVars
  <1>5. CallInv'
    <2>1. Whole(at)' /\ Forward(at, mem.next)'
      BY <1>1, <1>2 DEF Forward, Link, callVars
    <2> QED
      BY <1>1, <2>1 DEF IInv, CallInv, Link, callVars
  <1> QED
    BY <1>3, <1>4, <1>5 DEF IInv

LEMMA DescribeStep ==
    ASSUME IInv, Describe
    PROVE  IInv'
  <1>1. Sound(fd) /\ fd \in Descriptors /\ fd.first # 0
    BY DEF IInv, Types, DiskInv, CallInv, Describe
  <1>2. \A n : Whole(n)' <=> Whole(n)
    BY DEF Describe, Whole
  <1>3. DiskInv'
    BY <1>1, <1>2 DEF IInv, DiskInv, Links, Sound, Forward, Describe
  <1>4. Whole(at)' /\ at' \in Nat /\ mem' \in Blocks /\ Len(mem'.data) = B /\ Forward(at, mem.next)'
    <2>1. Whole(fd.last)
      BY <1>1 DEF Sound
    <2>2. /\ at' = fd.last /\ at' \in Nat /\ mem' \in Blocks
          /\ Len(mem'.data) = B /\ Forward(fd.last, mem'.next)
      BY <2>1, LoadedBlock DEF IInv, DiskInv, Describe
    <2> QED
      BY <1>2, <2>1, <2>2 DEF Forward
  <1>5. Types'
    BY <1>1, <1>4 DEF IInv, Types, Describe, ghosts, PC
  <1>6. CallInv'
    BY <1>1, <1>4 DEF IInv, CallInv, Describe
  <1> QED
    BY <1>3, <1>5, <1>6 DEF IInv

LEMMA FillStep ==
    ASSUME IInv, Fill
    PROVE  IInv'
  <1>1. DiskInv' /\ \A n : Whole(n)' <=> Whole(n)
    BY DiskStays DEF IInv, Fill, diskVars
  <1>2. /\ Whole(at) /\ Len(mem.data) = B /\ Forward(at, mem.next)
        /\ written <= args.len /\ fd.first # 0
    BY DEF IInv, CallInv, Loaded, Fill
  <1>3. /\ pc' \in {"finish", "used", "data"}
        /\ mem' \in Blocks /\ Len(mem'.data) = B /\ mem'.next = mem.next
        /\ written' \in Nat /\ written' <= args.len
    <2>1. CASE written = args.len
      BY <1>2, <2>1 DEF IInv, Types, Fill
    <2>2. CASE written # args.len
      <3> DEFINE n == IF args.len - written < B - Cursor THEN args.len - written ELSE B - Cursor
                 end == Cursor + n
                 data == [i \in 1 .. B |-> IF i \in Cursor + 1 .. end THEN args.byte ELSE mem.data[i]]
      <3>1. Cursor \in Nat /\ Cursor < B
        BY ConstantBlocks DEF IInv, Types, Cursor
      <3>2. n \in Nat /\ n <= args.len - written /\ end \in Nat
        BY <1>2, <3>1, ConstantBlocks DEF IInv, Types
      <3>3. data \in Seq(Nat) /\ Len(data) = B
        <4>1. \A i \in 1 .. B : mem.data[i] \in Nat
          BY <1>2 DEF IInv, Types, Blocks
        <4>2. args.byte \in Nat /\ B \in Nat
          BY ConstantBlocks DEF IInv, Types
        <4>3. data \in [1 .. B -> Nat]
          BY <4>1, <4>2
        <4> HIDE DEF data
        <4> QED
          BY <4>2, <4>3
      <3>4. /\ mem' = [mem EXCEPT !.used = IF end > @ THEN end ELSE @, !.data = data]
            /\ written' = written + n
            /\ pc' \in {"used", "data"}
        <4>1. data = [i \in 1 .. B |-> IF i \in Cursor + 1 .. end
                                       THEN args.byte ELSE mem.data[i]]
          OBVIOUS
        <4> QED
          BY <2>2 DEF Fill
      <3> DEFINE used == IF end > mem.used THEN end ELSE mem.used
      <3>5. used \in Nat
        BY <3>2 DEF IInv, Types, Blocks
      <3>6. mem' = [mem EXCEPT !.used = used, !.data = data]
        BY <3>4
      <3> HIDE DEF n, end, data, used
      <3>7. mem' \in Blocks /\ mem'.data = data /\ mem'.next = mem.next
        BY <3>3, <3>5, <3>6 DEF IInv, Types, Blocks
      <3>8. written' \in Nat /\ written' <= args.len
        BY <1>2, <3>2, <3>4 DEF IInv, Types
      <3> QED
        BY <3>3, <3>4, <3>7, <3>8
    <2> QED
      BY <2>1, <2>2
  <1>4. Types'
    BY <1>3 DEF IInv, Types, Fill, diskVars, ghosts, PC
  <1>5. CallInv'
    BY <1>1, <1>2, <1>3 DEF IInv, CallInv, Loaded, Forward, Fill
  <1> QED
    BY <1>1, <1>4, <1>5 DEF IInv

LEMMA UsedBytesStep ==
    ASSUME IInv, UsedBytes
    PROVE  IInv'
  <1>1. Whole(at) /\ Len(mem.data) = B /\ Forward(at, mem.next) /\ fd.first # 0
    BY DEF IInv, CallInv, Loaded, UsedBytes
  <1>2. /\ blocks' \in Seq(Blocks) /\ Len(blocks') = Len(blocks)
        /\ \A n : Whole(n) => Whole(n)'
        /\ Links'
    BY <1>1, BlockDescribed DEF IInv, DiskInv, UsedBytes
  <1>3. Types'
    BY <1>2 DEF IInv, Types, UsedBytes, callVars, ghosts, PC
  <1>4. DiskInv'
    BY <1>2, SoundStays DEF IInv, DiskInv, Sound, UsedBytes, callVars
  <1>5. CallInv'
    <2>1. Whole(at)' /\ Forward(at, mem.next)'
      BY <1>1, <1>2 DEF Forward, UsedBytes, callVars
    <2> QED
      BY <1>1, <2>1 DEF IInv, CallInv, UsedBytes, callVars
  <1> QED
    BY <1>3, <1>4, <1>5 DEF IInv

LEMMA DataStep ==
    ASSUME IInv, Data
    PROVE  IInv'
  <1>1. /\ Whole(at) /\ Len(mem.data) = B /\ Forward(at, mem.next) /\ fd.first # 0
        /\ written <= args.len /\ mem \in Blocks
    BY DEF IInv, Types, CallInv, Loaded, Data
  <1> DEFINE x == [blocks[at] EXCEPT !.data = mem.data]
  <1>2. at \in 1 .. Len(blocks) /\ blocks[at] \in Blocks
    BY <1>1 DEF IInv, Types, Whole
  <1>3. x \in Blocks /\ Len(x.data) = B /\ x.next = blocks[at].next
    BY <1>1, <1>2 DEF Blocks
  <1>4. blocks' = [blocks EXCEPT ![at] = x]
    BY DEF Data
  <1>5. Forward(at, x.next)
    BY <1>2, <1>3 DEF IInv, DiskInv, Links
  <1>6. /\ blocks' \in Seq(Blocks) /\ Len(blocks') = Len(blocks)
        /\ \A n : Whole(n) => Whole(n)'
        /\ Links'
    <2> HIDE DEF x
    <2> QED
      BY <1>2, <1>3, <1>4, <1>5, ChangedBlock DEF IInv, DiskInv
  <1>7. /\ pc' \in {"finish", "create", "fill"} /\ boff' \in Nat
        /\ Whole(at)' /\ at' \in Nat /\ mem' \in Blocks
        /\ Len(mem'.data) = B /\ Forward(at, mem.next)'
    <2>1. /\ pc' \in {"finish", "create", "fill"} /\ boff' \in Nat
          /\ \/ UNCHANGED <<at, mem>>
             \/ mem.next # 0 /\ Load(mem.next)
      BY ConstantBlocks DEF IInv, Types, Data
    <2>2. CASE UNCHANGED <<at, mem>>
      <3>1. Whole(at)' /\ Forward(at, mem.next)'
        BY <1>1, <1>6, <2>2 DEF Forward
      <3> QED
        BY <1>1, <2>1, <2>2, <3>1 DEF IInv, Types
    <2>3. CASE mem.next # 0 /\ Load(mem.next)
      <3>1. Whole(mem.next)
        BY <1>1, <2>3 DEF Forward
      <3>2. /\ at' = mem.next /\ at' \in Nat /\ mem' \in Blocks
            /\ Len(mem'.data) = B /\ Forward(mem.next, mem'.next)
        BY <2>3, <3>1, LoadedBlock DEF IInv, DiskInv
      <3> QED
        BY <1>6, <2>1, <3>1, <3>2 DEF Forward
    <2> QED
      BY <2>1, <2>2, <2>3
  <1>8. Types'
    BY <1>6, <1>7 DEF IInv, Types, Data, ghosts, PC
  <1>9. DiskInv'
    BY <1>6, SoundStays DEF IInv, DiskInv, Sound, Data
  <1>10. CallInv'
    BY <1>1, <1>7 DEF IInv, CallInv, Data
  <1> QED
    BY <1>8, <1>9, <1>10 DEF IInv

LEMMA FinishStep ==
    ASSUME IInv, Finish
    PROVE  IInv'
  <1>1. NewSize \in Nat
    BY DEF IInv, Types, Descriptors, NewSize
  <1>2. /\ fd' \in Descriptors /\ fd'.first = fd.first /\ fd'.last = fd.last
        /\ desc' \in {fd', desc} /\ kept' \in {fd', kept}
    BY <1>1 DEF IInv, Types, Descriptors, Finish
  <1>3. Types'
    BY <1>2 DEF IInv, Types, Finish, PC
  <1>4. DiskInv'
    <2>1. \A n : Whole(n)' <=> Whole(n)
      BY DEF Finish, Whole
    <2>2. Links'
      BY <2>1 DEF IInv, DiskInv, Links, Forward, Finish
    <2>3. Sound(fd)' /\ \A d : Sound(d) => Sound(d)'
      BY <1>2, <2>1 DEF IInv, DiskInv, Sound
    <2> QED
      BY <1>2, <2>2, <2>3 DEF IInv, DiskInv, Sound
  <1>5. CallInv'
    BY DEF IInv, CallInv, Loaded, Finish
  <1> QED
    BY <1>3, <1>4, <1>5 DEF IInv

\* After a crash nothing of the call is left but what is on disk.
LEMMA ReloadCrashStep ==
    ASSUME IInv, Reload \/ Crash
    PROVE  IInv'
  <1>1. /\ blocks' = blocks /\ desc' = desc /\ kept' = desc /\ fd' = fd
        /\ at' = at /\ mem' = mem /\ args' = args /\ boff' = boff /\ written' = written
        /\ pc' = "idle" /\ ops' \in Nat
    BY DEF IInv, Types, Reload, Crash, diskVars, callVars, ghosts
  <1>2. Types'
    BY <1>1 DEF IInv, Types, PC
  <1>3. DiskInv'
    BY <1>1 DEF IInv, DiskInv, Links, Sound, Forward, Whole
  <1>4. CallInv'
    BY <1>1 DEF IInv, CallInv, Loaded
  <1> QED
    BY <1>2, <1>3, <1>4 DEF IInv

LEMMA StutterStep ==
    ASSUME IInv, UNCHANGED vars
    PROVE  IInv'
  BY DEF IInv, Types, DiskInv, Links, Sound, Forward, Whole, CallInv, Loaded,
         vars, diskVars, callVars, ghosts

----------------------------------------------------------------------------
(* Theorems                                                                *)

LEMMA NextInv == IInv /\ [Next]_vars => IInv'
  <1> SUFFICES ASSUME IInv, [Next]_vars PROVE IInv'
    OBVIOUS
  <1>1. ASSUME NEW off \in 0 .. B * MaxOps, NEW len \in 1 .. MaxLen, WriteToFile(off, len)
        PROVE  IInv'
    BY <1>1, WriteToFileStep, StoreFileConstants
  <1>2. ASSUME NEW len \in 0 .. MaxLen, Set(len)
        PROVE  IInv'
    BY <1>2, SetStep, StoreFileConstants
  <1>3. CASE Proceed
    BY <1>3, FirstBlockStep, FirstPayloadStep, FindStep, WalkStep, CreateStep, PayloadStep,
       LinkStep, DescribeStep, FillStep, UsedBytesStep, DataStep, FinishStep DEF Proceed
  <1>4. CASE Reload \/ Crash
    BY <1>4, ReloadCrashStep
  <1>5. CASE UNCHANGED vars
    BY <1>5, StutterStep
  <1> QED
    BY <1>1, <1>2, <1>3, <1>4, <1>5 DEF Next

\* Descriptors and links are sound at every instant, in memory and on disk.
THEOREM Invariance == Spec => []IInv
  <1>1. Init => IInv
    BY InitInv
  <1>2. IInv /\ [Next]_vars => IInv'
    BY NextInv
  <1> QED
    BY <1>1, <1>2, PTL DEF Spec

LEMMA ChainEndsInv == IInv => ChainEnds
  <1> SUFFICES ASSUME IInv PROVE ChainEnds
    OBVIOUS
  <1>1. ASSUME NEW n \in 1 .. Len(blocks), blocks[n].next # 0 PROVE blocks[n].next > n
    BY <1>1 DEF IInv, DiskInv, Links, Forward
  <1>2. ASSUME NEW n \in Linked \ {0} PROVE n <= Len(blocks) /\ Len(blocks[n].data) = B
    <2>1. Whole(n)
      BY <1>2 DEF IInv, DiskInv, Links, Sound, Forward, Linked
    <2> QED
      BY <2>1 DEF Whole, IInv, Types
  <1> QED
    BY <1>1, <1>2 DEF ChainEnds

\* For any block size, any calls and a crash between any two writes to the disk: a chain ends, and
\* no block that a link or the descriptor leads to lacks its payload (writeToFile, createDataBlock).
THEOREM ChainEndsTheorem == Spec => []ChainEnds
  <1>1. Spec => []IInv
    BY Invariance
  <1>2. IInv => ChainEnds
    BY ChainEndsInv
  <1> QED
    BY <1>1, <1>2, PTL

----------------------------------------------------------------------------
(* The invariant of what a file holds                                      *)

\* The steps of a chain, once; they lead forward.
IsChain(bs, s, c) ==
    /\ c \in Seq(1 .. Len(bs))
    /\ s = 0 <=> Len(c) = 0
    /\ Len(c) # 0 => c[1] = s /\ bs[c[Len(c)]].next = 0
    /\ \A i \in 1 .. Len(c) - 1 : bs[c[i]].next = c[i + 1]
    /\ \A i, j \in 1 .. Len(c) : i < j => c[i] < c[j]

\* Where the bytes of the j-th block begin.
Base(j) == B * (j - 1)

\* All blocks but the last are full, and they cover the size.
Full(bs, c) == \A i \in 1 .. Len(c) :
    bs[c[i]].used <= B /\ (i < Len(c) => bs[c[i]].used = B)
EndOf(bs, c) == IF Len(c) = 0 THEN 0 ELSE Base(Len(c)) + bs[c[Len(c)]].used
Covered(bs, c, size) == size <= EndOf(bs, c)

\* The bytes up to a size are those of a text, but for some places.
Bytes(bs, c, size, text, but) == \A j \in 1 .. Len(c), o \in 1 .. B :
    Base(j) + o <= size /\ Base(j) + o \notin but => bs[c[j]].data[o] = text[Base(j) + o]

File(bs, s, c, size, text, but) ==
    IsChain(bs, s, c) /\ Full(bs, c) /\ Covered(bs, c, size) /\ Bytes(bs, c, size, text, but)

\* The first block: that of the loaded descriptor, once it names one.
Root == IF pc \in {"idle", "first", "firstpay"} THEN desc.first ELSE fd.first

\* The places a call writes, and those it has written.
Places == args.off + 1 .. args.off + args.len
Done == args.off + 1 .. args.off + written
But == IF pc = "idle" THEN {} ELSE Places

\* What is on disk.
OnDisk(c) ==
    /\ content \in Seq(Nat) /\ Len(content) = desc.size
    /\ File(blocks, Root, c, desc.size, content, But)
    /\ desc.first \in {0, Root} /\ (desc.first = 0 => desc.size = 0)
    /\ desc.last # 0 => \E i \in 1 .. Len(c) : desc.last = c[i]

\* A block that was appended and holds nothing, and to which nothing leads but the call.
IsNew(n) == blocks[n].next = 0 /\ blocks[n].used = 0

\* What the call under way knows of its descriptor, ...
InCall(c) ==
    /\ pc # "idle" => fd.size = desc.size /\ args.off <= fd.size
    /\ pc \in {"first", "firstpay"} => fd = desc /\ desc.first = 0
    /\ pc \in {"first", "firstpay", "find", "walk"} => written = 0
    /\ pc \in {"first", "firstpay", "find"} => boff = 0
    /\ pc = "firstpay" => IsNew(Len(blocks))
    /\ pc \notin {"idle", "first", "firstpay", "link"} =>
          \E i \in 1 .. Len(c) : fd.last = c[i]

\* ... of the block it has loaded, ...
AtNode(c, j) == at = c[j] /\ boff = Base(j)

InWalk(c) == pc = "walk" =>
    \E j \in 1 .. Len(c) : AtNode(c, j) /\ mem = blocks[at] /\ boff <= args.off

InFill(c) == pc = "fill" =>
    \E j \in 1 .. Len(c) :
        /\ AtNode(c, j) /\ mem = blocks[at]
        /\ boff <= args.off + written
        /\ args.off + written <= boff + mem.used
        /\ args.off + written < boff + B
        /\ written > 0 => args.off + written = boff

InCopy(c) == pc \in {"used", "data"} =>
    \E j \in 1 .. Len(c) :
        /\ AtNode(c, j) /\ mem.next = blocks[at].next
        /\ blocks[at].used <= mem.used /\ mem.used <= B
        /\ pc = "data" => blocks[at].used = mem.used
        /\ \A o \in 1 .. B : mem.data[o] =
               IF boff + o \in Done THEN args.byte ELSE blocks[at].data[o]
        /\ args.off + written <= boff + mem.used
        /\ written < args.len => args.off + written = boff + B

\* ... of the block it appends to the last one, ...
InCreate(c) == pc \in {"create", "pay", "link"} =>
    /\ at = c[Len(c)] /\ boff = Base(Len(c)) + B /\ args.off + written = boff
    /\ blocks[at].used = B
    /\ pc # "link" => mem = blocks[at]
    /\ pc = "link" => mem = [blocks[at] EXCEPT !.next = Len(blocks)] /\ fd.last = Len(blocks)
    /\ pc # "create" => at < Len(blocks) /\ IsNew(Len(blocks))

InDescribe(c) == pc = "describe" =>
    /\ fd.last = c[Len(c)] /\ boff = Base(Len(c)) /\ args.off + written = boff
    /\ blocks[fd.last].used = 0

\* ... and of what it has written.
InFinish(c) ==
    /\ pc = "finish" => written = args.len /\ Covered(blocks, c, args.off + args.len)
    /\ pc # "idle" =>
          \A j \in 1 .. Len(c), o \in 1 .. B :
              /\ Base(j) + o \in Done
              /\ pc \in {"used", "data"} => Base(j) + o <= boff
              => blocks[c[j]].data[o] = args.byte

Held(c) ==
    /\ OnDisk(c) /\ InCall(c)
    /\ InWalk(c) /\ InFill(c) /\ InCopy(c) /\ InCreate(c) /\ InDescribe(c) /\ InFinish(c)

HeldInv == Sane => \E c : Held(c)

\* No link leads back.
Onward(bs) == \A n \in 1 .. Len(bs) : bs[n].next # 0 => bs[n].next \in n + 1 .. Len(bs)

----------------------------------------------------------------------------
(* Sets of naturals                                                        *)

\* A set of naturals that is not empty has a least element.
LEMMA LeastNatural ==
    ASSUME NEW T \in SUBSET Nat, T # {}
    PROVE  \E m \in T : \A n \in T : m <= n
  <1>1. PICK m \in T : \A n \in T : <<n, m>> \notin OpToRel(<, Nat)
    BY WFMin, NatLessThanWellFounded
  <1>2. \A n \in T : ~(n < m)
    BY <1>1 DEF OpToRel
  <1> QED
    BY <1>2

----------------------------------------------------------------------------
(* The steps of a chain                                                    *)

\* What the i-th step of a way is, given those before.
StepOf(g, bs, s, i) == IF i = 1 THEN s ELSE IF g[i - 1] = 0 THEN 0 ELSE bs[g[i - 1]].next

\* There is a way of any length.
LEMMA WayExists ==
    ASSUME NEW bs, NEW s, NEW n \in Nat
    PROVE  \E g : \A i \in 1 .. n : g[i] = StepOf(g, bs, s, i)
  <1> DEFINE Way(m) == \E g : \A i \in 1 .. m : g[i] = StepOf(g, bs, s, i)
             T == {m \in Nat : ~Way(m)}
  <1>1. SUFFICES ASSUME T # {} PROVE FALSE
    OBVIOUS
  <1>2. PICK m \in T : \A k \in T : m <= k
    BY <1>1, LeastNatural
  <1>3. m \in Nat /\ ~Way(m)
    OBVIOUS
  <1>4. Way(0)
    OBVIOUS
  <1>5. m # 0 /\ m - 1 \in Nat /\ ~(m <= m - 1)
    BY <1>3, <1>4
  <1>6. Way(m - 1)
    BY <1>2, <1>5
  <1>7. PICK g : \A i \in 1 .. m - 1 : g[i] = StepOf(g, bs, s, i)
    BY <1>6
  <1> DEFINE h == [i \in 1 .. m |-> IF i = m THEN StepOf(g, bs, s, m) ELSE g[i]]
  <1>8. ASSUME NEW i \in 1 .. m PROVE h[i] = StepOf(h, bs, s, i)
    <2>1. CASE i # m
      <3>1. i \in 1 .. m - 1 /\ h[i] = g[i] /\ (i # 1 => h[i - 1] = g[i - 1])
        BY <1>3, <2>1
      <3> QED
        BY <1>7, <3>1 DEF StepOf
    <2>2. CASE i = m
      <3>1. h[i] = StepOf(g, bs, s, m) /\ (i # 1 => h[i - 1] = g[i - 1])
        BY <1>3, <1>5, <2>2
      <3> QED
        BY <2>2, <3>1 DEF StepOf
    <2> QED
      BY <2>1, <2>2
  <1>9. Way(m)
    <2> HIDE DEF h
    <2> QED
      BY <1>8
  <1> QED
    BY <1>3, <1>9

\* The steps are what their recursive definition says.
LEMMA StepsAre ==
    ASSUME NEW bs, Len(bs) \in Nat, NEW s
    PROVE  /\ Steps(bs, s) = [i \in 1 .. Len(bs) |-> StepOf(Steps(bs, s), bs, s, i)]
  <1> DEFINE IsWay(g) == g = [i \in 1 .. Len(bs) |->
                                 IF i = 1 THEN s ELSE IF g[i - 1] = 0 THEN 0 ELSE bs[g[i - 1]].next]
  <1>1. PICK h : \A i \in 1 .. Len(bs) : h[i] = StepOf(h, bs, s, i)
    BY WayExists
  <1> DEFINE g == [i \in 1 .. Len(bs) |-> h[i]]
  <1>2. IsWay(g)
    <2>1. ASSUME NEW i \in 1 .. Len(bs) 
          PROVE  g[i] = IF i = 1 THEN s ELSE IF g[i - 1] = 0 THEN 0 ELSE bs[g[i - 1]].next
      <3>1. g[i] = h[i] /\ (i # 1 => g[i - 1] = h[i - 1])
        OBVIOUS
      <3> QED
        BY <1>1, <3>1 DEF StepOf
    <2> QED
      BY <2>1
  <1>3. Steps(bs, s) = CHOOSE f : IsWay(f)
    BY DEF Steps
  <1>4. IsWay(Steps(bs, s))
    <2> HIDE DEF IsWay, g
    <2> QED
      BY <1>2, <1>3
  <1> QED
    BY <1>4 DEF StepOf

\* Links lead forward, so that a chain ends.
LEMMA WayOrdered ==
    ASSUME NEW bs \in Seq(Blocks), Onward(bs), NEW s \in 0 .. Len(bs)
    PROVE  /\ Len(bs) \in Nat
           /\ Len(bs) # 0 => Steps(bs, s)[1] = s
           /\ \A i \in 1 .. Len(bs) - 1 :
                Steps(bs, s)[i + 1] = IF Steps(bs, s)[i] = 0 THEN 0 ELSE bs[Steps(bs, s)[i]].next
           /\ \A i \in 1 .. Len(bs) : Steps(bs, s)[i] \in 0 .. Len(bs)
           /\ \A i \in 1 .. Len(bs) : Steps(bs, s)[i] # 0 => Steps(bs, s)[i] >= i
           /\ \A i, j \in 1 .. Len(bs) :
                i < j /\ Steps(bs, s)[j] # 0 => Steps(bs, s)[i] # 0 /\ Steps(bs, s)[i] < Steps(bs, s)[j]
  <1>1. Len(bs) \in Nat
    OBVIOUS
  <1>2. PICK L \in Nat : L = Len(bs)
    BY <1>1
  <1>3. PICK g : g = Steps(bs, s)
    OBVIOUS
  <1>4. g = [i \in 1 .. L |-> StepOf(g, bs, s, i)]
    BY <1>1, <1>2, <1>3, StepsAre
  <1>5. \A i \in 1 .. L : g[i] = StepOf(g, bs, s, i)
    BY <1>4
  <1>6. L # 0 => g[1] = s
    BY <1>5 DEF StepOf
  <1>7. ASSUME NEW i \in 1 .. L - 1 PROVE g[i + 1] = IF g[i] = 0 THEN 0 ELSE bs[g[i]].next
    <2>1. i + 1 \in 1 .. L /\ i + 1 # 1 /\ (i + 1) - 1 = i
      OBVIOUS
    <2> QED
      BY <1>5, <2>1 DEF StepOf
  <1>8. \A n \in 1 .. L : bs[n].next # 0 => bs[n].next \in n + 1 .. L
    BY <1>2 DEF Onward
  <1> DEFINE Good(n) == g[n] \in 0 .. L /\ (g[n] # 0 => g[n] >= n)
             T == {n \in 1 .. L : ~Good(n)}
  <1>9. T = {}
    <2>1. SUFFICES ASSUME T # {} PROVE FALSE
      OBVIOUS
    <2> HIDE DEF Good
    <2>0. T \in SUBSET Nat
      OBVIOUS
    <2>2. PICK n \in T : \A k \in T : n <= k
      <3> HIDE DEF T
      <3> QED
        BY <2>0, <2>1, LeastNatural
    <2>3. n \in 1 .. L /\ ~Good(n)
      OBVIOUS
    <2> USE DEF Good
    <2>4. CASE n = 1
      BY <1>2, <1>6, <2>3, <2>4
    <2>5. CASE n # 1
      <3>1. n - 1 \in 1 .. L - 1 /\ n - 1 \in 1 .. L /\ ~(n <= n - 1) /\ (n - 1) + 1 = n
        BY <2>3, <2>5
      <3>2. Good(n - 1)
        BY <2>2, <3>1
      <3>3. g[n] = IF g[n - 1] = 0 THEN 0 ELSE bs[g[n - 1]].next
        BY <1>7, <3>1
      <3>4. CASE g[n - 1] = 0
        BY <2>3, <3>3, <3>4
      <3>5. CASE g[n - 1] # 0
        <4>1. PICK m \in 1 .. L : m = g[n - 1] /\ m >= n - 1
          BY <3>1, <3>2, <3>5
        <4>2. g[n] = bs[m].next
          BY <3>3, <3>5, <4>1
        <4>3. g[n] # 0 => g[n] \in m + 1 .. L
          BY <1>8, <4>1, <4>2
        <4> QED
          BY <2>3, <4>1, <4>3
      <3> QED
        BY <3>4, <3>5
    <2> QED
      BY <2>4, <2>5
  <1>10. \A n \in 1 .. L : Good(n)
    BY <1>9
  <1>11. ASSUME NEW i \in 1 .. L PROVE \A j \in 1 .. L : i < j /\ g[j] # 0 => g[i] # 0 /\ g[i] < g[j]
    <2> DEFINE Below(j) == i < j /\ g[j] # 0 => g[i] # 0 /\ g[i] < g[j]
               U == {j \in 1 .. L : ~Below(j)}
    <2>1. SUFFICES ASSUME U # {} PROVE FALSE
      OBVIOUS
    <2>0. U \in SUBSET Nat
      <3> HIDE DEF Below
      <3> QED
        OBVIOUS
    <2>2. PICK j \in U : \A k \in U : j <= k
      <3> HIDE DEF U
      <3> QED
        BY <2>0, <2>1, LeastNatural
    <2>3. j \in 1 .. L /\ ~Below(j) /\ i < j /\ g[j] # 0
      OBVIOUS
    <2>4. j - 1 \in 1 .. L - 1 /\ j - 1 \in 1 .. L /\ ~(j <= j - 1) /\ (j - 1) + 1 = j
      BY <2>3
    <2>5. g[j] = IF g[j - 1] = 0 THEN 0 ELSE bs[g[j - 1]].next
      BY <1>7, <2>4
    <2>6. PICK m \in 1 .. L : m = g[j - 1]
      BY <1>10, <2>3, <2>4, <2>5
    <2>7. g[j] \in m + 1 .. L
      BY <1>8, <2>3, <2>5, <2>6
    <2>8. Below(j - 1)
      BY <2>2, <2>4
    <2>9. CASE i = j - 1
      BY <2>3, <2>6, <2>7, <2>9
    <2>10. CASE i # j - 1
      <3>1. g[i] # 0 /\ g[i] < m
        BY <2>3, <2>4, <2>6, <2>8, <2>10
      <3>2. g[i] \in 0 .. L
        BY <1>10
      <3> QED
        BY <2>3, <2>7, <3>1, <3>2
    <2> QED
      BY <2>9, <2>10
  <1> QED
    <2> HIDE DEF Good, T
    <2>1. \A n \in 1 .. L : g[n] \in 0 .. L /\ (g[n] # 0 => g[n] >= n)
      BY <1>10 DEF Good
    <2> QED
      BY <1>2, <1>3, <1>6, <1>7, <1>11, <2>1

\* A chain that ends has a length.
LEMMA LengthOf ==
    ASSUME NEW L \in Nat, NEW g,
           \A i, j \in 1 .. L : i < j /\ g[j] # 0 => g[i] # 0
    PROVE  \E n \in 0 .. L : \A i \in 1 .. L : g[i] # 0 <=> i <= n
  <1>1. CASE \A i \in 1 .. L : g[i] # 0
    BY <1>1
  <1>2. CASE \E i \in 1 .. L : g[i] = 0
    <2> DEFINE T == {i \in 1 .. L : g[i] = 0}
    <2>1. T \in SUBSET Nat /\ T # {}
      BY <1>2
    <2>2. PICK k \in T : \A i \in T : k <= i
      <3> HIDE DEF T
      <3> QED
        BY <2>1, LeastNatural
    <2>3. k \in 1 .. L /\ g[k] = 0 /\ \A i \in 1 .. L : g[i] = 0 => k <= i
      BY <2>2
    <2>4. ASSUME NEW i \in 1 .. L PROVE g[i] # 0 <=> i <= k - 1
      <3>1. CASE i < k
        BY <2>3, <3>1
      <3>2. CASE i = k
        BY <2>3, <3>2
      <3>3. CASE k < i
        BY <2>3, <3>3
      <3> QED
        BY <2>3, <3>1, <3>2, <3>3
    <2>5. k - 1 \in 0 .. L
      BY <2>3
    <2> QED
      BY <2>4, <2>5
  <1> QED
    BY <1>1, <1>2

\* What Chain gives is the chain.
LEMMA ChainIs ==
    ASSUME blocks \in Seq(Blocks), Onward(blocks), NEW d, d.first \in 0 .. Len(blocks)
    PROVE  IsChain(blocks, d.first, Chain(d))
  <1>1. PICK L \in Nat : L = Len(blocks)
    OBVIOUS
  <1>2. PICK s \in 0 .. L : s = d.first
    BY <1>1
  <1>3. PICK g : g = Steps(blocks, s)
    OBVIOUS
  <1>4. /\ L # 0 => g[1] = s
        /\ \A i \in 1 .. L - 1 : g[i + 1] = IF g[i] = 0 THEN 0 ELSE blocks[g[i]].next
        /\ \A i \in 1 .. L : g[i] \in 0 .. L
        /\ \A i \in 1 .. L : g[i] # 0 => g[i] >= i
        /\ \A i, j \in 1 .. L : i < j /\ g[j] # 0 => g[i] # 0 /\ g[i] < g[j]
    BY <1>1, <1>2, <1>3, WayOrdered
  <1> DEFINE IsLen(n) == \A i \in 1 .. L : g[i] # 0 <=> i <= n
             len == CHOOSE n \in 0 .. L : IsLen(n)
  <1>5. \E n \in 0 .. L : IsLen(n)
    BY <1>4, LengthOf
  <1>6. PICK n \in 0 .. L : n = len /\ IsLen(n)
    <2> HIDE DEF IsLen
    <2> QED
      BY <1>5
  <1>7. PICK c : c = Chain(d)
    OBVIOUS
  <1>8. c = [i \in 1 .. n |-> g[i]]
    BY <1>1, <1>2, <1>3, <1>6, <1>7 DEF Chain
  <1>9. n \in Nat /\ \A i \in 1 .. n : i \in 1 .. L /\ g[i] # 0 /\ c[i] = g[i]
    BY <1>6, <1>8
  <1> HIDE DEF len
  <1>10. c \in Seq(1 .. L) /\ Len(c) = n
    <2>1. \A i \in 1 .. n : g[i] \in 1 .. L
      BY <1>4, <1>9
    <2> QED
      BY <1>8, <1>9, <2>1
  <1>11. s = 0 <=> n = 0
    <2>1. CASE L = 0
      BY <2>1
    <2>2. CASE L # 0
      <3>1. 1 \in 1 .. L
        BY <2>2
      <3>2. g[1] # 0 <=> 1 <= n
        BY <1>6, <3>1
      <3> QED
        BY <1>4, <2>2, <3>2
    <2> QED
      BY <2>1, <2>2
  <1>12. n # 0 => c[1] = s
    BY <1>4, <1>9
  <1>13. n # 0 => blocks[c[n]].next = 0
    <2> SUFFICES ASSUME n # 0 PROVE blocks[c[n]].next = 0
      OBVIOUS
    <2>1. n \in 1 .. L /\ c[n] = g[n] /\ g[n] # 0
      BY <1>9
    <2>2. CASE n < L
      <3>1. n \in 1 .. L - 1 /\ n + 1 \in 1 .. L /\ ~(n + 1 <= n)
        BY <2>2
      <3>2. g[n + 1] = 0
        BY <1>6, <3>1
      <3> QED
        BY <1>4, <2>1, <3>1, <3>2
    <2>3. CASE n = L
      <3>1. g[n] = L /\ L \in 1 .. L
        BY <1>4, <2>1, <2>3
      <3>2. blocks[L].next # 0 => blocks[L].next \in L + 1 .. L
        BY <1>1, <3>1 DEF Onward
      <3> QED
        BY <2>1, <3>1, <3>2
    <2> QED
      BY <2>2, <2>3
  <1>14. \A i \in 1 .. n - 1 : blocks[c[i]].next = c[i + 1]
    <2> TAKE i \in 1 .. n - 1
    <2>1. i \in 1 .. n /\ i + 1 \in 1 .. n /\ i \in 1 .. L - 1
      OBVIOUS
    <2> QED
      BY <1>4, <1>9, <2>1
  <1>15. \A i, j \in 1 .. n : i < j => c[i] < c[j]
    BY <1>4, <1>9
  <1> QED
    BY <1>1, <1>2, <1>7, <1>10, <1>11, <1>12, <1>13, <1>14, <1>15 DEF IsChain

LEMMA ChainPrefix ==
    ASSUME NEW bs \in Seq(Blocks), NEW s, NEW c, NEW e, IsChain(bs, s, c), IsChain(bs, s, e)
    PROVE  \A i \in 1 .. Len(c) : i <= Len(e) /\ e[i] = c[i]
  <1>1. /\ Len(c) \in Nat /\ Len(e) \in Nat
        /\ \A i \in 1 .. Len(c) : c[i] \in 1 .. Len(bs)
        /\ \A i \in 1 .. Len(e) : e[i] \in 1 .. Len(bs)
        /\ Len(bs) \in Nat
    BY DEF IsChain
  <1> DEFINE Same(i) == i <= Len(e) /\ e[i] = c[i]
             T == {i \in 1 .. Len(c) : ~Same(i)}
  <1>2. SUFFICES ASSUME T # {} PROVE FALSE
    OBVIOUS
  <1>3. T \in SUBSET Nat
    <2> HIDE DEF Same
    <2> QED
      BY <1>1
  <1>4. PICK i \in T : \A k \in T : i <= k
    <2> HIDE DEF T
    <2> QED
      BY <1>2, <1>3, LeastNatural
  <1>5. i \in 1 .. Len(c) /\ ~Same(i)
    OBVIOUS
  <1>6. CASE i = 1
    <2>1. Len(c) # 0 /\ s # 0 /\ Len(e) # 0 /\ c[1] = s /\ e[1] = s
      BY <1>1, <1>5, <1>6 DEF IsChain
    <2> QED
      BY <1>1, <1>5, <1>6, <2>1
  <1>7. CASE i # 1
    <2>1. i - 1 \in 1 .. Len(c) - 1 /\ i - 1 \in 1 .. Len(c) /\ ~(i <= i - 1) /\ (i - 1) + 1 = i
      BY <1>1, <1>5, <1>7
    <2>2. Same(i - 1)
      BY <1>4, <2>1
    <2>3. bs[c[i - 1]].next = c[i] /\ c[i] # 0
      BY <1>1, <1>5, <2>1 DEF IsChain
    <2>4. i - 1 # Len(e)
      BY <2>2, <2>3, <1>1, <2>1 DEF IsChain
    <2>5. i - 1 \in 1 .. Len(e) - 1
      BY <1>1, <2>1, <2>2, <2>4
    <2>6. bs[e[i - 1]].next = e[i]
      BY <2>1, <2>5 DEF IsChain
    <2> QED
      BY <1>1, <1>5, <2>2, <2>3, <2>5, <2>6
  <1> QED
    BY <1>6, <1>7

\* A block begins one chain only.
LEMMA ChainOnly ==
    ASSUME NEW bs \in Seq(Blocks), NEW s, NEW c, NEW e, IsChain(bs, s, c), IsChain(bs, s, e)
    PROVE  c = e
  <1>1. \A i \in 1 .. Len(c) : i <= Len(e) /\ e[i] = c[i]
    BY ChainPrefix
  <1>2. \A i \in 1 .. Len(e) : i <= Len(c) /\ c[i] = e[i]
    BY ChainPrefix
  <1>3. c \in Seq(1 .. Len(bs)) /\ e \in Seq(1 .. Len(bs))
    BY DEF IsChain
  <1>4. Len(c) \in Nat /\ Len(e) \in Nat
    BY <1>3
  <1>5. Len(c) = Len(e)
    <2>1. Len(c) # 0 => Len(c) <= Len(e)
      BY <1>1, <1>4
    <2>2. Len(e) # 0 => Len(e) <= Len(c)
      BY <1>2, <1>4
    <2> QED
      BY <1>4, <2>1, <2>2
  <1> QED
    BY <1>1, <1>3, <1>5, SeqEqual

----------------------------------------------------------------------------
(* The places of bytes                                                     *)

LEMMA BaseFacts ==
    /\ Base(1) = 0
    /\ \A j \in Nat \ {0} : Base(j) \in Nat /\ Base(j + 1) = Base(j) + B
    /\ \A j, k \in Nat \ {0} : j < k => Base(j) + B <= Base(k)
  <1>1. B \in Nat /\ B # 0
    BY ConstantBlocks
  <1>2. ASSUME NEW i \in Nat PROVE B * i \in Nat
    BY <1>1
  <1>3. Base(1) = 0
    BY <1>1 DEF Base
  <1>4. ASSUME NEW j \in Nat \ {0} PROVE Base(j) \in Nat /\ Base(j + 1) = Base(j) + B
    <2>1. j - 1 \in Nat /\ (j + 1) - 1 = (j - 1) + 1
      OBVIOUS
    <2>2. B * ((j - 1) + 1) = B * (j - 1) + B
      BY <1>1, <2>1
    <2> QED
      BY <1>2, <2>1, <2>2 DEF Base
  <1>5. ASSUME NEW j \in Nat \ {0}, NEW k \in Nat \ {0}, j < k PROVE Base(j) + B <= Base(k)
    <2>1. PICK d \in Nat : k - 1 = (j - 1) + 1 + d
      <3>1. k - j - 1 \in Nat /\ k - 1 = (j - 1) + 1 + (k - j - 1)
        BY <1>5
      <3> QED
        BY <3>1
    <2>2. j - 1 \in Nat
      OBVIOUS
    <2>3. B * ((j - 1) + 1 + d) = B * (j - 1) + B + B * d
      BY <1>1, <2>2
    <2>4. B * d \in Nat /\ B * (j - 1) \in Nat
      BY <1>2, <2>2
    <2> QED
      BY <1>1, <2>1, <2>3, <2>4 DEF Base
  <1> QED
    BY <1>3, <1>4, <1>5

\* Every place lies in a block.
LEMMA PlaceOf ==
    ASSUME NEW m \in Nat, m # 0, NEW i \in Nat, i # 0, i <= Base(m) + B
    PROVE  \E j \in 1 .. m, o \in 1 .. B : i = Base(j) + o
  <1> DEFINE T == {j \in 1 .. m : i <= Base(j) + B}
  <1>1. T \in SUBSET Nat /\ T # {}
    <2>1. m \in T
      OBVIOUS
    <2> QED
      BY <2>1
  <1>2. PICK j \in T : \A k \in T : j <= k
    <2> HIDE DEF T
    <2> QED
      BY <1>1, LeastNatural
  <1>3. j \in 1 .. m /\ i <= Base(j) + B /\ \A k \in 1 .. m : i <= Base(k) + B => j <= k
    BY <1>2
  <1> HIDE DEF T
  <1>4. j \in Nat \ {0} /\ B \in Nat /\ Base(j) \in Nat
    <2>1. j \in Nat \ {0}
      BY <1>3
    <2> QED
      BY <2>1, BaseFacts, ConstantBlocks
  <1>5. Base(j) < i
    <2>1. CASE j = 1
      BY <2>1, BaseFacts
    <2>2. CASE j # 1
      <3>1. j - 1 \in 1 .. m /\ j - 1 \in Nat \ {0} /\ ~(j <= j - 1) /\ (j - 1) + 1 = j
        BY <1>3, <2>2
      <3>2. ~(i <= Base(j - 1) + B) /\ Base(j) = Base(j - 1) + B
        <4>1. Base((j - 1) + 1) = Base(j - 1) + B
          BY <3>1, BaseFacts
        <4> QED
          BY <1>3, <3>1, <4>1
      <3> QED
        BY <1>4, <3>2
    <2> QED
      BY <2>1, <2>2
  <1>6. i - Base(j) \in 1 .. B /\ i = Base(j) + (i - Base(j))
    BY <1>3, <1>4, <1>5
  <1> QED
    BY <1>3, <1>6

\* A place is in one block only, and at one offset.
LEMMA PlaceOnly ==
    ASSUME NEW j \in Nat \ {0}, NEW k \in Nat \ {0}, NEW o \in 1 .. B, NEW p \in 1 .. B,
           Base(j) + o = Base(k) + p
    PROVE  j = k /\ o = p
  <1>1. B \in Nat /\ Base(j) \in Nat /\ Base(k) \in Nat
    BY BaseFacts, ConstantBlocks
  <1>2. ~(j < k)
    <2>1. j < k => Base(j) + B <= Base(k)
      BY BaseFacts
    <2> QED
      BY <1>1, <2>1
  <1>3. ~(k < j)
    <2>1. k < j => Base(k) + B <= Base(j)
      BY BaseFacts
    <2> QED
      BY <1>1, <2>1
  <1>4. j = k
    BY <1>2, <1>3
  <1> QED
    BY <1>1, <1>4

----------------------------------------------------------------------------
(* Pieces put together                                                     *)

FlatOf(g, p, i) == IF i = 1 THEN p[i] ELSE g[i - 1] \o p[i]

LEMMA FlatExists ==
    ASSUME NEW p, NEW n \in Nat
    PROVE  \E g : \A i \in 1 .. n : g[i] = FlatOf(g, p, i)
  <1> DEFINE Way(m) == \E g : \A i \in 1 .. m : g[i] = FlatOf(g, p, i)
             T == {m \in Nat : ~Way(m)}
  <1>1. SUFFICES ASSUME T # {} PROVE FALSE
    OBVIOUS
  <1>2. PICK m \in T : \A k \in T : m <= k
    BY <1>1, LeastNatural
  <1>3. m \in Nat /\ ~Way(m)
    OBVIOUS
  <1>4. Way(0)
    OBVIOUS
  <1>5. m # 0 /\ m - 1 \in Nat /\ ~(m <= m - 1)
    BY <1>3, <1>4
  <1>6. Way(m - 1)
    BY <1>2, <1>5
  <1>7. PICK g : \A i \in 1 .. m - 1 : g[i] = FlatOf(g, p, i)
    BY <1>6
  <1> DEFINE h == [i \in 1 .. m |-> IF i = m THEN FlatOf(g, p, m) ELSE g[i]]
  <1>8. ASSUME NEW i \in 1 .. m PROVE h[i] = FlatOf(h, p, i)
    <2>1. CASE i # m
      <3>1. i \in 1 .. m - 1 /\ h[i] = g[i] /\ (i # 1 => h[i - 1] = g[i - 1])
        BY <1>3, <2>1
      <3> QED
        BY <1>7, <3>1 DEF FlatOf
    <2>2. CASE i = m
      <3>1. h[i] = FlatOf(g, p, m) /\ (i # 1 => h[i - 1] = g[i - 1])
        BY <1>3, <1>5, <2>2
      <3> QED
        BY <2>2, <3>1 DEF FlatOf
    <2> QED
      BY <2>1, <2>2
  <1>9. Way(m)
    <2> HIDE DEF h
    <2> QED
      BY <1>8
  <1> QED
    BY <1>3, <1>9

\* FlattenSeq puts one piece behind the other.
LEMMA FlattenIs ==
    ASSUME NEW p, Len(p) \in Nat, Len(p) # 0
    PROVE  \E g : FlattenSeq(p) = g[Len(p)] /\ \A i \in 1 .. Len(p) : g[i] = FlatOf(g, p, i)
  <1> DEFINE IsFlat(g) == g = [i \in 1 .. Len(p) |-> IF i = 1 THEN p[i] ELSE g[i - 1] \o p[i]]
  <1>1. PICK h : \A i \in 1 .. Len(p) : h[i] = FlatOf(h, p, i)
    BY FlatExists
  <1> DEFINE f == [i \in 1 .. Len(p) |-> h[i]]
             flat == CHOOSE g : IsFlat(g)
  <1>2. IsFlat(f)
    <2>1. ASSUME NEW i \in 1 .. Len(p)
          PROVE  f[i] = IF i = 1 THEN p[i] ELSE f[i - 1] \o p[i]
      <3>1. f[i] = h[i] /\ (i # 1 => f[i - 1] = h[i - 1])
        OBVIOUS
      <3> QED
        BY <1>1, <3>1 DEF FlatOf
    <2> QED
      BY <2>1
  <1>3. IsFlat(flat)
    <2> HIDE DEF IsFlat, f
    <2> QED
      BY <1>2
  <1>4. FlattenSeq(p) = flat[Len(p)]
    BY DEF FlattenSeq
  <1>5. \A i \in 1 .. Len(p) : flat[i] = FlatOf(flat, p, i)
    <2>1. flat = [i \in 1 .. Len(p) |-> FlatOf(flat, p, i)]
      <3> HIDE DEF flat
      <3> QED
        BY <1>3 DEF FlatOf
    <2> HIDE DEF flat, IsFlat
    <2> QED
      BY <2>1
  <1> QED
    BY <1>4, <1>5

\* Pieces of which all but the last have the size of a block, and what they are together.
Pieces(p, n) ==
    /\ Len(p) = n
    /\ \A j \in 1 .. n : p[j] \in Seq(Nat) /\ Len(p[j]) <= B /\ (j < n => Len(p[j]) = B)

Together(f, p, n) ==
    /\ f \in Seq(Nat) /\ Len(f) = Base(n) + Len(p[n])
    /\ \A j \in 1 .. n, o \in 1 .. B : o <= Len(p[j]) => f[Base(j) + o] = p[j][o]

\* Every byte comes to lie behind the beginning of its block.
LEMMA FlattenBytes ==
    ASSUME NEW n \in Nat, n # 0, NEW p, Pieces(p, n)
    PROVE  Together(FlattenSeq(p), p, n)
  <1>0. /\ Len(p) = n
        /\ \A j \in 1 .. n : p[j] \in Seq(Nat) /\ Len(p[j]) <= B /\ (j < n => Len(p[j]) = B)
    BY DEF Pieces
  <1>1. PICK g : FlattenSeq(p) = g[n] /\ \A i \in 1 .. n : g[i] = FlatOf(g, p, i)
    BY <1>0, FlattenIs
  <1> DEFINE Good(i) == /\ g[i] \in Seq(Nat)
                        /\ Len(g[i]) = Base(i) + Len(p[i])
                        /\ \A j \in 1 .. i, o \in 1 .. B :
                              o <= Len(p[j]) => g[i][Base(j) + o] = p[j][o]
             T == {i \in 1 .. n : ~Good(i)}
  <1>2. T = {}
    <2> SUFFICES ASSUME T # {} PROVE FALSE
      OBVIOUS
    <2>1. T \in SUBSET Nat
      <3> HIDE DEF Good
      <3> QED
        OBVIOUS
    <2>2. PICK i \in T : \A k \in T : i <= k
      <3> HIDE DEF T
      <3> QED
        BY <2>1, LeastNatural
    <2> HIDE DEF Good
    <2>3. i \in 1 .. n /\ ~Good(i)
      OBVIOUS
    <2>4. CASE i = 1
      <3>1. g[1] = p[1]
        BY <1>1, <2>3, <2>4 DEF FlatOf
      <3>2. p[1] \in Seq(Nat) /\ Len(p[1]) \in Nat
        <4>1. 1 \in 1 .. n
          OBVIOUS
        <4> QED
          BY <1>0, <4>1
      <3>3. Good(1)
        <4>1. \A j \in 1 .. 1, o \in 1 .. B : o <= Len(p[j]) => g[1][Base(j) + o] = p[j][o]
          <5> TAKE j \in 1 .. 1, o \in 1 .. B
          <5>1. j = 1 /\ Base(1) = 0 /\ 0 + o = o
            BY BaseFacts, ConstantBlocks
          <5> QED
            BY <3>1, <5>1
        <4> QED
          <5>1. g[1] \in Seq(Nat) /\ Len(g[1]) = 0 + Len(p[1]) /\ Base(1) = 0
            BY <3>1, <3>2, BaseFacts
          <5> QED
            BY <4>1, <5>1 DEF Good
      <3> QED
        BY <2>3, <2>4, <3>3
    <2>5. CASE i # 1
      <3>1. i - 1 \in 1 .. n /\ i - 1 < n /\ ~(i <= i - 1) /\ (i - 1) + 1 = i /\ i - 1 \in Nat \ {0}
        BY <2>3, <2>5
      <3>2. PICK k \in 1 .. n : k = i - 1 /\ k + 1 = i /\ k < n
        BY <3>1
      <3>3. Good(k)
        BY <2>2, <3>1, <3>2
      <3>4. PICK G \in Seq(Nat) : G = g[k]
        BY <3>3 DEF Good
      <3>5. PICK Q \in Seq(Nat) : Q = p[i]
        BY <1>0, <2>3
      <3>6. g[i] = G \o Q
        BY <1>1, <2>3, <2>5, <3>2, <3>4, <3>5 DEF FlatOf
      <3>7. Len(G) = Base(i)
        <4>1. Len(p[k]) = B
          BY <1>0, <3>2
        <4>2. Base(k + 1) = Base(k) + B
          BY <3>2, BaseFacts
        <4> QED
          BY <3>2, <3>3, <3>4, <4>1, <4>2 DEF Good
      <3>8. g[i] \in Seq(Nat) /\ Len(g[i]) = Base(i) + Len(p[i])
        <4>1. g[i] \in Seq(Nat) /\ Len(g[i]) = Len(G) + Len(Q)
          BY <3>6
        <4> QED
          BY <3>5, <3>7, <4>1
      <3>9. ASSUME NEW j \in 1 .. i, NEW o \in 1 .. B, o <= Len(p[j])
            PROVE  g[i][Base(j) + o] = p[j][o]
        <4>1. CASE j = i
          <5>1. o \in 1 .. Len(Q)
            BY <3>5, <3>9, <4>1
          <5>2. (G \o Q)[Len(G) + o] = Q[o]
            BY <5>1
          <5> QED
            BY <3>5, <3>6, <3>7, <4>1, <5>2
        <4>2. CASE j # i
          <5>1. j \in 1 .. k /\ j \in Nat \ {0} /\ i \in Nat \ {0} /\ j < i
            BY <3>2, <4>2
          <5>2. Base(j) + B <= Base(i) /\ Base(j) \in Nat /\ Base(i) \in Nat /\ B \in Nat
            BY <5>1, BaseFacts, ConstantBlocks
          <5>3. PICK x \in Nat : x = Base(j) + o
            BY <5>2
          <5>4. x \in 1 .. Len(G)
            <6>1. o \in Nat /\ 1 <= o /\ o <= B
              BY <5>2
            <6>2. 1 <= x /\ x <= Base(i)
              BY <5>2, <5>3, <6>1
            <6> QED
              BY <3>7, <5>2, <6>2
          <5>5. (G \o Q)[x] = G[x]
            BY <5>4
          <5>6. G[x] = p[j][o]
            BY <3>3, <3>4, <3>9, <5>1, <5>3 DEF Good
          <5> QED
            BY <3>6, <5>3, <5>5, <5>6
        <4> QED
          BY <4>1, <4>2
      <3>10. Good(i)
        BY <3>8, <3>9 DEF Good
      <3> QED
        BY <2>3, <3>10
    <2> QED
      BY <2>4, <2>5
  <1>3. n \in 1 .. n
    OBVIOUS
  <1>4. Good(n)
    <2> HIDE DEF Good
    <2> QED
      BY <1>2, <1>3
  <1> QED
    BY <1>1, <1>4 DEF Together

LEMMA OnwardBlocks ==
    ASSUME IInv
    PROVE  blocks \in Seq(Blocks) /\ Len(blocks) \in Nat /\ Onward(blocks)
  <1>1. blocks \in Seq(Blocks) /\ Len(blocks) \in Nat
    BY DEF IInv, Types
  <1>2. ASSUME NEW n \in 1 .. Len(blocks), blocks[n].next # 0
        PROVE  blocks[n].next \in n + 1 .. Len(blocks)
    <2>1. blocks[n].next > n /\ blocks[n].next \in 1 .. Len(blocks)
      BY <1>2 DEF IInv, DiskInv, Links, Forward, Whole
    <2> QED
      BY <1>1, <2>1
  <1> QED
    BY <1>1, <1>2 DEF Onward

\* The blocks of a chain are there with their payload.
LEMMA ChainWhole ==
    ASSUME IInv, NEW s, s # 0 => Whole(s), NEW c, IsChain(blocks, s, c)
    PROVE  \A j \in 1 .. Len(c) : Whole(c[j])
  <1> TAKE j \in 1 .. Len(c)
  <1>1. Len(c) \in Nat /\ \A i \in 1 .. Len(c) : c[i] \in 1 .. Len(blocks)
    BY DEF IsChain
  <1>2. CASE j = 1
    BY <1>1, <1>2 DEF IsChain
  <1>3. CASE j # 1
    <2>1. PICK i \in 1 .. Len(c) - 1 : i + 1 = j /\ i \in 1 .. Len(c)
      <3>1. j - 1 \in 1 .. Len(c) - 1 /\ (j - 1) + 1 = j /\ j - 1 \in 1 .. Len(c)
        BY <1>1, <1>3
      <3> QED
        BY <3>1
    <2>2. blocks[c[i]].next = c[j]
      BY <2>1 DEF IsChain
    <2>3. c[i] \in 1 .. Len(blocks) /\ c[j] \in 1 .. Len(blocks)
      BY <1>1, <2>1
    <2>4. c[j] # 0
      BY <2>3
    <2> QED
      BY <2>2, <2>3, <2>4 DEF IInv, DiskInv, Links, Forward
  <1> QED
    BY <1>2, <1>3

\* What is read from the first block on: the bytes of the chain, up to the size.
LEMMA ReadIs ==
    ASSUME blocks \in Seq(Blocks), Onward(blocks),
           NEW d \in Descriptors, d.first \in 0 .. Len(blocks),
           NEW c, IsChain(blocks, d.first, c), Full(blocks, c), Covered(blocks, c, d.size),
           \A j \in 1 .. Len(c) : Len(blocks[c[j]].data) = B
    PROVE  /\ Chain(d) = c
           /\ Read(d) \in Seq(Nat) /\ Len(Read(d)) = d.size
           /\ \A j \in 1 .. Len(c), o \in 1 .. B :
                 Base(j) + o <= d.size => Read(d)[Base(j) + o] = blocks[c[j]].data[o]
  <1>1. Chain(d) = c
    BY ChainIs, ChainOnly
  <1>2. PICK m \in Nat : m = Len(c)
    BY DEF IsChain
  <1>3. PICK z \in Nat : z = d.size
    BY DEF Descriptors
  <1>4. \A j \in 1 .. m : /\ c[j] \in 1 .. Len(blocks) /\ blocks[c[j]] \in Blocks
                          /\ Len(blocks[c[j]].data) = B
                          /\ blocks[c[j]].used <= B /\ (j < m => blocks[c[j]].used = B)
    <2>1. \A j \in 1 .. m : c[j] \in 1 .. Len(blocks)
      BY <1>2 DEF IsChain
    <2> QED
      BY <1>2, <2>1 DEF Full
  <1>5. B \in Nat
    BY ConstantBlocks
  <1> DEFINE p == [i \in 1 .. m |-> SubSeq(blocks[c[i]].data, 1, blocks[c[i]].used)]
  <1>6. \A j \in 1 .. m :
            /\ p[j] \in Seq(Nat) /\ Len(p[j]) = blocks[c[j]].used
            /\ \A o \in 1 .. B : o <= Len(p[j]) => p[j][o] = blocks[c[j]].data[o]
    <2> TAKE j \in 1 .. m
    <2>1. PICK D \in Seq(Nat) : D = blocks[c[j]].data /\ Len(D) = B
      BY <1>4 DEF Blocks
    <2>2. PICK u \in 0 .. B : u = blocks[c[j]].used
      <3>1. PICK b \in Blocks : b = blocks[c[j]]
        BY <1>4
      <3>2. b.used \in Nat /\ b.used <= B
        BY <1>4, <3>1 DEF Blocks
      <3>3. b.used \in 0 .. B
        BY <1>5, <3>2
      <3> QED
        BY <3>1, <3>3
    <2>3. p[j] = SubSeq(D, 1, u)
      BY <2>1, <2>2
    <2>4. u \in Nat /\ u <= Len(D)
      BY <1>5, <2>1, <2>2
    <2> HIDE DEF p
    <2>5. SubSeq(D, 1, u) \in Seq(Nat) /\ Len(SubSeq(D, 1, u)) = u
      BY <2>4
    <2>6. \A o \in 1 .. u : SubSeq(D, 1, u)[o] = D[o]
      BY <2>4
    <2> QED
      BY <1>5, <2>1, <2>2, <2>3, <2>5, <2>6
  <1>7. p \in Seq(Seq(Nat)) /\ Len(p) = m
    <2>1. \A j \in 1 .. m : p[j] \in Seq(Nat)
      BY <1>6
    <2>2. p \in [1 .. m -> Seq(Nat)]
      <3>1. p = [i \in 1 .. m |-> p[i]]
        OBVIOUS
      <3> HIDE DEF p
      <3> QED
        BY <2>1, <3>1
    <2> HIDE DEF p
    <2> QED
      BY <2>2
  <1>8. Read(d) = SubSeq(FlattenSeq(p), 1, IF z < Len(FlattenSeq(p)) THEN z ELSE Len(FlattenSeq(p)))
    BY <1>1, <1>2, <1>3 DEF Read
  <1>9. CASE m = 0
    <2>1. z = 0
      BY <1>2, <1>3, <1>9 DEF Covered, EndOf
    <2>2. FlattenSeq(p) = p
      <3> HIDE DEF p
      <3> QED
        BY <1>7, <1>9 DEF FlattenSeq
    <2>3. p \in Seq(Nat)
      <3>1. p \in [1 .. 0 -> Nat]
        BY <1>9
      <3> HIDE DEF p
      <3> QED
        BY <3>1
    <2> HIDE DEF p
    <2>4. Read(d) = SubSeq(p, 1, 0)
      BY <1>7, <1>8, <1>9, <2>1, <2>2
    <2>5. SubSeq(p, 1, 0) \in Seq(Nat) /\ Len(SubSeq(p, 1, 0)) = 0
      BY <2>3
    <2> QED
      BY <1>1, <1>2, <1>3, <1>9, <2>1, <2>4, <2>5
  <1>10. CASE m # 0
    <2> HIDE DEF p
    <2>1. \A j \in 1 .. m : p[j] \in Seq(Nat) /\ Len(p[j]) <= B /\ (j < m => Len(p[j]) = B)
      BY <1>4, <1>6
    <2>2. PICK f \in Seq(Nat) :
             /\ f = FlattenSeq(p) /\ Len(f) = Base(m) + Len(p[m])
             /\ \A j \in 1 .. m, o \in 1 .. B : o <= Len(p[j]) => f[Base(j) + o] = p[j][o]
      <3>1. Pieces(p, m)
        BY <1>7, <2>1 DEF Pieces
      <3>2. Together(FlattenSeq(p), p, m)
        BY <1>10, <3>1, FlattenBytes
      <3> QED
        BY <3>2 DEF Together
    <2>3. m \in 1 .. m
      BY <1>10
    <2>4. Len(f) = Base(m) + blocks[c[m]].used /\ z <= Len(f)
      BY <1>2, <1>3, <1>6, <1>10, <2>2, <2>3 DEF Covered, EndOf
    <2>5. Read(d) = SubSeq(f, 1, z)
      <3>1. Len(f) \in Nat
        OBVIOUS
      <3>2. (IF z < Len(f) THEN z ELSE Len(f)) = z
        BY <2>4, <3>1
      <3> QED
        BY <1>8, <2>2, <3>2
    <2>6. SubSeq(f, 1, z) \in Seq(Nat) /\ Len(SubSeq(f, 1, z)) = z
      BY <2>4
    <2>7. \A x \in 1 .. z : SubSeq(f, 1, z)[x] = f[x]
      BY <2>4
    <2>8. ASSUME NEW j \in 1 .. m, NEW o \in 1 .. B, Base(j) + o <= z
          PROVE  SubSeq(f, 1, z)[Base(j) + o] = blocks[c[j]].data[o]
      <3>1. j \in Nat \ {0} /\ m \in Nat \ {0} /\ Base(j) \in Nat /\ Base(m) \in Nat
        <4>1. j \in Nat \ {0} /\ m \in Nat \ {0}
          BY <1>10
        <4> QED
          BY <4>1, BaseFacts
      <3>2. Base(j) + o \in 1 .. z
        BY <1>5, <2>8, <3>1
      <3>3. o <= Len(p[j])
        <4>1. CASE j < m
          BY <1>5, <2>1, <4>1
        <4>2. CASE j = m
          <5>1. Len(p[m]) \in Nat
            BY <1>6, <2>3
          <5> QED
            BY <1>5, <2>2, <2>4, <2>8, <3>1, <4>2, <5>1
        <4> QED
          BY <4>1, <4>2
      <3> QED
        BY <1>6, <2>2, <2>7, <3>2, <3>3
    <2>9. /\ Read(d) \in Seq(Nat) /\ Len(Read(d)) = z
          /\ \A j \in 1 .. m, o \in 1 .. B :
                 Base(j) + o <= z => Read(d)[Base(j) + o] = blocks[c[j]].data[o]
      BY <2>5, <2>6, <2>8
    <2> QED
      BY <1>1, <1>2, <1>3, <2>9
  <1> QED
    BY <1>9, <1>10

----------------------------------------------------------------------------
(* Writes to the blocks of a file                                          *)

LEMMA ChainFacts ==
    ASSUME NEW bs \in Seq(Blocks), NEW s, NEW c, IsChain(bs, s, c)
    PROVE  /\ Len(bs) \in Nat /\ Len(c) \in Nat
           /\ \A j \in 1 .. Len(c) :
                 /\ c[j] \in 1 .. Len(bs) /\ c[j] \in Nat \ {0} /\ bs[c[j]] \in Blocks
                 /\ bs[c[j]].used \in Nat /\ bs[c[j]].next \in Nat
  <1>1. Len(bs) \in Nat /\ Len(c) \in Nat
    BY DEF IsChain
  <1>2. ASSUME NEW j \in 1 .. Len(c)
        PROVE  c[j] \in 1 .. Len(bs) /\ c[j] \in Nat \ {0} /\ bs[c[j]] \in Blocks
    BY <1>1 DEF IsChain
  <1>3. \A x \in Blocks : x.used \in Nat /\ x.next \in Nat
    BY DEF Blocks
  <1> QED
    BY <1>1, <1>2, <1>3

\* What a write may do to the blocks of a chain: fill them further, elsewhere than at the places
\* that are kept.
Rewritten(bs, bt, c, but) == \A j \in 1 .. Len(c) :
    /\ bt[c[j]].next = bs[c[j]].next
    /\ bs[c[j]].used <= bt[c[j]].used /\ bt[c[j]].used <= B
    /\ \A o \in 1 .. B : Base(j) + o \notin but => bt[c[j]].data[o] = bs[c[j]].data[o]

LEMMA FileRewritten ==
    ASSUME NEW bs \in Seq(Blocks), NEW bt \in Seq(Blocks), Len(bs) <= Len(bt),
           NEW s, NEW c, NEW size \in Nat, NEW text, NEW but,
           File(bs, s, c, size, text, but), Rewritten(bs, bt, c, but)
    PROVE  File(bt, s, c, size, text, but)
  <1>1. IsChain(bs, s, c) /\ Full(bs, c) /\ Covered(bs, c, size) /\ Bytes(bs, c, size, text, but)
    BY DEF File
  <1>2. /\ Len(bs) \in Nat /\ Len(bt) \in Nat /\ Len(c) \in Nat
        /\ \A j \in 1 .. Len(c) : /\ c[j] \in 1 .. Len(bs) /\ c[j] \in 1 .. Len(bt)
                                  /\ bs[c[j]].used \in Nat /\ bt[c[j]].used \in Nat
    <2>1. /\ Len(bs) \in Nat /\ Len(bt) \in Nat /\ Len(c) \in Nat
          /\ \A j \in 1 .. Len(c) : c[j] \in 1 .. Len(bs) /\ bs[c[j]].used \in Nat
      BY <1>1, ChainFacts
    <2>2. \A j \in 1 .. Len(c) : c[j] \in 1 .. Len(bt)
      BY <2>1
    <2>3. \A j \in 1 .. Len(c) : bt[c[j]].used \in Nat
      <3>1. \A k \in 1 .. Len(bt) : bt[k] \in Blocks
        OBVIOUS
      <3>2. \A y \in Blocks : y.used \in Nat
        BY DEF Blocks
      <3> QED
        BY <2>2, <3>1, <3>2
    <2> QED
      BY <2>1, <2>2, <2>3
  <1>3. IsChain(bt, s, c)
    <2>1. c \in Seq(1 .. Len(bt))
      BY <1>1, <1>2 DEF IsChain
    <2>2. Len(c) # 0 => bt[c[Len(c)]].next = bs[c[Len(c)]].next
      BY <1>2 DEF Rewritten
    <2>3. \A j \in 1 .. Len(c) - 1 : bt[c[j]].next = bs[c[j]].next
      BY <1>2 DEF Rewritten
    <2> QED
      BY <1>1, <2>1, <2>2, <2>3 DEF IsChain
  <1>4. Full(bt, c)
    <2> SUFFICES ASSUME NEW j \in 1 .. Len(c)
                 PROVE  bt[c[j]].used <= B /\ (j < Len(c) => bt[c[j]].used = B)
      BY DEF Full
    <2>1. bt[c[j]].used <= B /\ bs[c[j]].used <= bt[c[j]].used
      BY DEF Rewritten
    <2>2. j < Len(c) => bs[c[j]].used = B
      BY <1>1 DEF Full
    <2> QED
      BY <1>2, <2>1, <2>2, ConstantBlocks
  <1>5. Covered(bt, c, size)
    <2>1. CASE Len(c) = 0
      BY <1>1, <2>1 DEF Covered, EndOf
    <2>2. CASE Len(c) # 0
      <3>1. Len(c) \in 1 .. Len(c) /\ Base(Len(c)) \in Nat
        BY <1>2, <2>2, BaseFacts
      <3>2. bs[c[Len(c)]].used <= bt[c[Len(c)]].used
        BY <3>1 DEF Rewritten
      <3>3. size <= Base(Len(c)) + bs[c[Len(c)]].used
        BY <1>1, <2>2 DEF Covered, EndOf
      <3>4. size <= Base(Len(c)) + bt[c[Len(c)]].used
        BY <1>2, <3>1, <3>2, <3>3
      <3> QED
        BY <2>2, <3>4 DEF Covered, EndOf
    <2> QED
      BY <2>1, <2>2
  <1>6. Bytes(bt, c, size, text, but)
    BY <1>1 DEF Bytes, Rewritten
  <1> QED
    BY <1>3, <1>4, <1>5, <1>6 DEF File

\* Blocks that are not touched.
LEMMA Untouched ==
    ASSUME NEW bs \in Seq(Blocks), NEW bt \in Seq(Blocks), NEW s, NEW c, NEW but,
           IsChain(bs, s, c), Full(bs, c), \A j \in 1 .. Len(c) : bt[c[j]] = bs[c[j]]
    PROVE  Rewritten(bs, bt, c, but)
  <1>1. \A j \in 1 .. Len(c) : bs[c[j]].used \in Nat /\ bs[c[j]].used <= B
    BY ChainFacts DEF Full
  <1> QED
    BY <1>1 DEF Rewritten

\* A new block is linked from the last one, which is full.
Extended(bs, bt, c, n) ==
    /\ n \in 1 .. Len(bt) /\ c[Len(c)] < n
    /\ bt[n].next = 0 /\ bt[n].used = 0
    /\ bt[c[Len(c)]].next = n /\ bs[c[Len(c)]].used = B
    /\ \A j \in 1 .. Len(c) : /\ j < Len(c) => bt[c[j]].next = bs[c[j]].next
                              /\ bt[c[j]].used = bs[c[j]].used
                              /\ bt[c[j]].data = bs[c[j]].data

LEMMA FileExtended ==
    ASSUME NEW bs \in Seq(Blocks), NEW bt \in Seq(Blocks), Len(bs) <= Len(bt),
           NEW s, NEW c, Len(c) # 0, NEW size \in Nat, NEW text, NEW but, NEW n,
           File(bs, s, c, size, text, but), Extended(bs, bt, c, n)
    PROVE  File(bt, s, Append(c, n), size, text, but)
  <1>1. IsChain(bs, s, c) /\ Full(bs, c) /\ Covered(bs, c, size) /\ Bytes(bs, c, size, text, but)
    BY DEF File
  <1>2. PICK m \in Nat \ {0} : m = Len(c)
    BY <1>1 DEF IsChain
  <1>3. /\ Len(bs) \in Nat /\ Len(bt) \in Nat
        /\ \A j \in 1 .. m : c[j] \in 1 .. Len(bs) /\ c[j] \in 1 .. Len(bt) /\ c[j] # 0
    <2>1. Len(bs) \in Nat /\ Len(bt) \in Nat /\ \A j \in 1 .. m : c[j] \in 1 .. Len(bs)
      BY <1>1, <1>2, ChainFacts
    <2> QED
      BY <2>1
  <1>4. n \in 1 .. Len(bt) /\ c \in Seq(1 .. Len(bt)) /\ c[m] < n
    BY <1>1, <1>2, <1>3 DEF IsChain, Extended
  <1>5. PICK e \in Seq(1 .. Len(bt)) : e = Append(c, n)
    <2>1. Append(c, n) \in Seq(1 .. Len(bt))
      BY <1>4
    <2> QED
      BY <2>1
  <1>6. Len(e) = m + 1 /\ e[m + 1] = n /\ \A j \in 1 .. m : e[j] = c[j]
    BY <1>2, <1>4, <1>5
  <1>7. m \in 1 .. m /\ m + 1 # 0 /\ 1 \in 1 .. m
    OBVIOUS
  <1>8. IsChain(bt, s, e)
    <2>1. s # 0 /\ e[1] = s
      BY <1>1, <1>2, <1>6, <1>7 DEF IsChain
    <2>2. bt[e[m + 1]].next = 0
      BY <1>6 DEF Extended
    <2>3. ASSUME NEW i \in 1 .. m PROVE bt[e[i]].next = e[i + 1]
      <3>1. CASE i = m
        BY <1>2, <1>6, <1>7, <3>1 DEF Extended
      <3>2. CASE i < m
        <4>1. i \in 1 .. m - 1 /\ i + 1 \in 1 .. m
          BY <3>2
        <4>2. bs[c[i]].next = c[i + 1]
          BY <1>1, <1>2, <4>1 DEF IsChain
        <4>3. bt[c[i]].next = bs[c[i]].next
          BY <1>2, <3>2 DEF Extended
        <4> QED
          BY <1>6, <4>1, <4>2, <4>3
      <3> QED
        BY <3>1, <3>2
    <2>4. ASSUME NEW i \in 1 .. m + 1, NEW j \in 1 .. m + 1, i < j PROVE e[i] < e[j]
      <3>1. i \in 1 .. m
        BY <2>4
      <3>2. CASE j = m + 1
        <4>1. c[i] <= c[m]
          <5>1. CASE i = m
            BY <1>3, <1>7, <5>1
          <5>2. CASE i < m
            <6>1. c[i] < c[m]
              BY <1>1, <1>2, <1>7, <3>1, <5>2 DEF IsChain
            <6> QED
              BY <1>3, <1>7, <3>1, <6>1
          <5> QED
            BY <3>1, <5>1, <5>2
        <4> QED
          BY <1>3, <1>4, <1>6, <1>7, <3>1, <3>2, <4>1
      <3>3. CASE j # m + 1
        <4>1. j \in 1 .. m
          BY <3>3
        <4>2. c[i] < c[j]
          BY <1>1, <1>2, <2>4, <3>1, <4>1 DEF IsChain
        <4> QED
          BY <1>6, <3>1, <4>1, <4>2
      <3> QED
        BY <3>2, <3>3
    <2>5. \A i \in 1 .. (m + 1) - 1 : bt[e[i]].next = e[i + 1]
      BY <2>3
    <2> QED
      BY <1>6, <1>7, <2>1, <2>2, <2>4, <2>5 DEF IsChain
  <1>9. B \in Nat /\ Base(m) \in Nat /\ Base(m + 1) = Base(m) + B
    BY ConstantBlocks, BaseFacts
  <1>10. Full(bt, e)
    <2> SUFFICES ASSUME NEW j \in 1 .. m + 1
                 PROVE  bt[e[j]].used <= B /\ (j < m + 1 => bt[e[j]].used = B)
      BY <1>6 DEF Full
    <2>1. CASE j = m + 1
      BY <1>6, <1>9, <2>1 DEF Extended
    <2>2. CASE j # m + 1
      <3>1. j \in 1 .. m /\ e[j] = c[j]
        BY <1>6, <2>2
      <3>2. bt[c[j]].used = bs[c[j]].used
        BY <1>2, <3>1 DEF Extended
      <3>3. bs[c[j]].used = B
        BY <1>1, <1>2, <3>1 DEF Full, Extended
      <3> QED
        BY <1>9, <3>1, <3>2, <3>3
    <2> QED
      BY <2>1, <2>2
  <1>11. size <= Base(m + 1)
    <2>1. bs[c[m]].used = B
      BY <1>2 DEF Extended
    <2> QED
      BY <1>1, <1>2, <1>9, <2>1 DEF Covered, EndOf
  <1>12. Covered(bt, e, size)
    <2>1. bt[e[m + 1]].used = 0
      BY <1>6 DEF Extended
    <2>2. size <= Base(m + 1) + 0
      BY <1>9, <1>11
    <2> QED
      BY <1>6, <1>7, <2>1, <2>2 DEF Covered, EndOf
  <1>13. Bytes(bt, e, size, text, but)
    <2> SUFFICES ASSUME NEW j \in 1 .. m + 1, NEW o \in 1 .. B,
                        Base(j) + o <= size, Base(j) + o \notin but
                 PROVE  bt[e[j]].data[o] = text[Base(j) + o]
      BY <1>6 DEF Bytes
    <2>1. CASE j = m + 1
      BY <1>9, <1>11, <2>1
    <2>2. CASE j # m + 1
      <3>1. j \in 1 .. m /\ e[j] = c[j]
        BY <1>6, <2>2
      <3>2. bt[c[j]].data = bs[c[j]].data
        BY <1>2, <3>1 DEF Extended
      <3> QED
        BY <1>1, <1>2, <3>1, <3>2 DEF Bytes
    <2> QED
      BY <2>1, <2>2
  <1> QED
    BY <1>5, <1>8, <1>10, <1>12, <1>13 DEF File

\* The first block of a file that was empty.
LEMMA FileBegun ==
    ASSUME NEW bs \in Seq(Blocks), NEW n \in 1 .. Len(bs), NEW text, NEW but,
           bs[n].next = 0, bs[n].used = 0
    PROVE  File(bs, n, <<n>>, 0, text, but)
  <1>1. PICK e \in Seq(1 .. Len(bs)) : e = <<n>> /\ Len(e) = 1 /\ e[1] = n
    <2>1. <<n>> \in Seq(1 .. Len(bs)) /\ Len(<<n>>) = 1 /\ <<n>>[1] = n
      OBVIOUS
    <2> QED
      BY <2>1
  <1>2. B \in Nat /\ Base(1) = 0
    BY ConstantBlocks, BaseFacts
  <1>3. IsChain(bs, n, e)
    BY <1>1 DEF IsChain
  <1>4. Full(bs, e)
    BY <1>1, <1>2 DEF Full
  <1>5. Covered(bs, e, 0)
    BY <1>1, <1>2 DEF Covered, EndOf
  <1>6. Bytes(bs, e, 0, text, but)
    <2> SUFFICES ASSUME NEW j \in 1 .. 1, NEW o \in 1 .. B, Base(j) + o <= 0 PROVE FALSE
      BY <1>1 DEF Bytes
    <2>1. j = 1
      OBVIOUS
    <2> QED
      BY <1>2, <2>1
  <1> QED
    BY <1>1, <1>3, <1>4, <1>5, <1>6 DEF File

\* An empty file.
LEMMA FileEmpty ==
    ASSUME NEW bs \in Seq(Blocks), NEW text, NEW but
    PROVE  File(bs, 0, <<>>, 0, text, but)
  <1>1. PICK e \in Seq(1 .. Len(bs)) : e = <<>> /\ Len(e) = 0
    <2>1. <<>> \in Seq(1 .. Len(bs)) /\ Len(<<>>) = 0
      OBVIOUS
    <2> QED
      BY <2>1
  <1> QED
    BY <1>1 DEF File, IsChain, Full, Covered, EndOf, Bytes

----------------------------------------------------------------------------
(* Facts about the file that is held                                       *)

\* The blocks on the chain are there.
LEMMA HeldFacts ==
    ASSUME IInv, NEW c, OnDisk(c)
    PROVE  /\ blocks \in Seq(Blocks) /\ Len(blocks) \in Nat /\ desc.size \in Nat
           /\ IsChain(blocks, Root, c) /\ Full(blocks, c) /\ Covered(blocks, c, desc.size)
           /\ Len(c) \in Nat /\ (Len(c) = 0 <=> Root = 0)
           /\ \A j \in 1 .. Len(c) : /\ Whole(c[j]) /\ blocks[c[j]] \in Blocks
                                     /\ blocks[c[j]].used \in 0 .. B
                                     /\ j < Len(c) => blocks[c[j]].used = B
  <1>1. blocks \in Seq(Blocks) /\ Len(blocks) \in Nat /\ desc.size \in Nat
    BY OnwardBlocks DEF IInv, Types, Descriptors
  <1>2. IsChain(blocks, Root, c) /\ Full(blocks, c) /\ Covered(blocks, c, desc.size)
    BY DEF OnDisk, File
  <1>3. Root # 0 => Whole(Root)
    BY DEF IInv, DiskInv, Sound, Root
  <1>4. \A j \in 1 .. Len(c) : Whole(c[j])
    <2>1. PICK s : s = Root
      OBVIOUS
    <2> QED
      BY <1>2, <1>3, <2>1, ChainWhole
  <1>5. Len(c) \in Nat /\ \A j \in 1 .. Len(c) : blocks[c[j]] \in Blocks /\ blocks[c[j]].used \in Nat
    BY <1>1, <1>2, ChainFacts
  <1>6. \A j \in 1 .. Len(c) : blocks[c[j]].used \in 0 .. B /\ (j < Len(c) => blocks[c[j]].used = B)
    BY <1>2, <1>5, ConstantBlocks DEF Full
  <1>7. Len(c) = 0 <=> Root = 0
    BY <1>2 DEF IsChain
  <1> QED
    BY <1>1, <1>2, <1>4, <1>5, <1>6, <1>7

\* Where nothing is written to the disk.
LEMMA DiskHeld ==
    ASSUME NEW c, OnDisk(c), blocks' = blocks, desc' = desc, content' = content,
           Root' = Root, But' = But
    PROVE  OnDisk(c)'
  BY DEF OnDisk

\* Where blocks change, but the chain remains.
LEMMA BlocksHeld ==
    ASSUME IInv, IInv', NEW c, OnDisk(c), Rewritten(blocks, blocks', c, But),
           Len(blocks) <= Len(blocks'), desc' = desc, content' = content,
           Root' = Root, But' = But
    PROVE  OnDisk(c)'
  <1>1. blocks \in Seq(Blocks) /\ blocks' \in Seq(Blocks) /\ desc.size \in Nat
    BY DEF IInv, Types, Descriptors
  <1>2. PICK s, text, but : s = Root /\ text = content /\ but = But
    OBVIOUS
  <1>3. PICK bt \in Seq(Blocks) : bt = blocks'
    BY <1>1
  <1>4. File(blocks, s, c, desc.size, text, but)
    BY <1>2 DEF OnDisk
  <1>5. Rewritten(blocks, bt, c, but) /\ Len(blocks) <= Len(bt)
    BY <1>2, <1>3
  <1>6. File(bt, s, c, desc.size, text, but)
    BY <1>1, <1>4, <1>5, FileRewritten
  <1> QED
    BY <1>2, <1>3, <1>6 DEF OnDisk

\* Before the first block is loaded, and after the call.
LEMMA NothingLoaded ==
    ASSUME NEW c, \/ pc' = "idle"
                  \/ pc' \in {"first", "firstpay", "find"} /\ written' = 0 /\ args'.off \in Nat
    PROVE  /\ InWalk(c)' /\ InFill(c)' /\ InCopy(c)' /\ InCreate(c)' /\ InDescribe(c)'
           /\ InFinish(c)'
  <1>1. InWalk(c)' /\ InFill(c)' /\ InCopy(c)' /\ InCreate(c)' /\ InDescribe(c)'
    BY DEF InWalk, InFill, InCopy, InCreate, InDescribe
  <1>2. pc' # "idle" => \A x : x \notin Done'
    BY DEF Done
  <1>3. InFinish(c)'
    BY <1>2 DEF InFinish
  <1> QED
    BY <1>1, <1>3

----------------------------------------------------------------------------
(* An empty file, and a call that begins                                   *)

LEMMA InitHeld == Init => \E c : Held(c)
  <1> SUFFICES ASSUME Init PROVE \E c : Held(c)
    OBVIOUS
  <1>1. PICK c : c = <<>> /\ Len(c) = 0
    <2>1. Len(<<>>) = 0
      OBVIOUS
    <2> QED
      BY <2>1
  <1>2. OnDisk(c)
    <2>1. content \in Seq(Nat) /\ Len(content) = 0 /\ blocks \in Seq(Blocks)
      BY DEF Init
    <2>2. Root = 0 /\ desc.first = 0 /\ desc.size = 0 /\ desc.last = 0
      BY DEF Init, Root
    <2>3. PICK but, text : but = But /\ text = content
      OBVIOUS
    <2>4. File(blocks, 0, c, 0, text, but)
      BY <1>1, <2>1, FileEmpty
    <2> QED
      BY <2>1, <2>2, <2>3, <2>4 DEF OnDisk
  <1>3. pc = "idle"
    BY DEF Init
  <1>4. InCall(c)
    BY <1>3 DEF InCall
  <1>5. InWalk(c) /\ InFill(c) /\ InCopy(c) /\ InCreate(c) /\ InDescribe(c) /\ InFinish(c)
    BY <1>3 DEF InWalk, InFill, InCopy, InCreate, InDescribe, InFinish
  <1> QED
    BY <1>2, <1>4, <1>5 DEF Held

LEMMA CallHeld ==
    ASSUME IInv, Sane', NEW c, Held(c),
           NEW d \in Descriptors, NEW a \in [set : BOOLEAN, off : Nat, len : Nat, byte : Nat],
           a.off <= d.size, Call(d, a)
    PROVE  Held(c)'
  <1>1. d = desc /\ desc' = desc /\ blocks' = blocks /\ content' = content /\ fd' = desc
    BY DEF Call, Sane, diskVars
  <1>2. pc = "idle" /\ pc' = IF desc.first = 0 THEN "first" ELSE "find"
    BY <1>1 DEF Call
  <1>3. Root' = Root /\ Root = desc.first
    BY <1>1, <1>2 DEF Root
  <1>4. OnDisk(c)'
    <2>1. File(blocks, Root, c, desc.size, content, {})
      BY <1>2 DEF Held, OnDisk, But
    <2>2. PICK but : but = But'
      OBVIOUS
    <2>3. File(blocks, Root, c, desc.size, content, but)
      BY <2>1 DEF File, Bytes
    <2> QED
      BY <1>1, <1>3, <2>2, <2>3 DEF Held, OnDisk
  <1>5. InCall(c)'
    <2>1. args' = a /\ written' = 0 /\ boff' = 0
      BY DEF Call
    <2>2. desc.first # 0 => \E i \in 1 .. Len(c) : desc.last = c[i]
      BY DEF Held, OnDisk, IInv, DiskInv, Sound
    <2> QED
      BY <1>1, <1>2, <2>1, <2>2 DEF InCall
  <1>6. /\ InWalk(c)' /\ InFill(c)' /\ InCopy(c)' /\ InCreate(c)' /\ InDescribe(c)'
        /\ InFinish(c)'
    <2>1. pc' \in {"first", "find"} /\ written' = 0 /\ args'.off \in Nat
      BY <1>2 DEF Call
    <2> QED
      BY <2>1, NothingLoaded
  <1> QED
    BY <1>4, <1>5, <1>6 DEF Held

LEMMA WriteToFileHeld ==
    ASSUME IInv, Sane', NEW c, Held(c), NEW off \in Nat, NEW len \in Nat, WriteToFile(off, len)
    PROVE  Held(c)'
  <1>1. PICK a \in [set : BOOLEAN, off : Nat, len : Nat, byte : Nat] :
            a = [set |-> FALSE, off |-> off, len |-> len, byte |-> ops + 1]
    <2>1. [set |-> FALSE, off |-> off, len |-> len, byte |-> ops + 1]
              \in [set : BOOLEAN, off : Nat, len : Nat, byte : Nat]
      BY DEF IInv, Types
    <2> QED
      BY <2>1
  <1>2. kept \in Descriptors
    BY DEF IInv, Types
  <1>3. a.off <= kept.size /\ Call(kept, a)
    BY <1>1 DEF WriteToFile
  <1> QED
    BY <1>2, <1>3, CallHeld

LEMMA SetHeld ==
    ASSUME IInv, Sane', NEW c, Held(c), NEW len \in Nat, Set(len)
    PROVE  Held(c)'
  <1>1. PICK a \in [set : BOOLEAN, off : Nat, len : Nat, byte : Nat] :
            a = [set |-> TRUE, off |-> 0, len |-> len, byte |-> ops + 1]
    <2>1. [set |-> TRUE, off |-> 0, len |-> len, byte |-> ops + 1]
              \in [set : BOOLEAN, off : Nat, len : Nat, byte : Nat]
      BY DEF IInv, Types
    <2> QED
      BY <2>1
  <1>2. desc \in Descriptors /\ desc.size \in Nat
    BY DEF IInv, Types, Descriptors
  <1>3. a.off <= desc.size /\ Call(desc, a)
    BY <1>1, <1>2 DEF Set
  <1> QED
    BY <1>2, <1>3, CallHeld

----------------------------------------------------------------------------
(* The first block                                                         *)

LEMMA FirstBlockHeld ==
    ASSUME IInv, IInv', NEW c, Held(c), FirstBlock
    PROVE  Held(c)'
  <1>1. /\ pc = "first" /\ pc' = "firstpay" /\ desc' = desc /\ blocks' = Append(blocks, Fresh)
        /\ fd' = fd /\ args' = args /\ written' = written /\ boff' = boff /\ content' = content
    BY DEF FirstBlock, callVars, ghosts
  <1>2. Root' = Root /\ But' = But /\ desc.first = 0 /\ Root = 0
    BY <1>1 DEF Root, But, Places, Held, InCall
  <1>3. Len(c) = 0 /\ Len(blocks) \in Nat
    BY <1>2, HeldFacts DEF Held
  <1>4. Len(blocks') = Len(blocks) + 1 /\ blocks'[Len(blocks) + 1] = Fresh
    BY <1>1, ConstantBlocks, AppendedBlocks DEF IInv, Types
  <1>5. OnDisk(c)'
    <2>1. Rewritten(blocks, blocks', c, But)
      BY <1>3 DEF Rewritten
    <2> QED
      BY <1>1, <1>2, <1>3, <1>4, <2>1, BlocksHeld DEF Held
  <1>6. InCall(c)'
    <2>1. IsNew(Len(blocks))'
      BY <1>4 DEF IsNew, Fresh
    <2> QED
      BY <1>1, <2>1 DEF Held, InCall
  <1>7. /\ InWalk(c)' /\ InFill(c)' /\ InCopy(c)' /\ InCreate(c)' /\ InDescribe(c)'
        /\ InFinish(c)'
    <2>1. pc' = "firstpay" /\ written' = 0 /\ args'.off \in Nat
      BY <1>1 DEF Held, InCall, IInv, Types
    <2> QED
      BY <2>1, NothingLoaded
  <1> QED
    BY <1>5, <1>6, <1>7 DEF Held

LEMMA FirstPayloadHeld ==
    ASSUME IInv, IInv', NEW c, Held(c), FirstPayload
    PROVE  \E e : Held(e)'
  <1>1. PICK n \in 1 .. Len(blocks) : n = Len(blocks)
    BY DEF IInv, Types, CallInv, FirstPayload
  <1>2. /\ pc = "firstpay" /\ pc' = "find" /\ desc' = desc
        /\ blocks' = [blocks EXCEPT ![n].data = Zeros]
        /\ fd' = [fd EXCEPT !.first = n, !.last = n]
        /\ args' = args /\ written' = written /\ boff' = boff /\ content' = content
    BY <1>1 DEF FirstPayload, ghosts
  <1>3. /\ blocks' \in Seq(Blocks) /\ n \in 1 .. Len(blocks')
        /\ blocks'[n].next = 0 /\ blocks'[n].used = 0
    <2>1. blocks \in Seq(Blocks) /\ blocks[n] \in Blocks /\ blocks' \in Seq(Blocks)
      BY <1>1 DEF IInv, Types
    <2>2. blocks[n].next = 0 /\ blocks[n].used = 0
      BY <1>1, <1>2 DEF Held, InCall, IsNew
    <2>3. Len(blocks') = Len(blocks)
      BY <1>2, <2>1
    <2>4. blocks'[n] = [blocks[n] EXCEPT !.data = Zeros]
      BY <1>1, <1>2, <2>1
    <2>5. blocks'[n].next = blocks[n].next /\ blocks'[n].used = blocks[n].used
      BY <2>1, <2>4 DEF Blocks
    <2> QED
      BY <2>1, <2>2, <2>3, <2>5
  <1>4. fd' \in Descriptors /\ fd'.first = n /\ fd'.last = n /\ fd'.size = fd.size
    BY <1>1, <1>2 DEF IInv, Types, Descriptors
  <1>5. Root' = n /\ desc.first = 0 /\ desc.size = 0 /\ desc.last = 0
    BY <1>2, <1>4 DEF Held, InCall, OnDisk, Root, IInv, DiskInv, Sound
  <1>6. PICK e : e = <<n>> /\ Len(e) = 1 /\ e[1] = n
    <2>1. Len(<<n>>) = 1 /\ <<n>>[1] = n
      OBVIOUS
    <2> QED
      BY <2>1
  <1>7. OnDisk(e)'
    <2>1. PICK bt \in Seq(Blocks) : bt = blocks'
      BY <1>3
    <2>2. PICK but, text : but = But' /\ text = content
      OBVIOUS
    <2>3. File(bt, n, e, 0, text, but)
      <3>1. n \in 1 .. Len(bt) /\ bt[n].next = 0 /\ bt[n].used = 0
        BY <1>3, <2>1
      <3> QED
        BY <1>6, <3>1, FileBegun
    <2> QED
      BY <1>2, <1>5, <2>1, <2>2, <2>3 DEF Held, OnDisk
  <1>8. InCall(e)'
    <2>1. \E i \in 1 .. Len(e) : fd'.last = e[i]
      BY <1>4, <1>6
    <2>2. fd'.size = desc.size /\ args.off <= fd'.size /\ written = 0 /\ boff = 0
      BY <1>2, <1>4 DEF Held, InCall
    <2> QED
      BY <1>2, <2>1, <2>2 DEF InCall
  <1>9. /\ InWalk(e)' /\ InFill(e)' /\ InCopy(e)' /\ InCreate(e)' /\ InDescribe(e)'
        /\ InFinish(e)'
    <2>1. pc' = "find" /\ written' = 0 /\ args'.off \in Nat
      BY <1>2 DEF Held, InCall, IInv, Types
    <2> QED
      BY <2>1, NothingLoaded
  <1>10. Held(e)'
    BY <1>7, <1>8, <1>9 DEF Held
  <1> QED
    BY <1>10

----------------------------------------------------------------------------
(* Finding the block to begin with                                         *)

LEMMA CallTypes ==
    ASSUME IInv
    PROVE  /\ args.off \in Nat /\ args.len \in Nat /\ args.byte \in Nat
           /\ boff \in Nat /\ written \in Nat /\ at \in Nat /\ mem \in Blocks
           /\ mem.used \in Nat /\ mem.next \in Nat
           /\ fd.size \in Nat /\ fd.last \in Nat /\ fd.first \in Nat
           /\ B \in Nat /\ B # 0
  <1>1. mem \in Blocks /\ fd \in Descriptors /\ B \in Nat /\ B # 0
    BY ConstantBlocks DEF IInv, Types
  <1> QED
    BY <1>1 DEF IInv, Types, Blocks, Descriptors

\* Where nothing has been written yet, nothing is said of what was.
LEMMA NothingWritten ==
    ASSUME IInv', written' = 0
    PROVE  \A x : x \notin Done'
  BY DEF Done, IInv, Types

\* A size that ends a block, in the last block, ends the last block.
LEMMA WholeBlocks ==
    ASSUME NEW m \in Nat \ {0}, NEW size \in Nat, size % B = 0,
           Base(m) < size, size <= Base(m) + B
    PROVE  size = Base(m) + B
  <1>1. B \in Nat /\ B # 0 /\ Base(m) = B * (m - 1) /\ m - 1 \in Nat
    BY ConstantBlocks DEF Base
  <1>2. PICK q \in Nat : size = B * q
    <2>1. size = B * (size \div B) + (size % B) /\ size \div B \in Nat
      BY <1>1
    <2> QED
      BY <1>1, <2>1
  <1>3. PICK k \in Nat : k = m - 1
    BY <1>1
  <1>4. B * k < B * q /\ B * q <= B * k + B
    BY <1>1, <1>2, <1>3
  <1>5. q > k
    <2>1. q <= k => B * q <= B * k
      BY <1>1
    <2>2. B * q \in Nat /\ B * k \in Nat
      BY <1>1
    <2> QED
      BY <1>4, <2>1, <2>2
  <1>6. q <= k + 1
    <2>1. q > k + 1 => B * (k + 2) <= B * q
      BY <1>1
    <2>2. B * (k + 2) = B * k + B + B
      BY <1>1
    <2>3. B * q \in Nat /\ B * k \in Nat
      BY <1>1
    <2> QED
      BY <1>1, <1>4, <2>1, <2>2, <2>3
  <1>7. q = k + 1
    BY <1>5, <1>6
  <1> QED
    BY <1>1, <1>2, <1>3, <1>7

LEMMA FindHeld ==
    ASSUME IInv, IInv', Sane', NEW c, Held(c), Find
    PROVE  Held(c)'
  <1>1. /\ pc = "find" /\ blocks' = blocks /\ desc' = desc /\ fd' = fd /\ args' = args
        /\ written' = written /\ content' = content
    BY DEF Find, diskVars
  <1>2. pc' \in {"walk", "fill", "create"}
    BY DEF Find
  <1>3. Root' = fd.first /\ Root = fd.first /\ But' = But
    BY <1>1, <1>2 DEF Root, But, Places
  <1>4. OnDisk(c)'
    BY <1>1, <1>3, DiskHeld DEF Held
  <1>5. /\ fd.size = desc.size /\ args.off <= fd.size /\ written = 0 /\ boff = 0
        /\ \E i \in 1 .. Len(c) : fd.last = c[i]
    BY <1>1 DEF Held, InCall
  <1>6. InCall(c)'
    BY <1>1, <1>2, <1>5 DEF InCall
  <1>7. PICK m \in Nat \ {0} : m = Len(c)
    BY <1>5, HeldFacts DEF Held
  <1>8. /\ IsChain(blocks, fd.first, c) /\ Covered(blocks, c, desc.size)
        /\ \A j \in 1 .. m : /\ blocks[c[j]] \in Blocks /\ blocks[c[j]].used \in 0 .. B
                             /\ j < m => blocks[c[j]].used = B
    BY <1>3, <1>7, HeldFacts DEF Held
  <1>9. InFinish(c)'
    BY <1>1, <1>2, <1>5, NothingWritten DEF InFinish
  <1>10. InCopy(c)' /\ InDescribe(c)'
    BY <1>2 DEF InCopy, InDescribe
  <1>11. 1 \in 1 .. m /\ c[1] = fd.first
    BY <1>7, <1>8 DEF IsChain
  <1>12. Base(1) = 0 /\ Base(m) \in Nat
    BY BaseFacts
  <1>13. CASE args.off = fd.size /\ fd.size % B = 0
    <2>1. /\ at' = fd.last /\ mem' = blocks[fd.last] /\ boff' = args.off
          /\ pc' = IF args.off = 0 THEN "fill" ELSE "create"
          /\ ~Misleading
      BY <1>13 DEF Find, Load, Sane
    <2>2. Chain(fd) = c
      <3>1. blocks \in Seq(Blocks) /\ Onward(blocks)
        BY OnwardBlocks
      <3>2. fd.first \in 0 .. Len(blocks)
        BY <1>7, <1>8, <1>11, ChainFacts, <3>1
      <3>3. IsChain(blocks, fd.first, Chain(fd))
        BY <3>1, <3>2, ChainIs
      <3> QED
        BY <1>8, <3>1, <3>3, ChainOnly
    <2>3. fd.last = c[m] /\ ~(Base(m) >= IF args.off = 0 THEN B ELSE args.off)
      BY <1>7, <2>1, <2>2 DEF Misleading, Base, Last
    <2>4. m \in 1 .. m
      OBVIOUS
    <2>5. CASE args.off = 0
      <3>1. m = 1
        <4>1. 1 < m => Base(1) + B <= Base(m)
          BY BaseFacts
        <4>2. ~(Base(m) >= B)
          BY <2>3, <2>5
        <4>3. B \in Nat
          BY CallTypes
        <4> QED
          BY <1>12, <4>1, <4>2, <4>3
      <3>2. at' = c[1] /\ boff' = Base(1) /\ mem' = blocks'[at'] /\ pc' = "fill"
        BY <1>1, <1>12, <2>1, <2>3, <2>5, <3>1
      <3>3. /\ boff' <= args'.off + written' /\ args'.off + written' <= boff' + mem'.used
            /\ args'.off + written' < boff' + B /\ ~(written' > 0)
        <4>1. mem' = blocks[c[1]]
          BY <1>1, <3>2
        <4>2. mem'.used \in Nat /\ B \in Nat /\ B # 0
          BY <1>8, <1>11, <4>1, CallTypes
        <4> QED
          BY <1>1, <1>5, <2>1, <2>5, <4>2
      <3>4. AtNode(c, 1)'
        BY <3>2 DEF AtNode
      <3>5. InFill(c)'
        BY <1>7, <1>11, <3>2, <3>3, <3>4 DEF InFill
      <3>6. InWalk(c)' /\ InCreate(c)'
        BY <3>2 DEF InWalk, InCreate
      <3> QED
        BY <1>4, <1>6, <1>9, <1>10, <3>5, <3>6 DEF Held
    <2>6. CASE args.off # 0
      <3>1. Base(m) < args.off
        BY <1>12, <2>3, <2>6, CallTypes
      <3>2. args.off <= Base(m) + blocks[c[m]].used
        BY <1>5, <1>7, <1>8, <1>13 DEF Covered, EndOf
      <3>3. blocks[c[m]].used \in Nat /\ blocks[c[m]].used <= B /\ B \in Nat
        BY <1>8, <2>4, CallTypes
      <3>4. args.off = Base(m) + B
        <4>1. args.off <= Base(m) + B
          BY <1>12, <3>2, <3>3, CallTypes
        <4>2. args.off \in Nat /\ args.off % B = 0
          BY <1>13, CallTypes
        <4> QED
          BY <3>1, <4>1, <4>2, WholeBlocks
      <3>5. blocks[c[m]].used = B
        BY <1>12, <3>2, <3>3, <3>4
      <3>6. /\ pc' = "create" /\ at' = c[m] /\ mem' = blocks[c[m]] /\ boff' = Base(m) + B
            /\ args.off + written = boff'
        BY <1>5, <2>1, <2>3, <2>6, <3>4, CallTypes
      <3>7. InCreate(c)'
        BY <1>1, <1>7, <3>5, <3>6 DEF InCreate
      <3>8. InWalk(c)' /\ InFill(c)'
        BY <3>6 DEF InWalk, InFill
      <3> QED
        BY <1>4, <1>6, <1>9, <1>10, <3>7, <3>8 DEF Held
    <2> QED
      BY <2>5, <2>6
  <1>14. CASE ~(args.off = fd.size /\ fd.size % B = 0)
    <2>1. at' = fd.first /\ mem' = blocks[fd.first] /\ pc' = "walk" /\ boff' = boff
      BY <1>14 DEF Find, Load
    <2>2. AtNode(c, 1)' /\ mem' = blocks'[at'] /\ boff' <= args'.off
      BY <1>1, <1>5, <1>11, <1>12, <2>1, CallTypes DEF AtNode
    <2>3. InWalk(c)'
      BY <1>7, <1>11, <2>2 DEF InWalk
    <2>4. InFill(c)' /\ InCreate(c)'
      BY <2>1 DEF InFill, InCreate
    <2> QED
      BY <1>4, <1>6, <1>9, <1>10, <2>3, <2>4 DEF Held
  <1> QED
    BY <1>13, <1>14

\* Where the place j of the chain is full and the call goes on behind it.
LEMMA NextBlock ==
    ASSUME IInv, NEW c, OnDisk(c), NEW j \in 1 .. Len(c)
    PROVE  /\ blocks[c[j]].next = 0 => j = Len(c)
           /\ blocks[c[j]].next # 0 =>
                 j + 1 \in 1 .. Len(c) /\ blocks[c[j]].next = c[j + 1] /\ Base(j + 1) = Base(j) + B
  <1>1. IsChain(blocks, Root, c) /\ Len(c) \in Nat /\ \A i \in 1 .. Len(c) : Whole(c[i])
    BY HeldFacts
  <1>2. CASE j = Len(c)
    <2>1. blocks[c[j]].next = 0
      BY <1>1, <1>2 DEF IsChain
    <2> QED
      BY <1>2, <2>1
  <1>3. CASE j # Len(c)
    <2>1. j \in 1 .. Len(c) - 1 /\ j + 1 \in 1 .. Len(c) /\ j \in Nat \ {0}
      BY <1>1, <1>3
    <2>2. blocks[c[j]].next = c[j + 1]
      BY <1>1, <2>1 DEF IsChain
    <2>3. c[j + 1] # 0
      BY <1>1, <2>1 DEF Whole
    <2>4. Base(j + 1) = Base(j) + B
      BY <2>1, BaseFacts
    <2> QED
      BY <2>1, <2>2, <2>3, <2>4
  <1> QED
    BY <1>2, <1>3

\* What has been written stays written while no bytes change.
LEMMA WrittenStays ==
    ASSUME NEW c, InFinish(c), pc \notin {"idle", "used", "data"}, pc' # "finish",
           args' = args, written' = written,
           \A j \in 1 .. Len(c) : blocks'[c[j]].data = blocks[c[j]].data
    PROVE  InFinish(c)'
  <1>1. Done' = Done
    BY DEF Done
  <1>2. ASSUME NEW j \in 1 .. Len(c), NEW o \in 1 .. B, Base(j) + o \in Done
        PROVE  blocks'[c[j]].data[o] = args'.byte
    BY <1>2 DEF InFinish
  <1> QED
    BY <1>1, <1>2 DEF InFinish

LEMMA WalkHeld ==
    ASSUME IInv, IInv', NEW c, Held(c), Walk
    PROVE  Held(c)'
  <1>1. /\ pc = "walk" /\ blocks' = blocks /\ desc' = desc /\ fd' = fd /\ args' = args
        /\ written' = written /\ content' = content
    BY DEF Walk, diskVars, ghosts
  <1>2. pc' \in {"walk", "fill", "create"}
    BY <1>1 DEF Walk
  <1>3. Root' = Root /\ But' = But
    BY <1>1, <1>2 DEF Root, But, Places
  <1>4. OnDisk(c)'
    BY <1>1, <1>3, DiskHeld DEF Held
  <1>5. /\ fd.size = desc.size /\ args.off <= fd.size /\ written = 0
        /\ \E i \in 1 .. Len(c) : fd.last = c[i]
    BY <1>1 DEF Held, InCall
  <1>6. InCall(c)'
    BY <1>1, <1>2, <1>5 DEF InCall
  <1>7. InFinish(c)'
    BY <1>1, <1>2, <1>5, NothingWritten DEF InFinish
  <1>8. InCopy(c)' /\ InDescribe(c)'
    BY <1>2 DEF InCopy, InDescribe
  <1>9. PICK j \in 1 .. Len(c) :
            at = c[j] /\ boff = Base(j) /\ mem = blocks[c[j]] /\ boff <= args.off
    BY <1>1 DEF Held, InWalk, AtNode
  <1>10. PICK u \in 0 .. B : u = mem.used /\ (j < Len(c) => u = B)
    BY <1>9, HeldFacts DEF Held
  <1>11. Len(c) \in Nat /\ Base(j) \in Nat /\ B \in Nat /\ B # 0 /\ args.off \in Nat
    <2>1. Len(c) \in Nat /\ j \in Nat \ {0}
      BY HeldFacts DEF Held
    <2> QED
      BY <2>1, BaseFacts, CallTypes
  <1>12. j = Len(c) => args.off <= Base(j) + u
    <2> SUFFICES ASSUME j = Len(c) PROVE args.off <= Base(j) + u
      OBVIOUS
    <2>1. Covered(blocks, c, desc.size) /\ desc.size \in Nat
      BY HeldFacts DEF Held
    <2>2. Len(c) # 0
      BY <1>11
    <2>3. desc.size <= Base(j) + u
      BY <1>9, <1>10, <2>1, <2>2 DEF Covered, EndOf
    <2>4. args.off <= desc.size
      BY <1>5
    <2> QED
      BY <1>11, <2>1, <2>3, <2>4
  <1>13. CASE u = B /\ u + boff <= args.off
    <2>1. /\ boff' = boff + B
          /\ IF mem.next = 0 THEN pc' = "create" /\ at' = at /\ mem' = mem
                             ELSE at' = mem.next /\ mem' = blocks[mem.next] /\ pc' = "walk"
      BY <1>1, <1>10, <1>13 DEF Walk, Load
    <2>2. CASE mem.next = 0
      <3>1. j = Len(c)
        BY <1>9, <2>2, NextBlock DEF Held
      <3>2. args.off = boff'
        BY <1>9, <1>11, <1>12, <1>13, <2>1, <3>1
      <3>3. /\ pc' = "create" /\ at' = c[Len(c)] /\ mem' = blocks[c[Len(c)]]
            /\ boff' = Base(Len(c)) + B /\ args.off + written = boff' /\ blocks[c[Len(c)]].used = B
        <4>1. blocks[c[Len(c)]].used = B /\ boff' = Base(Len(c)) + B
          BY <1>9, <1>10, <1>13, <2>1, <3>1
        <4>2. args.off + written = boff'
          BY <1>5, <1>11, <3>2
        <4> QED
          BY <1>9, <2>1, <2>2, <3>1, <4>1, <4>2
      <3>4. InCreate(c)'
        BY <1>1, <3>3 DEF InCreate
      <3>5. InWalk(c)' /\ InFill(c)'
        BY <3>3 DEF InWalk, InFill
      <3> QED
        BY <1>4, <1>6, <1>7, <1>8, <3>4, <3>5 DEF Held
    <2>3. CASE mem.next # 0
      <3>1. j + 1 \in 1 .. Len(c) /\ mem.next = c[j + 1] /\ Base(j + 1) = Base(j) + B
        BY <1>9, <2>3, NextBlock DEF Held
      <3>2. /\ pc' = "walk" /\ at' = c[j + 1] /\ mem' = blocks'[at'] /\ boff' = Base(j + 1)
            /\ boff' <= args'.off
        BY <1>1, <1>9, <1>11, <1>13, <2>1, <2>3, <3>1
      <3>3. InWalk(c)'
        BY <3>1, <3>2 DEF InWalk, AtNode
      <3>4. InFill(c)' /\ InCreate(c)'
        BY <3>2 DEF InFill, InCreate
      <3> QED
        BY <1>4, <1>6, <1>7, <1>8, <3>3, <3>4 DEF Held
    <2> QED
      BY <2>2, <2>3
  <1>14. CASE ~(u = B /\ u + boff <= args.off)
    <2>1. pc' = "fill" /\ at' = at /\ mem' = mem /\ boff' = boff
      BY <1>1, <1>10, <1>14 DEF Walk
    <2>2. args.off <= Base(j) + u /\ args.off < Base(j) + B
      <3>1. CASE j < Len(c)
        BY <1>9, <1>10, <1>11, <1>14, <3>1
      <3>2. CASE j = Len(c)
        BY <1>9, <1>10, <1>11, <1>12, <1>14, <3>2
      <3> QED
        BY <1>11, <3>1, <3>2
    <2>3. /\ AtNode(c, j)' /\ mem' = blocks'[at'] /\ boff' <= args'.off + written'
          /\ args'.off + written' <= boff' + mem'.used /\ args'.off + written' < boff' + B
          /\ ~(written' > 0)
      BY <1>1, <1>5, <1>9, <1>10, <1>11, <2>1, <2>2 DEF AtNode
    <2>4. InFill(c)'
      BY <2>3 DEF InFill
    <2>5. InWalk(c)' /\ InCreate(c)'
      BY <2>1 DEF InWalk, InCreate
    <2> QED
      BY <1>4, <1>6, <1>7, <1>8, <2>4, <2>5 DEF Held
  <1> QED
    BY <1>13, <1>14

----------------------------------------------------------------------------
(* A block is appended                                                     *)

LEMMA CreateHeld ==
    ASSUME IInv, IInv', NEW c, Held(c), Create
    PROVE  Held(c)'
  <1>1. /\ pc = "create" /\ pc' = "pay" /\ blocks' = Append(blocks, Fresh)
        /\ desc' = desc /\ fd' = fd /\ args' = args /\ at' = at /\ mem' = mem /\ boff' = boff
        /\ written' = written /\ content' = content
    BY DEF Create, callVars, ghosts
  <1>2. Root' = Root /\ But' = But
    BY <1>1 DEF Root, But, Places
  <1>3. /\ blocks \in Seq(Blocks) /\ blocks' \in Seq(Blocks) /\ Len(blocks) \in Nat
        /\ Len(blocks') = Len(blocks) + 1 /\ blocks'[Len(blocks) + 1] = Fresh
        /\ \A n \in 1 .. Len(blocks) : blocks'[n] = blocks[n]
    BY <1>1, ConstantBlocks, AppendedBlocks DEF IInv, Types
  <1>4. /\ IsChain(blocks, Root, c) /\ Full(blocks, c) /\ Len(c) \in Nat /\ Len(c) # 0
        /\ \A j \in 1 .. Len(c) : c[j] \in 1 .. Len(blocks)
    <2>1. Root # 0
      BY <1>1 DEF Root, IInv, CallInv
    <2> QED
      BY <2>1, HeldFacts DEF Held, Whole
  <1>5. \A j \in 1 .. Len(c) : blocks'[c[j]] = blocks[c[j]]
    BY <1>3, <1>4
  <1>6. OnDisk(c)'
    <2>1. PICK s, but : s = Root /\ but = But
      OBVIOUS
    <2>2. Rewritten(blocks, blocks', c, but)
      BY <1>3, <1>4, <1>5, <2>1, Untouched
    <2> QED
      BY <1>1, <1>2, <1>3, <2>1, <2>2, BlocksHeld DEF Held
  <1>7. InCall(c)'
    BY <1>1 DEF Held, InCall
  <1>8. InCreate(c)'
    <2>1. at = c[Len(c)] /\ at \in 1 .. Len(blocks) /\ blocks'[at] = blocks[at]
      BY <1>1, <1>4, <1>5 DEF Held, InCreate
    <2>2. at < Len(blocks') /\ blocks'[Len(blocks')].next = 0 /\ blocks'[Len(blocks')].used = 0
      BY <1>3, <2>1 DEF Fresh
    <2>3. IsNew(Len(blocks))'
      BY <2>2 DEF IsNew
    <2> QED
      BY <1>1, <2>1, <2>2, <2>3 DEF Held, InCreate
  <1>9. InFinish(c)'
    BY <1>1, <1>5, WrittenStays DEF Held
  <1>10. InWalk(c)' /\ InFill(c)' /\ InCopy(c)' /\ InDescribe(c)'
    BY <1>1 DEF InWalk, InFill, InCopy, InDescribe
  <1> QED
    BY <1>6, <1>7, <1>8, <1>9, <1>10 DEF Held

\* The chain ends before the block that was appended.
LEMMA ChainBefore ==
    ASSUME IInv, NEW c, Held(c), pc \in {"pay", "link"}
    PROVE  /\ Len(c) \in Nat \ {0} /\ at = c[Len(c)] /\ at \in 1 .. Len(blocks) /\ at < Len(blocks)
           /\ Len(blocks) \in 1 .. Len(blocks) /\ blocks[Len(blocks)] \in Blocks
           /\ \A j \in 1 .. Len(c) : c[j] \in 1 .. Len(blocks) /\ c[j] < Len(blocks)
           /\ \A j \in 1 .. Len(c) : j < Len(c) => c[j] # at
  <1>1. Root # 0
    BY DEF Root, IInv, CallInv
  <1>2. /\ IsChain(blocks, Root, c) /\ Len(c) \in Nat \ {0} /\ Len(blocks) \in Nat
        /\ blocks \in Seq(Blocks) /\ \A j \in 1 .. Len(c) : c[j] \in 1 .. Len(blocks)
    BY <1>1, HeldFacts DEF Held, Whole
  <1>3. at = c[Len(c)] /\ at < Len(blocks)
    BY DEF Held, InCreate
  <1>4. ASSUME NEW j \in 1 .. Len(c) PROVE c[j] < Len(blocks) /\ (j < Len(c) => c[j] # at)
    <2>1. Len(c) \in 1 .. Len(c) /\ c[j] \in 1 .. Len(blocks) /\ c[Len(c)] \in 1 .. Len(blocks)
      BY <1>2
    <2>2. j < Len(c) => c[j] < c[Len(c)]
      BY <1>2, <2>1 DEF IsChain
    <2> QED
      BY <1>2, <1>3, <2>1, <2>2
  <1>5. at \in 1 .. Len(blocks) /\ Len(blocks) \in 1 .. Len(blocks)
    BY <1>2, <1>3
  <1> QED
    BY <1>2, <1>3, <1>4, <1>5

LEMMA PayloadHeld ==
    ASSUME IInv, IInv', NEW c, Held(c), Payload
    PROVE  Held(c)'
  <1>1. /\ pc = "pay" /\ pc' = "link" /\ blocks' = [blocks EXCEPT ![Len(blocks)].data = Zeros]
        /\ mem' = [mem EXCEPT !.next = Len(blocks)] /\ fd' = [fd EXCEPT !.last = Len(blocks)]
        /\ desc' = desc /\ args' = args /\ at' = at /\ boff' = boff
        /\ written' = written /\ content' = content
    BY DEF Payload, ghosts
  <1>2. PICK n \in 1 .. Len(blocks) : n = Len(blocks) /\ blocks[n] \in Blocks /\ at < n
    BY <1>1, ChainBefore
  <1>3. /\ Len(c) \in Nat \ {0} /\ at = c[Len(c)] /\ at \in 1 .. Len(blocks)
        /\ \A j \in 1 .. Len(c) : c[j] \in 1 .. Len(blocks) /\ c[j] < n
    BY <1>1, <1>2, ChainBefore
  <1>4. /\ blocks \in Seq(Blocks) /\ blocks' \in Seq(Blocks) /\ Len(blocks') = Len(blocks)
        /\ \A k \in 1 .. Len(blocks) : k # n => blocks'[k] = blocks[k]
        /\ blocks'[n] = [blocks[n] EXCEPT !.data = Zeros]
    BY <1>1, <1>2 DEF IInv, Types
  <1>5. \A j \in 1 .. Len(c) : blocks'[c[j]] = blocks[c[j]]
    BY <1>2, <1>3, <1>4
  <1>6. fd'.first = fd.first /\ fd'.last = n /\ fd'.size = fd.size
    BY <1>1, <1>2 DEF IInv, Types, Descriptors
  <1>7. Root' = Root /\ But' = But
    BY <1>1, <1>6 DEF Root, But, Places
  <1>8. OnDisk(c)'
    <2>1. PICK s, but : s = Root /\ but = But
      OBVIOUS
    <2>2. IsChain(blocks, s, c) /\ Full(blocks, c)
      BY <2>1, HeldFacts DEF Held
    <2>3. Rewritten(blocks, blocks', c, but)
      BY <1>4, <1>5, <2>2, Untouched
    <2>4. Len(blocks) <= Len(blocks')
      BY <1>4
    <2> QED
      BY <1>1, <1>7, <2>1, <2>3, <2>4, BlocksHeld DEF Held
  <1>9. InCall(c)'
    BY <1>1, <1>6 DEF Held, InCall
  <1>10. InCreate(c)'
    <2>1. blocks'[at] = blocks[at] /\ Len(blocks)' = n
      BY <1>2, <1>3, <1>4
    <2>2. /\ at = c[Len(c)] /\ boff = Base(Len(c)) + B /\ args.off + written = boff
          /\ blocks[at].used = B /\ mem = blocks[at] /\ IsNew(n)
      BY <1>1, <1>2 DEF Held, InCreate
    <2>3. IsNew(n)'
      <3>1. blocks'[n].next = blocks[n].next /\ blocks'[n].used = blocks[n].used
        BY <1>2, <1>4 DEF Blocks
      <3> QED
        BY <2>2, <3>1 DEF IsNew
    <2>4. IsNew(Len(blocks))'
      BY <2>1, <2>3 DEF IsNew
    <2>5. mem' = [blocks'[at'] EXCEPT !.next = Len(blocks')]
      BY <1>1, <1>2, <2>1, <2>2
    <2> QED
      BY <1>1, <1>2, <1>6, <2>1, <2>2, <2>4, <2>5 DEF InCreate
  <1>11. InFinish(c)'
    BY <1>1, <1>5, WrittenStays DEF Held
  <1>12. InWalk(c)' /\ InFill(c)' /\ InCopy(c)' /\ InDescribe(c)'
    BY <1>1 DEF InWalk, InFill, InCopy, InDescribe
  <1> QED
    BY <1>8, <1>9, <1>10, <1>11, <1>12 DEF Held

LEMMA LinkHeld ==
    ASSUME IInv, IInv', NEW c, Held(c), Link
    PROVE  \E e : Held(e)'
  <1>1. /\ pc = "link" /\ pc' = "describe" /\ blocks' = [blocks EXCEPT ![at] = Described]
        /\ desc' = desc /\ fd' = fd /\ args' = args /\ at' = at /\ mem' = mem /\ boff' = boff
        /\ written' = written /\ content' = content
    BY DEF Link, callVars, ghosts
  <1>2. PICK n \in 1 .. Len(blocks) : n = Len(blocks) /\ blocks[n] \in Blocks /\ at < n
    BY <1>1, ChainBefore
  <1>3. PICK m \in Nat \ {0} : m = Len(c)
    BY <1>1, ChainBefore
  <1>4. /\ at = c[m] /\ at \in 1 .. Len(blocks)
        /\ \A j \in 1 .. m : c[j] \in 1 .. Len(blocks) /\ (j < m => c[j] # at)
    BY <1>1, <1>3, ChainBefore
  <1>5. /\ boff = Base(m) + B /\ args.off + written = boff /\ blocks[at].used = B
        /\ mem = [blocks[at] EXCEPT !.next = Len(blocks)] /\ fd.last = Len(blocks)
        /\ blocks[n].next = 0 /\ blocks[n].used = 0
    BY <1>1, <1>2, <1>3 DEF Held, InCreate, IsNew
  <1>6. /\ blocks \in Seq(Blocks) /\ blocks' \in Seq(Blocks) /\ Len(blocks') = Len(blocks)
        /\ blocks[at] \in Blocks /\ blocks'[at] = Described
        /\ \A k \in 1 .. Len(blocks) : k # at => blocks'[k] = blocks[k]
    BY <1>1, <1>4 DEF IInv, Types
  <1>7. /\ blocks'[at].next = n /\ blocks'[at].used = blocks[at].used
        /\ blocks'[at].data = blocks[at].data
    BY <1>2, <1>5, <1>6 DEF Described, Blocks
  <1>8. /\ \A j \in 1 .. m : /\ j < m => blocks'[c[j]].next = blocks[c[j]].next
                             /\ blocks'[c[j]].used = blocks[c[j]].used
                             /\ blocks'[c[j]].data = blocks[c[j]].data
        /\ blocks'[n] = blocks[n]
    <2>1. ASSUME NEW j \in 1 .. m, c[j] = at
          PROVE  /\ ~(j < m) /\ blocks'[c[j]].used = blocks[c[j]].used
                 /\ blocks'[c[j]].data = blocks[c[j]].data
      BY <1>4, <1>7, <2>1
    <2>2. ASSUME NEW j \in 1 .. m, c[j] # at PROVE blocks'[c[j]] = blocks[c[j]]
      BY <1>4, <1>6, <2>2
    <2>3. n # at
      BY <1>2, <1>4
    <2> QED
      BY <1>6, <2>1, <2>2, <2>3
  <1>9. PICK bt \in Seq(Blocks) : bt = blocks'
    BY <1>6
  <1>10. Extended(blocks, bt, c, n)
    <2>1. n \in 1 .. Len(bt) /\ c[Len(c)] < n
      BY <1>2, <1>3, <1>4, <1>6, <1>9
    <2>2. bt[n].next = 0 /\ bt[n].used = 0
      BY <1>5, <1>8, <1>9
    <2>3. bt[c[Len(c)]].next = n /\ blocks[c[Len(c)]].used = B
      BY <1>3, <1>4, <1>5, <1>7, <1>9
    <2> QED
      BY <1>3, <1>8, <1>9, <2>1, <2>2, <2>3 DEF Extended
  <1>11. PICK e : e = Append(c, n)
    OBVIOUS
  <1>12. Len(e) = m + 1 /\ e[m + 1] = n /\ \A j \in 1 .. m : e[j] = c[j]
    <2>1. c \in Seq(1 .. Len(blocks))
      BY HeldFacts DEF Held, IsChain
    <2> QED
      BY <1>3, <1>11, <2>1
  <1>13. Root' = Root /\ But' = But
    BY <1>1 DEF Root, But, Places
  <1>14. OnDisk(e)'
    <2>1. PICK s, text, but : s = Root /\ text = content /\ but = But
      OBVIOUS
    <2>2. desc.size \in Nat /\ File(blocks, s, c, desc.size, text, but) /\ Len(c) # 0
      BY <1>3, <2>1, HeldFacts DEF Held, OnDisk
    <2>3. Len(blocks) <= Len(bt)
      BY <1>2, <1>6, <1>9
    <2>4. File(bt, s, e, desc.size, text, but)
      BY <1>6, <1>10, <1>11, <2>2, <2>3, FileExtended
    <2>5. desc.last # 0 => \E i \in 1 .. Len(e) : desc.last = e[i]
      <3>1. ASSUME NEW i \in 1 .. m PROVE i \in 1 .. Len(e) /\ e[i] = c[i]
        BY <1>12
      <3> QED
        BY <1>3, <3>1 DEF Held, OnDisk
    <2> QED
      BY <1>1, <1>9, <1>13, <2>1, <2>4, <2>5 DEF Held, OnDisk
  <1>15. m + 1 \in 1 .. Len(e) /\ Base(m + 1) = Base(m) + B
    BY <1>12, BaseFacts
  <1>16. InCall(e)'
    <2>1. \E i \in 1 .. Len(e) : fd.last = e[i]
      BY <1>2, <1>5, <1>12, <1>15
    <2> QED
      BY <1>1, <2>1 DEF Held, InCall
  <1>17. InDescribe(e)'
    <2>1. fd.last = e[Len(e)] /\ boff = Base(Len(e)) /\ blocks'[fd.last].used = 0
      BY <1>2, <1>5, <1>8, <1>12, <1>15
    <2> QED
      BY <1>1, <1>5, <2>1 DEF InDescribe
  <1>18. InFinish(e)'
    <2>1. Done' = Done
      BY <1>1 DEF Done
    <2>2. ASSUME NEW j \in 1 .. Len(e), NEW o \in 1 .. B, Base(j) + o \in Done
          PROVE  blocks'[e[j]].data[o] = args.byte
      <3>1. CASE j = m + 1
        <4>1. Base(m + 1) + o <= args.off + written
          BY <2>2, <3>1, CallTypes DEF Done
        <4> QED
          BY <1>5, <1>15, <4>1, CallTypes
      <3>2. CASE j # m + 1
        <4>1. j \in 1 .. m
          BY <1>12, <3>2
        <4>2. blocks[c[j]].data[o] = args.byte
          BY <1>1, <1>3, <2>2, <4>1 DEF Held, InFinish
        <4> QED
          BY <1>8, <1>12, <4>1, <4>2
      <3> QED
        BY <3>1, <3>2
    <2> QED
      BY <1>1, <2>1, <2>2 DEF InFinish
  <1>19. InWalk(e)' /\ InFill(e)' /\ InCopy(e)' /\ InCreate(e)'
    BY <1>1 DEF InWalk, InFill, InCopy, InCreate
  <1>20. Held(e)'
    BY <1>14, <1>16, <1>17, <1>18, <1>19 DEF Held
  <1> QED
    BY <1>20

LEMMA DescribeHeld ==
    ASSUME IInv, IInv', NEW c, Held(c), Describe
    PROVE  Held(c)'
  <1>1. /\ pc = "describe" /\ pc' = "fill" /\ blocks' = blocks /\ desc' = fd /\ fd' = fd
        /\ at' = fd.last /\ mem' = blocks[fd.last]
        /\ args' = args /\ boff' = boff /\ written' = written /\ content' = content
    BY DEF Describe, Load, ghosts
  <1>2. Root' = Root /\ But' = But /\ Root = fd.first /\ fd.first # 0
    BY <1>1 DEF Root, But, Places, IInv, CallInv
  <1>3. /\ fd.last = c[Len(c)] /\ boff = Base(Len(c)) /\ args.off + written = boff
        /\ blocks[fd.last].used = 0
    BY <1>1 DEF Held, InDescribe
  <1>4. fd.size = desc.size /\ args.off <= fd.size
    BY <1>1 DEF Held, InCall
  <1>5. Len(c) \in 1 .. Len(c)
    BY <1>2, HeldFacts DEF Held
  <1>6. OnDisk(c)'
    BY <1>1, <1>2, <1>3, <1>4, <1>5 DEF Held, OnDisk
  <1>7. InCall(c)'
    BY <1>1, <1>3, <1>4, <1>5 DEF InCall
  <1>8. InFill(c)'
    <2>1. /\ at' = c[Len(c)] /\ mem' = blocks'[at'] /\ mem'.used = 0
          /\ boff' = Base(Len(c)) /\ args'.off + written' = boff'
      BY <1>1, <1>3
    <2>2. /\ boff' <= args'.off + written' /\ args'.off + written' <= boff' + mem'.used
          /\ args'.off + written' < boff' + B
      BY <1>1, <2>1, CallTypes
    <2> QED
      BY <1>5, <2>1, <2>2 DEF InFill, AtNode
  <1>9. InFinish(c)'
    BY <1>1, WrittenStays DEF Held
  <1>10. InWalk(c)' /\ InCopy(c)' /\ InCreate(c)' /\ InDescribe(c)'
    BY <1>1 DEF InWalk, InCopy, InCreate, InDescribe
  <1> QED
    BY <1>6, <1>7, <1>8, <1>9, <1>10 DEF Held

----------------------------------------------------------------------------
(* Bytes are written                                                       *)

\* What a block of the chain covers, the chain covers.
LEMMA CoveredAt ==
    ASSUME NEW bs \in Seq(Blocks), NEW s, NEW c, IsChain(bs, s, c), Full(bs, c),
           NEW j \in 1 .. Len(c), NEW x \in Nat, x <= Base(j) + bs[c[j]].used
    PROVE  Covered(bs, c, x)
  <1>1. PICK m \in Nat \ {0} : m = Len(c)
    BY ChainFacts
  <1>2. m \in 1 .. m /\ j \in 1 .. m /\ j \in Nat \ {0}
    BY <1>1
  <1>3. bs[c[j]].used \in Nat /\ bs[c[m]].used \in Nat
    BY <1>1, <1>2, ChainFacts
  <1>4. B \in Nat /\ Base(m) \in Nat /\ Base(j) \in Nat /\ (j < m => Base(j) + B <= Base(m))
    BY <1>2, ConstantBlocks, BaseFacts
  <1>5. j < m => bs[c[j]].used = B
    BY <1>1 DEF Full
  <1>6. x <= Base(m) + bs[c[m]].used
    <2>1. CASE j < m
      BY <1>3, <1>4, <1>5, <2>1
    <2>2. CASE j = m
      BY <2>2
    <2> QED
      BY <1>2, <2>1, <2>2
  <1> QED
    BY <1>1, <1>6 DEF Covered, EndOf

\* What the call does to the copy of a block.
LEMMA Filled ==
    ASSUME IInv, IInv', Fill, written # args.len, boff <= args.off + written,
           args.off + written < boff + B, written > 0 => args.off + written = boff
    PROVE  \E end \in 1 .. B :
              /\ args.off + written' = boff + end
              /\ written' < args.len => end = B
              /\ mem'.next = mem.next
              /\ mem'.used = IF end > mem.used THEN end ELSE mem.used
              /\ pc' = IF end > mem.used THEN "used" ELSE "data"
              /\ \A o \in 1 .. B : mem'.data[o] =
                    IF boff + o \in Done' THEN args.byte ELSE mem.data[o]
  <1>1. /\ args.off \in Nat /\ args.len \in Nat /\ boff \in Nat /\ written \in Nat
        /\ mem \in Blocks /\ mem.used \in Nat /\ B \in Nat /\ B # 0
    BY CallTypes
  <1>2. written < args.len
    BY <1>1 DEF IInv, CallInv
  <1>3. PICK k \in 0 .. B - 1 : k = Cursor /\ boff + k = args.off + written
    <2>1. CASE written = 0 /\ args.off > boff
      <3>1. Cursor = args.off - boff
        BY <1>1, <2>1 DEF Cursor
      <3> QED
        BY <1>1, <2>1, <3>1
    <2>2. CASE ~(written = 0 /\ args.off > boff)
      <3>1. Cursor = 0
        BY <2>2 DEF Cursor
      <3>2. args.off + written = boff
        BY <1>1, <2>2
      <3> QED
        BY <1>1, <3>1, <3>2
    <2> QED
      BY <2>1, <2>2
  <1> DEFINE n == IF args.len - written < B - Cursor THEN args.len - written ELSE B - Cursor
             end == Cursor + n
             data == [i \in 1 .. B |-> IF i \in Cursor + 1 .. end THEN args.byte ELSE mem.data[i]]
             used == IF end > mem.used THEN end ELSE mem.used
  <1>4. n \in Nat /\ end \in 1 .. B /\ end = k + n /\ (written + n < args.len => end = B)
    BY <1>1, <1>2, <1>3
  <1>5. /\ mem' = [mem EXCEPT !.used = IF end > @ THEN end ELSE @, !.data = data]
        /\ written' = written + n
        /\ pc' = IF end > mem.used THEN "used" ELSE "data"
        /\ args' = args /\ boff' = boff
    <2>1. data = [i \in 1 .. B |-> IF i \in Cursor + 1 .. end THEN args.byte ELSE mem.data[i]]
      OBVIOUS
    <2> QED
      BY <2>1 DEF Fill
  <1>6. mem' = [mem EXCEPT !.used = used, !.data = data]
    BY <1>5
  <1>7. \A i \in 1 .. B : data[i] = IF k < i /\ i <= end THEN args.byte ELSE mem.data[i]
    BY <1>1, <1>3, <1>4
  <1> HIDE DEF n, end, data
  <1>8. mem'.used = used /\ mem'.data = data /\ mem'.next = mem.next
    BY <1>1, <1>6 DEF Blocks
  <1>9. args.off + written' = boff + end
    BY <1>1, <1>3, <1>4, <1>5
  <1>10. ASSUME NEW o \in 1 .. B
         PROVE  (k < o /\ o <= end) <=> boff + o \in Done'
    <2>1. boff + o \in Done' <=> args.off < boff + o /\ o <= end
      <3>1. Done' = args.off + 1 .. args.off + written'
        BY <1>5 DEF Done
      <3> QED
        BY <1>1, <1>4, <1>9, <3>1
    <2>2. CASE written = 0
      BY <1>1, <1>3, <2>1, <2>2
    <2>3. CASE written # 0
      BY <1>1, <1>3, <2>1, <2>3
    <2> QED
      BY <2>2, <2>3
  <1>11. \A o \in 1 .. B : mem'.data[o] = IF boff + o \in Done' THEN args.byte ELSE mem.data[o]
    BY <1>7, <1>8, <1>10
  <1>12. written' < args.len => end = B
    BY <1>4, <1>5
  <1> QED
    BY <1>4, <1>5, <1>8, <1>9, <1>11, <1>12

LEMMA FillHeld ==
    ASSUME IInv, IInv', NEW c, Held(c), Fill
    PROVE  Held(c)'
  <1>1. /\ pc = "fill" /\ blocks' = blocks /\ desc' = desc /\ fd' = fd /\ args' = args
        /\ at' = at /\ boff' = boff /\ content' = content
    BY DEF Fill, diskVars, ghosts
  <1>2. pc' \in {"finish", "used", "data"}
    BY DEF Fill
  <1>3. Root' = Root /\ But' = But
    BY <1>1, <1>2 DEF Root, But, Places
  <1>4. OnDisk(c)'
    BY <1>1, <1>3, DiskHeld DEF Held
  <1>5. InCall(c)'
    BY <1>1, <1>2 DEF Held, InCall
  <1>6. PICK j \in 1 .. Len(c) :
          /\ at = c[j] /\ boff = Base(j) /\ mem = blocks[c[j]]
          /\ boff <= args.off + written
          /\ args.off + written <= boff + mem.used
          /\ args.off + written < boff + B
          /\ written > 0 => args.off + written = boff
    BY <1>1 DEF Held, InFill, AtNode
  <1>7. InWalk(c)' /\ InFill(c)' /\ InCreate(c)' /\ InDescribe(c)'
    BY <1>2 DEF InWalk, InFill, InCreate, InDescribe
  <1>8. CASE written = args.len
    <2>1. pc' = "finish" /\ mem' = mem /\ written' = written
      BY <1>1, <1>8 DEF Fill
    <2>2. Covered(blocks, c, args.off + args.len)
      <3>1. args.off + args.len \in Nat /\ args.off + args.len <= Base(j) + blocks[c[j]].used
        BY <1>6, <1>8, CallTypes
      <3>2. blocks \in Seq(Blocks) /\ IsChain(blocks, Root, c) /\ Full(blocks, c)
        BY HeldFacts DEF Held
      <3>3. PICK s : s = Root
        OBVIOUS
      <3> QED
        BY <3>1, <3>2, <3>3, CoveredAt
    <2>3. InFinish(c)'
      <3>1. Done' = Done
        BY <1>1, <2>1 DEF Done
      <3> QED
        BY <1>1, <1>8, <2>1, <2>2, <3>1 DEF Held, InFinish
    <2>4. InCopy(c)'
      BY <2>1 DEF InCopy
    <2> QED
      BY <1>4, <1>5, <1>7, <2>3, <2>4 DEF Held
  <1>9. CASE written # args.len
    <2>1. PICK end \in 1 .. B :
              /\ args.off + written' = boff + end
              /\ written' < args.len => end = B
              /\ mem'.next = mem.next
              /\ mem'.used = IF end > mem.used THEN end ELSE mem.used
              /\ pc' = IF end > mem.used THEN "used" ELSE "data"
              /\ \A o \in 1 .. B : mem'.data[o] =
                    IF boff + o \in Done' THEN args.byte ELSE mem.data[o]
      BY <1>6, <1>9, Filled
    <2>2. mem.used \in 0 .. B
      BY <1>6, HeldFacts DEF Held
    <2>3. InCopy(c)'
      <3>1. AtNode(c, j)' /\ mem'.next = blocks'[at'].next
        BY <1>1, <1>6, <2>1 DEF AtNode
      <3>2. /\ blocks'[at'].used <= mem'.used /\ mem'.used <= B
            /\ pc' = "data" => blocks'[at'].used = mem'.used
        BY <1>1, <1>6, <2>1, <2>2, CallTypes
      <3>3. /\ args'.off + written' <= boff' + mem'.used
            /\ written' < args'.len => args'.off + written' = boff' + B
        BY <1>1, <2>1, <2>2, CallTypes
      <3>4. \A o \in 1 .. B : mem'.data[o] =
                IF boff' + o \in Done' THEN args'.byte ELSE blocks'[at'].data[o]
        BY <1>1, <1>6, <2>1
      <3> QED
        BY <3>1, <3>2, <3>3, <3>4 DEF InCopy
    <2>4. InFinish(c)'
      <3>1. pc' \in {"used", "data"}
        BY <2>1
      <3>2. ASSUME NEW i \in 1 .. Len(c), NEW o \in 1 .. B,
                   Base(i) + o \in Done', Base(i) + o <= boff
            PROVE  blocks[c[i]].data[o] = args.byte
        <4>1. PICK x \in Nat : x = Base(i) + o
          <5>1. i \in Nat \ {0}
            BY HeldFacts DEF Held
          <5>2. Base(i) \in Nat
            BY <5>1, BaseFacts
          <5> QED
            BY <5>2, CallTypes
        <4>2. args.off < x /\ x <= boff
          <5>1. Done' = args.off + 1 .. args.off + written'
            BY <1>1 DEF Done
          <5> QED
            BY <3>2, <4>1, <5>1, CallTypes
        <4>3. written > 0
          BY <1>6, <4>2, CallTypes
        <4>4. x \in Done
          BY <1>6, <4>1, <4>2, <4>3, CallTypes DEF Done
        <4> QED
          BY <1>1, <4>1, <4>4 DEF Held, InFinish
      <3> QED
        BY <1>1, <3>1, <3>2 DEF InFinish
    <2> QED
      BY <1>4, <1>5, <1>7, <2>3, <2>4 DEF Held
  <1> QED
    BY <1>8, <1>9

\* The block of the copy is on the chain, and once.
LEMMA CopyFacts ==
    ASSUME IInv, NEW c, Held(c), NEW j \in 1 .. Len(c), at = c[j]
    PROVE  /\ at \in 1 .. Len(blocks) /\ blocks[at] \in Blocks /\ blocks[at].used \in Nat
           /\ \A i \in 1 .. Len(c) : c[i] \in 1 .. Len(blocks) /\ (c[i] = at <=> i = j)
  <1>1. IsChain(blocks, Root, c) /\ \A i \in 1 .. Len(c) : Whole(c[i]) /\ blocks[c[i]] \in Blocks
    BY HeldFacts DEF Held
  <1>2. Len(c) \in Nat /\ \A i \in 1 .. Len(c) : c[i] \in 1 .. Len(blocks)
    BY <1>1, HeldFacts DEF Held, Whole
  <1>3. ASSUME NEW i \in 1 .. Len(c), c[i] = at PROVE i = j
    <2>1. (i < j => c[i] < c[j]) /\ (j < i => c[j] < c[i])
      BY <1>1 DEF IsChain
    <2>2. c[i] \in Nat /\ c[j] \in Nat /\ c[i] = c[j]
      BY <1>2, <1>3
    <2> QED
      BY <1>2, <2>1, <2>2
  <1>4. \A b \in Blocks : b.used \in Nat
    BY DEF Blocks
  <1> QED
    BY <1>1, <1>2, <1>3, <1>4

LEMMA UsedBytesHeld ==
    ASSUME IInv, IInv', NEW c, Held(c), UsedBytes
    PROVE  Held(c)'
  <1>1. /\ pc = "used" /\ pc' = "data" /\ blocks' = [blocks EXCEPT ![at] = Described]
        /\ desc' = desc /\ fd' = fd /\ args' = args /\ at' = at /\ mem' = mem /\ boff' = boff
        /\ written' = written /\ content' = content
    BY DEF UsedBytes, callVars, ghosts
  <1>2. PICK j \in 1 .. Len(c) :
        /\ at = c[j] /\ boff = Base(j) /\ mem.next = blocks[at].next
        /\ blocks[at].used <= mem.used /\ mem.used <= B
        /\ \A o \in 1 .. B : mem.data[o] =
               IF boff + o \in Done THEN args.byte ELSE blocks[at].data[o]
        /\ args.off + written <= boff + mem.used
        /\ written < args.len => args.off + written = boff + B
    BY <1>1 DEF Held, InCopy, AtNode
  <1>3. /\ at \in 1 .. Len(blocks) /\ blocks[at] \in Blocks /\ blocks[at].used \in Nat
        /\ \A i \in 1 .. Len(c) : c[i] \in 1 .. Len(blocks) /\ (c[i] = at <=> i = j)
    BY <1>2, CopyFacts
  <1>4. /\ blocks \in Seq(Blocks) /\ blocks' \in Seq(Blocks)
        /\ Len(blocks) \in Nat /\ Len(blocks') = Len(blocks) /\ blocks'[at] = Described
        /\ \A k \in 1 .. Len(blocks) : k # at => blocks'[k] = blocks[k]
    BY <1>1, <1>3 DEF IInv, Types
  <1>5. /\ blocks'[at].next = mem.next /\ blocks'[at].used = mem.used
        /\ blocks'[at].data = blocks[at].data
    BY <1>4, CallTypes DEF Described, Blocks
  <1>6. Root' = Root /\ But' = But
    BY <1>1 DEF Root, But, Places
  <1>7. \A i \in 1 .. Len(c) : blocks'[c[i]].data = blocks[c[i]].data
    BY <1>3, <1>4, <1>5
  <1>8. OnDisk(c)'
    <2>1. ASSUME NEW i \in 1 .. Len(c)
          PROVE  /\ blocks'[c[i]].next = blocks[c[i]].next
                 /\ blocks[c[i]].used <= blocks'[c[i]].used /\ blocks'[c[i]].used <= B
      <3>1. CASE i = j
        BY <1>2, <1>5, <3>1
      <3>2. CASE i # j
        <4>1. blocks'[c[i]] = blocks[c[i]]
          BY <1>3, <1>4, <3>2
        <4>2. blocks[c[i]].used \in 0 .. B
          BY HeldFacts DEF Held
        <4> QED
          BY <4>1, <4>2, CallTypes
      <3> QED
        BY <3>1, <3>2
    <2>2. Rewritten(blocks, blocks', c, But)
      BY <1>7, <2>1 DEF Rewritten
    <2>3. Len(blocks) <= Len(blocks')
      BY <1>4
    <2> QED
      BY <1>1, <1>6, <2>2, <2>3, BlocksHeld DEF Held
  <1>9. InCall(c)'
    BY <1>1 DEF Held, InCall
  <1>10. Done' = Done
    BY <1>1 DEF Done
  <1>11. InCopy(c)'
    <2>1. AtNode(c, j)' /\ mem'.next = blocks'[at'].next
      BY <1>1, <1>2, <1>5 DEF AtNode
    <2>2. blocks'[at'].used <= mem'.used /\ mem'.used <= B /\ blocks'[at'].used = mem'.used
      BY <1>1, <1>2, <1>5, CallTypes
    <2>3. \A o \in 1 .. B : mem'.data[o] =
              IF boff' + o \in Done' THEN args'.byte ELSE blocks'[at'].data[o]
      BY <1>1, <1>2, <1>5, <1>10
    <2> QED
      BY <1>1, <1>2, <2>1, <2>2, <2>3 DEF InCopy
  <1>12. InFinish(c)'
    BY <1>1, <1>7, <1>10 DEF Held, InFinish
  <1>13. InWalk(c)' /\ InFill(c)' /\ InCreate(c)' /\ InDescribe(c)'
    BY <1>1 DEF InWalk, InFill, InCreate, InDescribe
  <1> QED
    BY <1>8, <1>9, <1>11, <1>12, <1>13 DEF Held

LEMMA DataHeld ==
    ASSUME IInv, IInv', NEW c, Held(c), Data
    PROVE  Held(c)'
  <1>1. /\ pc = "data" /\ blocks' = [blocks EXCEPT ![at].data = mem.data]
        /\ desc' = desc /\ fd' = fd /\ args' = args /\ written' = written /\ content' = content
    BY DEF Data, ghosts
  <1>2. PICK j \in 1 .. Len(c) :
        /\ at = c[j] /\ boff = Base(j) /\ mem.next = blocks[at].next
        /\ blocks[at].used = mem.used /\ mem.used <= B
        /\ \A o \in 1 .. B : mem.data[o] =
               IF boff + o \in Done THEN args.byte ELSE blocks[at].data[o]
        /\ args.off + written <= boff + mem.used
        /\ written < args.len => args.off + written = boff + B
    BY <1>1 DEF Held, InCopy, AtNode
  <1>3. /\ at \in 1 .. Len(blocks) /\ blocks[at] \in Blocks /\ blocks[at].used \in Nat
        /\ \A i \in 1 .. Len(c) : c[i] \in 1 .. Len(blocks) /\ (c[i] = at <=> i = j)
    BY <1>2, CopyFacts
  <1>4. /\ blocks \in Seq(Blocks) /\ blocks' \in Seq(Blocks)
        /\ Len(blocks) \in Nat /\ Len(blocks') = Len(blocks)
        /\ blocks'[at] = [blocks[at] EXCEPT !.data = mem.data]
        /\ \A k \in 1 .. Len(blocks) : k # at => blocks'[k] = blocks[k]
    <2>1. blocks \in Seq(Blocks) /\ blocks' \in Seq(Blocks)
      BY DEF IInv, Types
    <2>2. blocks' = [blocks EXCEPT ![at] = [blocks[at] EXCEPT !.data = mem.data]]
      BY <1>1
    <2>3. PICK y : y = [blocks[at] EXCEPT !.data = mem.data]
      OBVIOUS
    <2> QED
      BY <1>3, <2>1, <2>2, <2>3
  <1>5. blocks'[at] = mem
    <2>1. mem \in Blocks /\ blocks[at] \in Blocks
      BY <1>3, CallTypes
    <2>2. mem = [next |-> mem.next, used |-> mem.used, data |-> mem.data]
      BY <2>1 DEF Blocks
    <2>3. blocks'[at] = [next |-> blocks[at].next, used |-> blocks[at].used, data |-> mem.data]
      BY <1>4, <2>1 DEF Blocks
    <2> QED
      BY <1>2, <2>2, <2>3
  <1>6. \A i \in 1 .. Len(c) : i # j => blocks'[c[i]] = blocks[c[i]]
    BY <1>3, <1>4
  <1>7. pc' \in {"finish", "create", "fill"} /\ written <= args.len
    BY DEF Data, IInv, CallInv
  <1>8. Root' = Root /\ But' = But
    BY <1>1, <1>7 DEF Root, But, Places
  <1>9. Done' = Done /\ \A x : x \in Done => x \in But
    BY <1>1, <1>7, CallTypes DEF Done, But, Places
  <1>10. OnDisk(c)'
    <2>1. ASSUME NEW i \in 1 .. Len(c)
          PROVE  /\ blocks'[c[i]].next = blocks[c[i]].next
                 /\ blocks[c[i]].used <= blocks'[c[i]].used /\ blocks'[c[i]].used <= B
                 /\ \A o \in 1 .. B : Base(i) + o \notin But =>
                        blocks'[c[i]].data[o] = blocks[c[i]].data[o]
      <3>1. CASE i = j
        <4>1. blocks'[c[i]] = mem /\ blocks[c[i]] = blocks[at] /\ Base(i) = boff
          BY <1>2, <1>5, <3>1
        <4> QED
          BY <1>2, <1>9, <4>1, CallTypes
      <3>2. CASE i # j
        <4>1. blocks'[c[i]] = blocks[c[i]]
          BY <1>6, <3>2
        <4>2. blocks[c[i]].used \in 0 .. B
          BY HeldFacts DEF Held
        <4> QED
          BY <4>1, <4>2, CallTypes
      <3> QED
        BY <3>1, <3>2
    <2>2. Rewritten(blocks, blocks', c, But)
      BY <2>1 DEF Rewritten
    <2>3. Len(blocks) <= Len(blocks')
      BY <1>4
    <2> QED
      BY <1>1, <1>8, <2>2, <2>3, BlocksHeld DEF Held
  <1>11. InCall(c)'
    BY <1>1, <1>7 DEF Held, InCall
  <1>12. ASSUME NEW i \in 1 .. Len(c), NEW o \in 1 .. B, Base(i) + o \in Done
         PROVE  blocks'[c[i]].data[o] = args.byte
    <2>1. CASE i = j
      BY <1>2, <1>5, <1>12, <2>1
    <2>2. CASE i # j
      <3>1. i \in Nat \ {0} /\ j \in Nat \ {0}
        BY HeldFacts DEF Held
      <3>2. Base(i) \in Nat /\ Base(j) \in Nat
        BY <3>1, BaseFacts
      <3>3. PICK x \in Nat : x = Base(i) + o
        BY <3>2, CallTypes
      <3>4. x <= args.off + written
        BY <1>12, <3>3, CallTypes DEF Done
      <3>5. i < j
        <4>1. j < i => Base(j) + B <= Base(i)
          BY <3>1, BaseFacts
        <4>2. x <= boff + mem.used /\ x <= Base(j) + B
          <5>1. /\ args.off + written <= boff + mem.used /\ mem.used <= B /\ boff = Base(j)
                /\ x <= args.off + written
            BY <1>2, <3>4
          <5>2. /\ args.off \in Nat /\ written \in Nat /\ boff \in Nat /\ mem.used \in Nat
                /\ B \in Nat
            BY CallTypes
          <5> QED
            BY <5>1, <5>2
        <4>3. 1 <= o /\ B \in Nat
          BY CallTypes
        <4>4. ~(j < i)
          BY <3>2, <3>3, <4>1, <4>2, <4>3
        <4> QED
          BY <2>2, <3>1, <4>4
      <3>6. Base(i) + B <= Base(j)
        BY <3>1, <3>5, BaseFacts
      <3>7. Base(i) + o <= boff
        BY <1>2, <3>2, <3>6, CallTypes
      <3>8. blocks[c[i]].data[o] = args.byte
        BY <1>1, <1>12, <3>7 DEF Held, InFinish
      <3> QED
        BY <1>6, <2>2, <3>8
    <2> QED
      BY <2>1, <2>2
  <1>13. InWalk(c)' /\ InCopy(c)' /\ InDescribe(c)'
    BY <1>7 DEF InWalk, InCopy, InDescribe
  <1>14. CASE written = args.len
    <2>1. pc' = "finish"
      BY <1>14 DEF Data
    <2>2. PICK bt \in Seq(Blocks) : bt = blocks'
      BY <1>4
    <2>3. PICK s : s = Root'
      OBVIOUS
    <2>4. IsChain(bt, s, c) /\ Full(bt, c)
      BY <1>10, <2>2, <2>3 DEF OnDisk, File
    <2>5. args.off + args.len \in Nat /\ args.off + args.len <= Base(j) + bt[c[j]].used
      <3>1. bt[c[j]] = mem
        BY <1>2, <1>5, <2>2
      <3>2. args.off \in Nat /\ args.len \in Nat
        BY CallTypes
      <3>3. args.off + args.len <= boff + mem.used /\ boff = Base(j)
        BY <1>2, <1>14
      <3> QED
        BY <3>1, <3>2, <3>3
    <2>6. Covered(bt, c, args.off + args.len)
      BY <2>4, <2>5, CoveredAt
    <2>7. InFinish(c)'
      BY <1>1, <1>9, <1>12, <1>14, <2>1, <2>2, <2>6 DEF InFinish
    <2>8. InFill(c)' /\ InCreate(c)'
      BY <2>1 DEF InFill, InCreate
    <2> QED
      BY <1>10, <1>11, <1>13, <2>7, <2>8 DEF Held
  <1>15. CASE written # args.len
    <2>1. /\ boff' = boff + B
          /\ IF mem.next = 0 THEN pc' = "create" /\ at' = at /\ mem' = mem
                             ELSE at' = mem.next /\ mem' = blocks[mem.next] /\ pc' = "fill"
      BY <1>15 DEF Data, Load
    <2>2. args.off + written = boff' /\ mem.used = B
      BY <1>2, <1>7, <1>15, <2>1, CallTypes
    <2>3. InFinish(c)'
      BY <1>1, <1>9, <1>12, <2>1 DEF InFinish
    <2>4. CASE mem.next = 0
      <3>1. j = Len(c)
        BY <1>2, <2>4, NextBlock DEF Held
      <3>2. /\ pc' = "create" /\ at' = c[Len(c)] /\ mem' = blocks'[at'] /\ blocks'[at'].used = B
            /\ boff' = Base(Len(c)) + B
        BY <1>2, <1>5, <2>1, <2>2, <2>4, <3>1
      <3>3. InCreate(c)'
        BY <1>1, <2>2, <3>2 DEF InCreate
      <3>4. InFill(c)'
        BY <3>2 DEF InFill
      <3> QED
        BY <1>10, <1>11, <1>13, <2>3, <3>3, <3>4 DEF Held
    <2>5. CASE mem.next # 0
      <3>1. j + 1 \in 1 .. Len(c) /\ mem.next = c[j + 1] /\ Base(j + 1) = Base(j) + B
        BY <1>2, <2>5, NextBlock DEF Held
      <3>2. j + 1 # j /\ blocks'[c[j + 1]] = blocks[c[j + 1]]
        <4>1. j + 1 # j
          OBVIOUS
        <4> QED
          BY <1>6, <3>1, <4>1
      <3>3. /\ pc' = "fill" /\ at' = c[j + 1] /\ mem' = blocks'[at'] /\ boff' = Base(j + 1)
        BY <1>2, <2>1, <2>5, <3>1, <3>2
      <3>4. mem'.used \in Nat /\ boff' \in Nat
        <4>1. mem' = blocks[c[j + 1]]
          BY <3>2, <3>3
        <4>2. blocks[c[j + 1]].used \in 0 .. B
          BY <3>1, HeldFacts DEF Held
        <4>3. boff \in Nat /\ B \in Nat
          BY CallTypes
        <4> QED
          BY <2>1, <4>1, <4>2, <4>3
      <3>5. /\ boff' <= args'.off + written' /\ args'.off + written' <= boff' + mem'.used
            /\ args'.off + written' < boff' + B /\ (written' > 0 => args'.off + written' = boff')
        BY <1>1, <2>2, <3>4, CallTypes
      <3>6. InFill(c)'
        BY <3>1, <3>3, <3>5 DEF InFill, AtNode
      <3>7. InCreate(c)'
        BY <3>3 DEF InCreate
      <3> QED
        BY <1>10, <1>11, <1>13, <2>3, <3>6, <3>7 DEF Held
    <2> QED
      BY <2>4, <2>5
  <1> QED
    BY <1>14, <1>15

----------------------------------------------------------------------------
(* The end of a call                                                       *)

\* A call is over: nothing more is asked than that the disk is right.
LEMMA IdleHeld ==
    ASSUME NEW c, OnDisk(c)', pc' = "idle"
    PROVE  Held(c)'
  <1>1. InCall(c)'
    BY DEF InCall
  <1>2. /\ InWalk(c)' /\ InFill(c)' /\ InCopy(c)' /\ InCreate(c)' /\ InDescribe(c)'
        /\ InFinish(c)'
    BY NothingLoaded
  <1> QED
    BY <1>1, <1>2 DEF Held

LEMMA FinishHeld ==
    ASSUME IInv, IInv', NEW c, Held(c), Finish
    PROVE  \E e : Held(e)'
  <1>1. /\ pc = "finish" /\ pc' = "idle" /\ blocks' = blocks
        /\ fd' = [fd EXCEPT !.size = NewSize]
        /\ desc' = IF NewSize # fd.size THEN fd' ELSE desc
        /\ content' = Written
    BY DEF Finish
  <1>2. PICK N \in Nat : N = NewSize
    BY CallTypes DEF NewSize
  <1>3. /\ args.off \in Nat /\ args.len \in Nat /\ args.byte \in Nat /\ fd.size \in Nat
        /\ B \in Nat /\ written = args.len /\ args.off <= fd.size /\ fd.size = desc.size
        /\ Covered(blocks, c, args.off + args.len)
    BY <1>1, CallTypes DEF Held, InFinish, InCall
  <1>4. /\ N \in {args.off + args.len, fd.size}
        /\ N > fd.size => N = args.off + args.len
    BY <1>2, <1>3 DEF NewSize
  <1>5. fd'.first = fd.first /\ fd'.last = fd.last /\ fd'.size = N
    BY <1>1, <1>2 DEF IInv, Types, Descriptors
  <1>6. desc'.size = N /\ desc'.first \in {fd.first, desc.first}
    BY <1>1, <1>2, <1>3, <1>5
  <1>7. Root = fd.first /\ Root # 0 /\ Root' = desc'.first /\ But' = {} /\ But = Places
    BY <1>1 DEF Root, But, IInv, CallInv
  <1>8. content \in Seq(Nat) /\ Len(content) = fd.size
    BY <1>3 DEF Held, OnDisk
  <1>9. /\ content' \in Seq(Nat) /\ Len(content') = N
        /\ \A x \in 1 .. N : content'[x] = IF x \in Places THEN args.byte
                                           ELSE IF x \in 1 .. fd.size THEN content[x] ELSE 0
    <2>1. PICK t : t = [x \in 1 .. N |-> IF x \in Places THEN args.byte
                                        ELSE IF x \in 1 .. fd.size THEN content[x] ELSE 0]
      OBVIOUS
    <2>2. DOMAIN content = 1 .. fd.size
      BY <1>8
    <2>3. content' = t
      BY <1>1, <1>2, <2>1, <2>2 DEF Written, Places
    <2>4. \A x \in 1 .. N : t[x] = IF x \in Places THEN args.byte
                                   ELSE IF x \in 1 .. fd.size THEN content[x] ELSE 0
      BY <2>1
    <2>5. \A x \in 1 .. fd.size : content[x] \in Nat
      BY <1>8
    <2>6. \A x \in 1 .. N : t[x] \in Nat
      BY <1>3, <2>4, <2>5
    <2>7. t \in [1 .. N -> Nat]
      BY <2>1, <2>6
    <2>8. t \in Seq(Nat) /\ Len(t) = N
      BY <2>7
    <2> QED
      BY <2>3, <2>4, <2>8
  <1>10. CASE desc'.first = fd.first
    <2>1. IsChain(blocks, fd.first, c) /\ Full(blocks, c) /\ Covered(blocks, c, fd.size)
      BY <1>3, <1>7, HeldFacts DEF Held
    <2>2. Covered(blocks, c, N)
      BY <1>3, <1>4, <2>1
    <2>3. Bytes(blocks, c, N, content', {})
      <3> SUFFICES ASSUME NEW j \in 1 .. Len(c), NEW o \in 1 .. B, Base(j) + o <= N
                   PROVE  blocks[c[j]].data[o] = content'[Base(j) + o]
        BY DEF Bytes
      <3>1. j \in Nat \ {0}
        BY HeldFacts DEF Held
      <3>2. Base(j) \in Nat
        BY <3>1, BaseFacts
      <3>3. PICK x \in 1 .. N : x = Base(j) + o
        BY <1>3, <3>2
      <3>4. CASE x \in Places
        <4>1. Base(j) + o \in Done
          BY <1>3, <3>3, <3>4 DEF Places, Done
        <4>2. blocks[c[j]].data[o] = args.byte
          BY <1>1, <4>1 DEF Held, InFinish
        <4> QED
          BY <1>9, <3>3, <3>4, <4>2
      <3>5. CASE x \notin Places
        <4>1. x <= fd.size
          <5> SUFFICES ASSUME x > fd.size PROVE FALSE
            BY <1>3
          <5>1. N = args.off + args.len
            BY <1>3, <1>4
          <5>2. args.off < x /\ x <= args.off + args.len
            BY <1>3, <5>1
          <5> QED
            BY <1>3, <3>5, <5>2 DEF Places
        <4>2. Bytes(blocks, c, fd.size, content, Places)
          BY <1>3, <1>7 DEF Held, OnDisk, File
        <4>3. blocks[c[j]].data[o] = content[x]
          BY <3>3, <3>5, <4>1, <4>2 DEF Bytes
        <4>4. content'[x] = content[x]
          BY <1>3, <1>9, <3>5, <4>1
        <4> QED
          BY <3>3, <4>3, <4>4
      <3> QED
        BY <3>4, <3>5
    <2>4. File(blocks', Root', c, desc'.size, content', But')
      BY <1>1, <1>6, <1>7, <1>10, <2>1, <2>2, <2>3 DEF File
    <2>5. desc'.last # 0 => \E i \in 1 .. Len(c) : desc'.last = c[i]
      <3>1. desc'.last \in {fd.last, desc.last}
        BY <1>1, <1>5
      <3>2. \E i \in 1 .. Len(c) : fd.last = c[i]
        BY <1>1 DEF Held, InCall
      <3> QED
        BY <3>1, <3>2 DEF Held, OnDisk
    <2>6. OnDisk(c)'
      BY <1>6, <1>7, <1>9, <1>10, <2>4, <2>5 DEF OnDisk
    <2> QED
      BY <1>1, <2>6, IdleHeld
  <1>11. CASE desc'.first # fd.first
    <2>1. desc' = desc /\ desc.first # fd.first /\ N = fd.size
      BY <1>1, <1>2, <1>5, <1>11
    <2>2. desc.first = 0 /\ N = 0 /\ desc.last = 0
      BY <1>3, <1>7, <2>1 DEF Held, OnDisk, IInv, DiskInv, Sound
    <2>3. PICK e : e = <<>>
      OBVIOUS
    <2>4. PICK text, but : text = content' /\ but = But'
      OBVIOUS
    <2>5. File(blocks, 0, e, 0, text, but)
      BY <2>3, OnwardBlocks, FileEmpty
    <2>6. OnDisk(e)'
      BY <1>1, <1>6, <1>7, <1>9, <2>1, <2>2, <2>4, <2>5 DEF OnDisk
    <2> QED
      BY <1>1, <2>6, IdleHeld
  <1> QED
    BY <1>10, <1>11

\* The file from the first block of the descriptor on disk.
LEMMA DiskFile ==
    ASSUME IInv, NEW c, OnDisk(c)
    PROVE  \E e : /\ File(blocks, desc.first, e, desc.size, content, But)
                  /\ desc.last # 0 => \E i \in 1 .. Len(e) : desc.last = e[i]
  <1>1. CASE desc.first = Root
    BY <1>1 DEF OnDisk
  <1>2. CASE desc.first # Root
    <2>1. desc.first = 0 /\ desc.size = 0 /\ desc.last = 0
      BY <1>2 DEF OnDisk, IInv, DiskInv, Sound
    <2>2. PICK e, text, but : e = <<>> /\ text = content /\ but = But
      OBVIOUS
    <2>3. File(blocks, 0, e, 0, text, but)
      BY <2>2, OnwardBlocks, FileEmpty
    <2> QED
      BY <2>1, <2>2, <2>3
  <1> QED
    BY <1>1, <1>2

\* What is read of it.
LEMMA DiskRead ==
    ASSUME IInv, NEW e, NEW text, NEW but, File(blocks, desc.first, e, desc.size, text, but)
    PROVE  /\ Chain(desc) = e
           /\ Read(desc) \in Seq(Nat) /\ Len(Read(desc)) = desc.size
           /\ \A j \in 1 .. Len(e), o \in 1 .. B :
                 Base(j) + o <= desc.size => Read(desc)[Base(j) + o] = blocks[e[j]].data[o]
  <1>1. PICK d \in Descriptors : d = desc
    BY DEF IInv, Types
  <1>2. blocks \in Seq(Blocks) /\ Len(blocks) \in Nat /\ Onward(blocks)
    BY OnwardBlocks
  <1>3. IsChain(blocks, d.first, e) /\ Full(blocks, e) /\ Covered(blocks, e, d.size)
    BY <1>1 DEF File
  <1>4. d.first # 0 => Whole(d.first)
    BY <1>1 DEF IInv, DiskInv, Sound
  <1>5. d.first \in 0 .. Len(blocks)
    BY <1>2, <1>4 DEF Whole
  <1>6. \A j \in 1 .. Len(e) : Len(blocks[e[j]].data) = B
    <2>1. PICK s : s = d.first
      OBVIOUS
    <2>2. \A j \in 1 .. Len(e) : Whole(e[j])
      BY <1>3, <1>4, <2>1, ChainWhole
    <2> QED
      BY <2>2 DEF Whole
  <1>7. /\ Chain(d) = e
        /\ Read(d) \in Seq(Nat) /\ Len(Read(d)) = d.size
        /\ \A j \in 1 .. Len(e), o \in 1 .. B :
              Base(j) + o <= d.size => Read(d)[Base(j) + o] = blocks[e[j]].data[o]
    BY <1>2, <1>3, <1>5, <1>6, ReadIs
  <1> QED
    BY <1>1, <1>7

\* What a crash leaves is a file.
LEMMA CrashHeld ==
    ASSUME IInv, NEW c, Held(c), Crash
    PROVE  \E e : Held(e)'
  <1>1. /\ pc' = "idle" /\ blocks' = blocks /\ desc' = desc /\ content' = Read(desc)
    BY DEF Crash, diskVars
  <1>2. PICK e : /\ File(blocks, desc.first, e, desc.size, content, But)
                 /\ desc.last # 0 => \E i \in 1 .. Len(e) : desc.last = e[i]
    BY DiskFile DEF Held
  <1>3. PICK text, but : text = content /\ but = But
    OBVIOUS
  <1>4. /\ Read(desc) \in Seq(Nat) /\ Len(Read(desc)) = desc.size
        /\ \A j \in 1 .. Len(e), o \in 1 .. B :
              Base(j) + o <= desc.size => Read(desc)[Base(j) + o] = blocks[e[j]].data[o]
    BY <1>2, <1>3, DiskRead
  <1>5. Root' = desc.first /\ But' = {}
    BY <1>1 DEF Root, But
  <1>6. File(blocks, desc.first, e, desc.size, Read(desc), {})
    <2>1. Bytes(blocks, e, desc.size, Read(desc), {})
      BY <1>4 DEF Bytes
    <2> QED
      BY <1>2, <2>1 DEF File
  <1>7. desc.first = 0 => desc.size = 0
    BY DEF Held, OnDisk
  <1>8. OnDisk(e)'
    BY <1>1, <1>2, <1>4, <1>5, <1>6, <1>7 DEF OnDisk
  <1> QED
    BY <1>1, <1>8, IdleHeld

LEMMA ReloadHeld ==
    ASSUME IInv, NEW c, Held(c), Reload
    PROVE  Held(c)'
  <1>1. /\ pc = "idle" /\ pc' = "idle" /\ blocks' = blocks /\ desc' = desc /\ content' = content
    BY DEF Reload, diskVars, ghosts
  <1>2. Root' = Root /\ But' = But
    BY <1>1 DEF Root, But
  <1>3. OnDisk(c)'
    BY <1>1, <1>2, DiskHeld DEF Held
  <1> QED
    BY <1>1, <1>3, IdleHeld

LEMMA StutterHeld ==
    ASSUME NEW c, Held(c), UNCHANGED vars
    PROVE  Held(c)'
  <1>1. /\ pc' = pc /\ blocks' = blocks /\ desc' = desc /\ content' = content /\ fd' = fd
        /\ args' = args /\ at' = at /\ mem' = mem /\ boff' = boff /\ written' = written
    BY DEF vars, diskVars, callVars, ghosts
  <1>2. Root' = Root /\ But' = But /\ Done' = Done
    BY <1>1 DEF Root, But, Places, Done
  <1>3. OnDisk(c)'
    BY <1>1, <1>2 DEF Held, OnDisk
  <1>4. InCall(c)'
    BY <1>1 DEF Held, InCall, IsNew
  <1>5. InWalk(c)' /\ InFill(c)' /\ InCopy(c)' /\ InCreate(c)'
    BY <1>1, <1>2 DEF Held, InWalk, InFill, InCopy, InCreate, IsNew, AtNode
  <1>6. InDescribe(c)' /\ InFinish(c)'
    BY <1>1, <1>2 DEF Held, InDescribe, InFinish
  <1> QED
    BY <1>3, <1>4, <1>5, <1>6 DEF Held

LEMMA HeldInductive == IInv /\ IInv' /\ HeldInv /\ [Next]_vars => HeldInv'
  <1> SUFFICES ASSUME IInv, IInv', HeldInv, [Next]_vars, Sane'
               PROVE  \E e : Held(e)'
    BY DEF HeldInv
  <1>1. Sane
    <2>1. misled' = misled \/ misled' = (misled \/ Misleading)
      BY DEF Next, Proceed, WriteToFile, Set, Call, FirstBlock, FirstPayload, Find, Walk, Create,
             Payload, Link, Describe, Fill, UsedBytes, Data, Finish, Reload, Crash, ghosts, vars
    <2>2. stale' = stale \/ \E d : stale' = (stale \/ d # desc)
      BY DEF Next, Proceed, WriteToFile, Set, Call, FirstBlock, FirstPayload, Find, Walk, Create,
             Payload, Link, Describe, Fill, UsedBytes, Data, Finish, Reload, Crash, ghosts, vars
    <2>3. ~misled' /\ ~stale'
      BY DEF Sane
    <2>4. ~misled
      <3>1. CASE misled' = misled
        BY <2>3, <3>1
      <3>2. CASE misled' = (misled \/ Misleading)
        BY <2>3, <3>2, Zenon
      <3> QED
        BY <2>1, <3>1, <3>2
    <2>5. ~stale
      <3>1. CASE stale' = stale
        BY <2>3, <3>1
      <3>2. ASSUME NEW d, stale' = (stale \/ d # desc) PROVE ~stale
        BY <2>3, <3>2, Zenon
      <3> QED
        BY <2>2, <3>1, <3>2
    <2> QED
      BY <2>4, <2>5 DEF Sane
  <1>2. PICK c : Held(c)
    BY <1>1 DEF HeldInv
  <1>3. ASSUME NEW off \in 0 .. B * MaxOps, NEW len \in 1 .. MaxLen, WriteToFile(off, len)
        PROVE  Held(c)'
    <2>1. off \in Nat /\ len \in Nat
      BY StoreFileConstants
    <2> QED
      BY <1>2, <1>3, <2>1, WriteToFileHeld
  <1>4. ASSUME NEW len \in 0 .. MaxLen, Set(len)
        PROVE  Held(c)'
    <2>1. len \in Nat
      BY StoreFileConstants
    <2> QED
      BY <1>2, <1>4, <2>1, SetHeld
  <1>5. CASE FirstPayload \/ Link \/ Finish \/ Crash
    BY <1>2, <1>5, FirstPayloadHeld, LinkHeld, FinishHeld, CrashHeld
  <1>6. CASE FirstBlock \/ Find \/ Walk \/ Create \/ Payload
    BY <1>2, <1>6, FirstBlockHeld, FindHeld, WalkHeld, CreateHeld, PayloadHeld
  <1>7. CASE Describe \/ Fill \/ UsedBytes \/ Data \/ Reload
    BY <1>2, <1>7, DescribeHeld, FillHeld, UsedBytesHeld, DataHeld, ReloadHeld
  <1>8. CASE UNCHANGED vars
    BY <1>2, <1>8, StutterHeld
  <1> QED
    BY <1>3, <1>4, <1>5, <1>6, <1>7, <1>8 DEF Next, Proceed

\* As long as nothing misled a call, there is a chain that holds the file at every instant.
THEOREM HeldInvariance == Spec => []HeldInv
  <1>1. Spec => []IInv
    BY Invariance
  <1>2. Init => HeldInv
    BY InitHeld DEF HeldInv
  <1>3. IInv /\ IInv' /\ HeldInv /\ [Next]_vars => HeldInv'
    BY HeldInductive
  <1> QED
    BY <1>1, <1>2, <1>3, PTL DEF Spec

LEMMA WalkableInv == IInv /\ HeldInv => Walkable
  <1> SUFFICES ASSUME IInv, HeldInv, Sane
               PROVE  /\ \A i \in 1 .. Len(Chain(desc)) - 1 : blocks[Chain(desc)[i]].used = B
                      /\ desc.last # 0 => desc.last \in ToSet(Chain(desc))
                      /\ Len(Read(desc)) = desc.size
    BY DEF Walkable
  <1>1. PICK c : OnDisk(c)
    BY DEF HeldInv, Held
  <1>2. PICK e : /\ File(blocks, desc.first, e, desc.size, content, But)
                 /\ desc.last # 0 => \E i \in 1 .. Len(e) : desc.last = e[i]
    BY <1>1, DiskFile
  <1>3. PICK text, but : text = content /\ but = But
    OBVIOUS
  <1>4. Chain(desc) = e /\ Len(Read(desc)) = desc.size
    BY <1>2, <1>3, DiskRead
  <1>5. e \in Seq(1 .. Len(blocks)) /\ Full(blocks, e) /\ Len(e) \in Nat
    BY <1>2 DEF File, IsChain
  <1>6. \A i \in 1 .. Len(e) - 1 : blocks[e[i]].used = B
    BY <1>5 DEF Full
  <1>7. desc.last # 0 => desc.last \in ToSet(e)
    <2>1. DOMAIN e = 1 .. Len(e)
      BY <1>5
    <2> QED
      BY <1>2, <2>1 DEF ToSet
  <1> QED
    BY <1>4, <1>6, <1>7

\* For any block size, any calls and a crash between any two writes, as long as no call used a
\* stale descriptor or took the last block for that of the end: all blocks of the file but the
\* last are full, the descriptor names one of them as the last, and its size can be read
\* (writeToFile; it is what the integrity walk of the tests asks).
THEOREM WalkableTheorem == Spec => []Walkable
  <1>1. Spec => []IInv
    BY Invariance
  <1>2. Spec => []HeldInv
    BY HeldInvariance
  <1>3. IInv /\ HeldInv => Walkable
    BY WalkableInv
  <1> QED
    BY <1>1, <1>2, <1>3, PTL

LEMMA ContentKeptInv == IInv /\ HeldInv => ContentKept
  <1> SUFFICES ASSUME IInv, HeldInv, Sane
               PROVE  /\ desc.size = Len(content)
                      /\ pc = "idle" => Read(desc) = content
                      /\ \A i \in 1 .. Len(content) :
                            i \notin args.off + 1 .. args.off + args.len =>
                                Read(desc)[i] = content[i]
    BY DEF ContentKept
  <1>1. PICK c : OnDisk(c)
    BY DEF HeldInv, Held
  <1>2. content \in Seq(Nat) /\ Len(content) = desc.size /\ desc.size \in Nat
    BY <1>1, HeldFacts DEF OnDisk
  <1>3. PICK e : File(blocks, desc.first, e, desc.size, content, But)
    BY <1>1, DiskFile
  <1>4. PICK text, but : text = content /\ but = But
    OBVIOUS
  <1>5. /\ Read(desc) \in Seq(Nat) /\ Len(Read(desc)) = desc.size
        /\ \A j \in 1 .. Len(e), o \in 1 .. B :
              Base(j) + o <= desc.size => Read(desc)[Base(j) + o] = blocks[e[j]].data[o]
    BY <1>3, <1>4, DiskRead
  <1>6. /\ IsChain(blocks, desc.first, e) /\ Full(blocks, e) /\ Covered(blocks, e, desc.size)
        /\ Bytes(blocks, e, desc.size, content, But)
    BY <1>3 DEF File
  <1>7. ASSUME NEW i \in 1 .. desc.size, i \notin But
        PROVE  Read(desc)[i] = content[i]
    <2>1. PICK m \in Nat : m = Len(e)
      BY <1>6 DEF IsChain
    <2>2. m # 0
      BY <1>2, <1>6, <2>1 DEF Covered, EndOf
    <2>3. m \in 1 .. m /\ Base(m) \in Nat /\ B \in Nat
      BY <2>2, BaseFacts, CallTypes
    <2>4. blocks[e[m]].used \in Nat /\ blocks[e[m]].used <= B
      <3>1. blocks \in Seq(Blocks)
        BY OnwardBlocks
      <3>2. PICK s : s = desc.first
        OBVIOUS
      <3> QED
        BY <1>6, <2>1, <2>3, <3>1, <3>2, ChainFacts DEF Full
    <2>5. desc.size <= Base(m) + blocks[e[m]].used
      BY <1>6, <2>1, <2>2 DEF Covered, EndOf
    <2>6. i <= Base(m) + B
      BY <1>2, <2>3, <2>4, <2>5
    <2>7. PICK j \in 1 .. m, o \in 1 .. B : i = Base(j) + o
      BY <2>2, <2>6, PlaceOf
    <2>8. Read(desc)[i] = blocks[e[j]].data[o]
      BY <1>2, <1>5, <2>1, <2>7
    <2>9. blocks[e[j]].data[o] = content[i]
      BY <1>2, <1>6, <1>7, <2>1, <2>7 DEF Bytes
    <2> QED
      BY <2>8, <2>9
  <1>8. pc = "idle" => Read(desc) = content
    <2> SUFFICES ASSUME pc = "idle" PROVE Read(desc) = content
      OBVIOUS
    <2>1. \A i \in 1 .. desc.size : Read(desc)[i] = content[i]
      BY <1>7 DEF But
    <2> QED
      BY <1>2, <1>5, <2>1, SeqEqual
  <1> QED
    BY <1>2, <1>7, <1>8 DEF But, Places

\* For any block size, any calls and a crash between any two writes, as long as no call used a
\* stale descriptor or took the last block for that of the end: between two calls the file reads
\* as the calls left it, and while a call is under way every byte that it does not write reads as
\* before (writeToFile, readFromFile).
THEOREM ContentKeptTheorem == Spec => []ContentKept
  <1>1. Spec => []IInv
    BY Invariance
  <1>2. Spec => []HeldInv
    BY HeldInvariance
  <1>3. IInv /\ HeldInv => ContentKept
    BY ContentKeptInv
  <1> QED
    BY <1>1, <1>2, <1>3, PTL
=============================================================================
