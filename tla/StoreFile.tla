----------------------------- MODULE StoreFile -----------------------------
(***************************************************************************)
(* One file of an IndexedDataStore (IndexedDataStore.cpp): a descriptor    *)
(* that names the first and the last block of a chain and the size, and    *)
(* blocks that are only ever appended to the store.  The program writes    *)
(* through a descriptor it loaded some time ago, or sets the whole value   *)
(* through one loaded for the purpose.                                     *)
(*                                                                         *)
(* Every write of the store to its underlying file is one action, between  *)
(* any two of which the process may die.  A block stands for its offset,   *)
(* and only the blocks of this file are counted.                           *)
(***************************************************************************)
EXTENDS Integers, Sequences, SequencesExt

CONSTANTS
    B,        \* block_size of the file
    MaxLen,   \* the longest value written at once
    MaxOps    \* bound: calls and crashes

ASSUME StoreFileConstants ==
    /\ B \in Nat \ {0}
    /\ MaxLen \in Nat
    /\ MaxOps \in Nat

VARIABLES
    desc,     \* on disk: the FILE_DESCRIPTOR
    blocks,   \* on disk: the blocks, in the order they were appended
    kept,     \* the descriptor the program holds on to
    pc,       \* where the call under way is
    fd,       \* its descriptor
    at, mem,  \* the block it has loaded, and the copy
    args,     \* [set, off, len, byte]: which call, and what it writes
    boff, written, \* block_offset, bytes written so far
    content,  \* ghost: what the file should hold
    misled,   \* ghost: a call took the last block for the block of the end
    stale,    \* ghost: a call used a descriptor that was not that on disk
    ops

diskVars == <<desc, blocks>>
callVars == <<fd, at, mem, args, boff, written>>
ghosts   == <<content, misled, stale, ops>>
vars == <<diskVars, kept, pc, callVars, ghosts>>

Zeros == [i \in 1 .. B |-> 0]

\* A block descriptor just appended; its payload is a write of its own.
Fresh == [next |-> 0, used |-> 0, data |-> <<>>]
NoCall == [set |-> FALSE, off |-> 0, len |-> 0, byte |-> 0]

Descriptors == [first : Nat, last : Nat, size : Nat]
Blocks == [next : Nat, used : Nat, data : Seq(Nat)]
PC == {"idle", "first", "firstpay", "find", "walk", "create", "pay", "link", "describe",
       "fill", "used", "data", "finish"}

TypeOK ==
    /\ desc \in Descriptors /\ kept \in Descriptors /\ fd \in Descriptors
    /\ blocks \in Seq(Blocks) /\ mem \in Blocks /\ at \in Nat
    /\ pc \in PC
    /\ args \in [set : BOOLEAN, off : Nat, len : Nat, byte : Nat]
    /\ boff \in Nat /\ written \in Nat
    /\ content \in Seq(Nat)
    /\ misled \in BOOLEAN /\ stale \in BOOLEAN
    /\ ops \in Nat

\* createFile has made the file.
Init ==
    /\ desc = [first |-> 0, last |-> 0, size |-> 0]
    /\ blocks = <<>>
    /\ kept = desc
    /\ pc = "idle"
    /\ fd = desc /\ at = 0 /\ mem = Fresh /\ args = NoCall /\ boff = 0 /\ written = 0
    /\ content = <<>> /\ misled = FALSE /\ stale = FALSE /\ ops = 0

----------------------------------------------------------------------------
(* What can be read                                                        *)

\* The steps of a chain from a block, 0 behind its end.
Steps(bs, s) ==
    LET way[i \in 1 .. Len(bs)] ==
            IF i = 1 THEN s ELSE IF way[i - 1] = 0 THEN 0 ELSE bs[way[i - 1]].next
    IN way

\* The blocks of a chain in order.
Chain(d) ==
    LET way == Steps(blocks, d.first)
        len == CHOOSE n \in 0 .. Len(blocks) :
                   \A i \in 1 .. Len(blocks) : way[i] # 0 <=> i <= n
    IN [i \in 1 .. len |-> way[i]]

\* readFromFile of the whole file.
Read(d) ==
    LET chain == Chain(d)
        bytes == FlattenSeq([i \in 1 .. Len(chain) |->
                     SubSeq(blocks[chain[i]].data, 1, blocks[chain[i]].used)])
    IN SubSeq(bytes, 1, IF d.size < Len(bytes) THEN d.size ELSE Len(bytes))

----------------------------------------------------------------------------
(* writeToFile                                                             *)

Load(n) == at' = n /\ mem' = blocks[n]

Call(d, a) ==
    /\ pc = "idle" /\ ops < MaxOps
    /\ ops' = ops + 1
    /\ fd' = d /\ args' = a
    /\ boff' = 0 /\ written' = 0
    /\ pc' = IF d.first = 0 THEN "first" ELSE "find"
    /\ stale' = (stale \/ d # desc)
    /\ UNCHANGED <<diskVars, kept, at, mem, content, misled>>

\* Every call brings bytes of its own.  An offset behind the end is refused.
WriteToFile(off, len) ==
    /\ off <= kept.size
    /\ Call(kept, [set |-> FALSE, off |-> off, len |-> len, byte |-> ops + 1])

Set(len) == Call(desc, [set |-> TRUE, off |-> 0, len |-> len, byte |-> ops + 1])

\* The first block ...
FirstBlock ==
    /\ pc = "first"
    /\ blocks' = Append(blocks, Fresh)
    /\ pc' = "firstpay"
    /\ UNCHANGED <<desc, kept, callVars, ghosts>>

\* ... which only the loaded descriptor names until that is written.
FirstPayload ==
    /\ pc = "firstpay"
    /\ blocks' = [blocks EXCEPT ![Len(blocks)].data = Zeros]
    /\ fd' = [fd EXCEPT !.first = Len(blocks), !.last = Len(blocks)]
    /\ pc' = "find"
    /\ UNCHANGED <<desc, kept, at, mem, args, boff, written, ghosts>>

\* The last block is not where the file ends: blocks follow it, or it lies behind the end.
Misleading == LET chain == Chain(fd) IN
    fd.last # Last(chain) \/ B * (Len(chain) - 1) >= (IF args.off = 0 THEN B ELSE args.off)

\* An append of whole blocks goes on from the last block; all else walks from the first.
Find ==
    /\ pc = "find"
    /\ IF args.off = fd.size /\ fd.size % B = 0
       THEN /\ Load(fd.last)
            /\ boff' = args.off
            /\ pc' = IF args.off = 0 THEN "fill" ELSE "create"
            /\ misled' = (misled \/ Misleading)
       ELSE Load(fd.first) /\ pc' = "walk" /\ UNCHANGED <<boff, misled>>
    /\ UNCHANGED <<diskVars, kept, fd, args, written, content, stale, ops>>

\* Mutant: a walk that stops a block late.
WalkFar ==
    /\ pc = "walk"
    /\ IF mem.used = B /\ mem.used + boff <= args.off + 1
       THEN /\ boff' = boff + B
            /\ IF mem.next = 0 THEN pc' = "create" /\ UNCHANGED <<at, mem>>
                               ELSE Load(mem.next) /\ UNCHANGED pc
       ELSE pc' = "fill" /\ UNCHANGED <<at, mem, boff>>
    /\ UNCHANGED <<diskVars, kept, fd, args, written, ghosts>>

Walk ==
    /\ pc = "walk"
    /\ IF mem.used = B /\ mem.used + boff <= args.off
       THEN /\ boff' = boff + B
            /\ IF mem.next = 0 THEN pc' = "create" /\ UNCHANGED <<at, mem>>
                               ELSE Load(mem.next) /\ UNCHANGED pc
       ELSE pc' = "fill" /\ UNCHANGED <<at, mem, boff>>
    /\ UNCHANGED <<diskVars, kept, fd, args, written, ghosts>>

\* Mutant: the link is set before the payload is there.
CreateLinked ==
    /\ pc = "create"
    /\ blocks' = Append([blocks EXCEPT ![at].next = Len(blocks) + 1], Fresh)
    /\ pc' = "pay"
    /\ UNCHANGED <<desc, kept, callVars, ghosts>>

\* createDataBlock: the block, its payload, the link from the block before, the descriptor.
Create ==
    /\ pc = "create"
    /\ blocks' = Append(blocks, Fresh)
    /\ pc' = "pay"
    /\ UNCHANGED <<desc, kept, callVars, ghosts>>

\* Mutant: the block before is not linked to the new one.
PayloadAlone ==
    /\ pc = "pay"
    /\ blocks' = [blocks EXCEPT ![Len(blocks)].data = Zeros]
    /\ mem' = [mem EXCEPT !.next = Len(blocks)]
    /\ fd' = [fd EXCEPT !.last = Len(blocks)]
    /\ pc' = "describe"
    /\ UNCHANGED <<desc, kept, at, args, boff, written, ghosts>>

Payload ==
    /\ pc = "pay"
    /\ blocks' = [blocks EXCEPT ![Len(blocks)].data = Zeros]
    /\ mem' = [mem EXCEPT !.next = Len(blocks)]
    /\ fd' = [fd EXCEPT !.last = Len(blocks)]
    /\ pc' = "link"
    /\ UNCHANGED <<desc, kept, at, args, boff, written, ghosts>>

\* The descriptor of the loaded block goes to disk, its data stays.
Described == [mem EXCEPT !.data = blocks[at].data]

Link ==
    /\ pc = "link"
    /\ blocks' = [blocks EXCEPT ![at] = Described]
    /\ pc' = "describe"
    /\ UNCHANGED <<desc, kept, callVars, ghosts>>

Describe ==
    /\ pc = "describe"
    /\ desc' = fd
    /\ Load(fd.last)
    /\ pc' = "fill"
    /\ UNCHANGED <<blocks, kept, fd, args, boff, written, ghosts>>

\* The copy of one block is filled.
Cursor == IF written = 0 /\ args.off > boff /\ args.off < boff + B THEN args.off - boff ELSE 0

Fill ==
    /\ pc = "fill"
    /\ IF written = args.len
       THEN pc' = "finish" /\ UNCHANGED <<mem, written>>
       ELSE LET n == IF args.len - written < B - Cursor THEN args.len - written ELSE B - Cursor
                end == Cursor + n
            IN /\ mem' = [mem EXCEPT !.used = IF end > @ THEN end ELSE @,
                                     !.data = [i \in 1 .. B |-> IF i \in Cursor + 1 .. end
                                                                THEN args.byte ELSE @[i]]]
               /\ written' = written + n
               /\ pc' = IF end > mem.used THEN "used" ELSE "data"
    /\ UNCHANGED <<diskVars, kept, fd, at, args, boff, ghosts>>

UsedBytes ==
    /\ pc = "used"
    /\ blocks' = [blocks EXCEPT ![at] = Described]
    /\ pc' = "data"
    /\ UNCHANGED <<desc, kept, callVars, ghosts>>

Data ==
    /\ pc = "data"
    /\ blocks' = [blocks EXCEPT ![at].data = mem.data]
    /\ IF written = args.len
       THEN pc' = "finish" /\ UNCHANGED <<at, mem, boff>>
       ELSE /\ boff' = boff + B
            /\ IF mem.next = 0 THEN pc' = "create" /\ UNCHANGED <<at, mem>>
                               ELSE Load(mem.next) /\ pc' = "fill"
    /\ UNCHANGED <<desc, kept, fd, args, written, ghosts>>

\* The size is written if it has grown, or, by set, if it is not that of the value.
NewSize ==
    IF args.set \/ args.off + args.len > fd.size THEN args.off + args.len ELSE fd.size

\* What the file should hold after the call.
Written ==
    [i \in 1 .. NewSize |-> IF i \in args.off + 1 .. args.off + args.len THEN args.byte
                            ELSE IF i \in DOMAIN content THEN content[i] ELSE 0]

Finish ==
    /\ pc = "finish"
    /\ fd' = [fd EXCEPT !.size = NewSize]
    /\ desc' = IF NewSize # fd.size THEN fd' ELSE desc
    /\ kept' = IF args.set THEN kept ELSE fd'
    /\ content' = Written
    /\ pc' = "idle"
    /\ UNCHANGED <<blocks, at, mem, args, boff, written, misled, stale, ops>>

\* getFile: the program loads the descriptor again.
Reload ==
    /\ pc = "idle" /\ kept # desc
    /\ kept' = desc
    /\ UNCHANGED <<diskVars, pc, callVars, ghosts>>

\* The process dies in the middle of a call, and another opens the store; what it reads is what
\* counts from now on.
Crash ==
    /\ pc # "idle" /\ ops < MaxOps
    /\ ops' = ops + 1
    /\ pc' = "idle"
    /\ kept' = desc
    /\ content' = Read(desc)
    /\ UNCHANGED <<diskVars, callVars, misled, stale>>

Proceed == \/ FirstBlock \/ FirstPayload \/ Find \/ Walk \/ Create \/ Payload \/ Link
           \/ Describe \/ Fill \/ UsedBytes \/ Data \/ Finish

Next == \/ \E off \in 0 .. B * MaxOps, len \in 1 .. MaxLen : WriteToFile(off, len)
        \/ \E len \in 0 .. MaxLen : Set(len)
        \/ Proceed \/ Reload \/ Crash

Spec == Init /\ [][Next]_vars

----------------------------------------------------------------------------
(* Properties                                                              *)

Sane == ~misled /\ ~stale

\* Whatever was called and wherever the process died: links lead to later blocks, so a chain
\* ends; and no block that a link or the descriptor leads to lacks its payload.
Linked == {desc.first, desc.last} \union {blocks[n].next : n \in 1 .. Len(blocks)}

ChainEnds ==
    /\ \A n \in 1 .. Len(blocks) : blocks[n].next # 0 => blocks[n].next > n
    /\ \A n \in Linked \ {0} : n <= Len(blocks) /\ Len(blocks[n].data) = B

\* What the integrity walk of the tests asks of a file, at every instant, which is what a crash
\* leaves: all blocks of a chain but the last are full, the last block of the descriptor is one
\* of them, and the size is covered.
Walkable ==
    Sane =>
        LET chain == Chain(desc) IN
        /\ \A i \in 1 .. Len(chain) - 1 : blocks[chain[i]].used = B
        /\ desc.last # 0 => desc.last \in ToSet(chain)
        /\ Len(Read(desc)) = desc.size

\* Between two calls the file holds what the calls wrote; and while a call is under way, so that
\* a crash may come, every byte that is not its business reads as before.
ContentKept ==
    Sane =>
        LET read == Read(desc) IN
        /\ desc.size = Len(content)
        /\ pc = "idle" => read = content
        /\ \A i \in 1 .. Len(content) :
            i \notin args.off + 1 .. args.off + args.len => read[i] = content[i]

\* "persisted value mismatch": a value that was set or written is read back, if only the program
\* loads a descriptor before it uses it.
ReadBack == ~stale /\ pc = "idle" => Read(desc) = content
=============================================================================
