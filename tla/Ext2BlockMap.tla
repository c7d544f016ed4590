------------------------------ MODULE Ext2BlockMap ------------------------------
(***************************************************************************)
(* The block map of one ext2 file (src/sys/fs/ext2_vnode.cpp): the twelve  *)
(* direct pointers and the single, double and triple indirect blocks of    *)
(* inode_.i_block, walked and grown by Ext2VNode::GetOrCreateExtents and   *)
(* its recursive helper, and the callers that use it: block-aligned Read   *)
(* and Write (ReadWrite makes one GetOrCreateExtents call for the whole    *)
(* range), Remove of the file's last link, and Touch of a new file.        *)
(*                                                                         *)
(* A disk block is seen as the P pointers it holds; data contents are not  *)
(* modelled.  Blocks 1 .. NB are the ones the block bitmap covers (bit k   *)
(* is block k + 1, as FreeBlock reads it); block NB + 1 is the block past  *)
(* them.  Ext2Mount::AllocBlock sets the lowest clear bit (never bit 0)   *)
(* and returns free_block + 1, one past the block whose bit it set; the    *)
(* group free counters are not modelled (Ext2Alloc's subject).  FreeBlock *)
(* clears the block's own bit.  AllocBlock does not clear the block it hands out, so a block keeps the  *)
(* pointers it held until something writes it.  Block 0 is "no block":     *)
(* ReadBlock and WriteBlock refuse it.  Disk reads and KHeap::Allocate are *)
(* taken to succeed.                                                       *)
(*                                                                         *)
(* A call's outcome is "ok", "fail" (NullOpt or -1), "overrun" (an index   *)
(* past the end of a block buffer, or FreeBlock(0) indexing bgdt_ out of   *)
(* range: undefined behaviour, after which nothing is modelled) or "hang"  *)
(* (the double-indirect loop retrying a ReadBlock of block 0 forever).     *)
(***************************************************************************)
EXTENDS Integers, Sequences, FiniteSets

CONSTANTS P,        \* pointers per block: GetBlockSize() / sizeof(uint32_t)
          NB,       \* disk blocks 1..NB
          Offs,     \* first blocks of the Read and Write requests
          Lens,     \* their lengths in blocks
          Prealloc, \* super_->s_prealloc_blocks
          Leftover, \* the pointer arrays a block not in use may still hold
          SPB,      \* sectors_per_block_
          PartBase, \* partition_base_sector_
          Word      \* 2^32, the range of uint32_t; TLC's integers stop at
                    \* 2^31, and any Word above the disk's last sector
                    \* puts a wrapped address past the partition as 2^32 does

ASSUME Word > PartBase + 2 + (NB + 1) * SPB

NDIRECT == 12
Blocks == 1 .. NB
DiskBlocks == 1 .. NB + 1
Ptrs == 0 .. P - 1
Zero == [i \in Ptrs |-> 0]

VARIABLES ib,       \* inode_.i_block[0..14]
          owned,    \* ghost: the blocks AllocBlock returned and FreeBlock
                    \* has not been given since
          iblocks,  \* inode_.i_blocks
          size,     \* inode_.i_size, in blocks
          live,     \* the file has a directory entry
          disk,     \* the pointers each disk block holds
          free,     \* blocks clear in the block bitmap
          ret,      \* the last call and its result
          fault     \* "none", or the undefined behaviour or hang reached

vars == <<ib, owned, iblocks, size, live, disk, free, ret, fault>>

PtrsPerIndirectBlock(level) == P ^ (level + 1)

LowestFree(S) == CHOOSE b \in S : \A c \in S : b <= c

MinOf(a, b) == IF a < b THEN a ELSE b

(* Faulty variant of AddToExtentList: a new extent starts with length 0.  *)
AddToExtentListEmpty(ex, b) ==
    IF ex # <<>> /\ b = ex[Len(ex)].start + ex[Len(ex)].len
    THEN [ex EXCEPT ![Len(ex)].len = @ + 1]
    ELSE Append(ex, [start |-> b, len |-> 0])

(* Ext2VNode::AddToExtentList: extend the last extent if b follows it.    *)
AddToExtentList(ex, b) ==
    IF ex # <<>> /\ b = ex[Len(ex)].start + ex[Len(ex)].len
    THEN [ex EXCEPT ![Len(ex)].len = @ + 1]
    ELSE Append(ex, [start |-> b, len |-> 1])

(* The i_block slot of the indirect tree holding logical block bno, 15    *)
(* when it is past the triple-indirect range, and bno's index inside it.  *)
IndirectSlot(bno) ==
    CASE bno < NDIRECT + P                 -> 12
      [] bno < NDIRECT + P + P^2           -> 13
      [] bno < NDIRECT + P + P^2 + P^3     -> 14
      [] OTHER                             -> 15

(* Faulty variant of ChildIndex: the double- and triple-indirect offsets  *)
(* leave out the single-indirect range.                                   *)
ChildIndexSkippingSingle(bno, bi) ==
    CASE bi = 12 -> bno - NDIRECT
      [] bi = 13 -> bno - NDIRECT
      [] OTHER   -> bno - NDIRECT - P^2

ChildIndex(bno, bi) ==
    CASE bi = 12 -> bno - NDIRECT
      [] bi = 13 -> bno - NDIRECT - P
      [] OTHER   -> bno - NDIRECT - P - P^2

(* A call's working state: the inode fields, disk and bitmap as the call  *)
(* changes them, the extents so far, the outcome, the block buffer the    *)
(* current level was given (buf), its blocks_read (n), and the top level's *)
(* parent_ind (pind).                                                     *)
(* AllocBlock: ffsll of the inverted bitmap word (bit 0 of group 0 forced *)
(* set) gives the lowest clear bit other than block 1's; free_block is     *)
(* that block, and free_block + 1 is returned.                             *)
AllocFails(r) == r.free \ {1} = {}
Marked(r) == LowestFree(r.free \ {1})
Alloc(r) == Marked(r) + 1
Take(r) == [r EXCEPT !.free = @ \ {Marked(r)}, !.owned = @ \cup {Alloc(r)}]

RECURSIVE Sub(_, _, _, _, _, _), Leaf(_, _, _, _, _), Inner(_, _, _, _, _, _)

(* The level-0 loop of the recursive GetOrCreateExtents: data pointers    *)
(* parent[bno + i] for i < len.                                           *)
Leaf(r, bno, i, len, create) ==
    IF i >= len THEN r
    ELSE IF bno + i >= P THEN [r EXCEPT !.st = "overrun"]
    ELSE IF create /\ r.buf[bno + i] = 0
         THEN IF AllocFails(r) THEN [r EXCEPT !.st = "fail"]
              ELSE Leaf([Take(r) EXCEPT !.buf[bno + i] = Alloc(r),
                                  !.iblocks = @ + 1, !.ex = AddToExtentList(@, Alloc(r)),
                                  !.n = @ + 1], bno, i + 1, len, create)
    ELSE IF r.buf[bno + i] = 0 THEN [r EXCEPT !.st = "fail"]
    ELSE Leaf([r EXCEPT !.ex = AddToExtentList(@, r.buf[bno + i]), !.n = @ + 1],
              bno, i + 1, len, create)

(* The rest of one iteration of the level > 0 loop, given the child's    *)
(* result c: a failed child is returned at once, its buffer dropped;      *)
(* otherwise len shrinks and blocks_read grows by what it read, and the   *)
(* child buffer is written back when creating.                            *)
InnerAfter(a, c, bno, len, level, create, mdata, child) ==
    IF c.st # "ok" THEN [c EXCEPT !.buf = a.buf, !.n = a.n]
    ELSE Inner([c EXCEPT !.buf = a.buf, !.n = a.n + c.n,
                         !.disk = IF create THEN [@ EXCEPT ![child] = c.buf] ELSE @],
               bno + c.n, len - c.n, level, create, mdata)

(* One iteration once the child pointer is settled: a child of 0 makes    *)
(* ReadBlock fail, and the loop retries it with nothing changed.           *)
InnerChild(a, bno, len, level, create, mdata, child, pic) ==
    IF child = 0 THEN [a EXCEPT !.st = "hang"]
    ELSE InnerAfter(a, Sub([a EXCEPT !.buf = a.disk[child], !.n = 0,
                                     !.ex = IF mdata THEN AddToExtentList(@, child) ELSE @],
                           bno % pic, MinOf(pic, len), level - 1, create, mdata),
                    bno, len, level, create, mdata, child)

(* Faulty variant of Inner: a new child is allocated at the first block   *)
(* under it whether or not the parent already holds one.                  *)
InnerAllocatingAnyChild(r, bno, len, level, create, mdata) ==
    IF r.n >= len THEN r
    ELSE IF bno \div PtrsPerIndirectBlock(level - 1) >= P THEN [r EXCEPT !.st = "overrun"]
    ELSE IF create /\ bno % PtrsPerIndirectBlock(level - 1) = 0
         THEN IF AllocFails(r) THEN [r EXCEPT !.st = "fail"]
              ELSE InnerChild([Take(r) EXCEPT !.buf[bno \div PtrsPerIndirectBlock(level - 1)] = Alloc(r)],
                              bno, len, level, create, mdata, Alloc(r),
                              PtrsPerIndirectBlock(level - 1))
         ELSE InnerChild(r, bno, len, level, create, mdata,
                         r.buf[bno \div PtrsPerIndirectBlock(level - 1)],
                         PtrsPerIndirectBlock(level - 1))

(* The level > 0 loop: while blocks_read < len, take child bno \div pic,  *)
(* allocating it only when bno is the first block under it.               *)
Inner(r, bno, len, level, create, mdata) ==
    IF r.n >= len THEN r
    ELSE IF bno \div PtrsPerIndirectBlock(level - 1) >= P THEN [r EXCEPT !.st = "overrun"]
    ELSE IF /\ create /\ bno % PtrsPerIndirectBlock(level - 1) = 0
            /\ r.buf[bno \div PtrsPerIndirectBlock(level - 1)] = 0
         THEN IF AllocFails(r) THEN [r EXCEPT !.st = "fail"]
              ELSE InnerChild([Take(r) EXCEPT !.buf[bno \div PtrsPerIndirectBlock(level - 1)] = Alloc(r)],
                              bno, len, level, create, mdata, Alloc(r),
                              PtrsPerIndirectBlock(level - 1))
         ELSE InnerChild(r, bno, len, level, create, mdata,
                         r.buf[bno \div PtrsPerIndirectBlock(level - 1)],
                         PtrsPerIndirectBlock(level - 1))

Sub(r, bno, len, level, create, mdata) ==
    IF level = 0 THEN Leaf(r, bno, 0, len, create)
    ELSE Inner(r, bno, len, level, create, mdata)

RECURSIVE Top(_, _, _, _, _)

(* After the recursive call on slot bi: write the parent back when        *)
(* creating (before the result is checked), advance by blocks read.        *)
TopAfter(c, bno, rem, create, mdata, bi) ==
    Top(IF create THEN [c EXCEPT !.disk[c.ib[bi]] = c.buf] ELSE c,
        bno + c.n, rem - c.n, create, mdata)

(* One iteration of the top-level loop on indirect slot bi, once it is    *)
(* allocated: read it unless it is the cached parent, then recurse.        *)
TopIndirect(r, bno, rem, create, mdata, bi) ==
    IF r.pind # r.ib[bi] /\ r.ib[bi] = 0 THEN [r EXCEPT !.st = "fail"]
    ELSE TopAfter(Sub([IF r.pind = r.ib[bi] THEN r
                       ELSE [r EXCEPT !.pind = r.ib[bi], !.buf = r.disk[r.ib[bi]],
                                      !.ex = IF mdata THEN AddToExtentList(@, r.ib[bi]) ELSE @]
                       EXCEPT !.n = 0],
                      ChildIndex(bno, bi), MinOf(PtrsPerIndirectBlock(bi - NDIRECT), rem),
                      bi - NDIRECT, create, mdata),
                  bno, rem, create, mdata, bi)

(* Ext2VNode::GetOrCreateExtents(block_no, len, create, mdata), the loop   *)
(* over rem_len: direct blocks one at a time (a hole adds block 0 when not *)
(* creating), indirect ranges through the recursive helper.               *)
Top(r, bno, rem, create, mdata) ==
    IF rem = 0 \/ r.st # "ok" THEN r
    ELSE IF bno < NDIRECT
         THEN IF create /\ r.ib[bno] = 0
              THEN IF AllocFails(r) THEN [r EXCEPT !.st = "fail"]
                   ELSE Top([Take(r) EXCEPT !.ib[bno] = Alloc(r),
                                      !.iblocks = @ + 1, !.ex = AddToExtentList(@, Alloc(r))],
                            bno + 1, rem - 1, create, mdata)
              ELSE Top([r EXCEPT !.ex = AddToExtentList(@, r.ib[bno])],
                       bno + 1, rem - 1, create, mdata)
    ELSE IF IndirectSlot(bno) = 15 THEN [r EXCEPT !.st = "fail"]
    ELSE IF create /\ r.ib[IndirectSlot(bno)] = 0
         THEN IF AllocFails(r) THEN [r EXCEPT !.st = "fail"]
              ELSE TopIndirect([Take(r) EXCEPT !.ib[IndirectSlot(bno)] = Alloc(r)],
                               bno, rem, create, mdata, IndirectSlot(bno))
         ELSE TopIndirect(r, bno, rem, create, mdata, IndirectSlot(bno))

(* A call on the inode fields i and cnt and the current disk and bitmap.  *)
Call(i, cnt, start, len, create, mdata) ==
    Top([ib |-> i, iblocks |-> cnt, disk |-> disk, free |-> free, owned |-> owned,
         ex |-> <<>>, st |-> "ok", buf |-> Zero, n |-> 0, pind |-> -1],
        start, len, create, mdata)

(* The blocks an extent list names, in order.                             *)
RECURSIVE ExtentBlocks(_)
ExtentBlocks(ex) ==
    IF ex = <<>> THEN <<>>
    ELSE [j \in 1 .. Head(ex).len |-> Head(ex).start + j - 1] \o ExtentBlocks(Tail(ex))

ExtentSet(ex) == {ExtentBlocks(ex)[i] : i \in 1 .. Len(ExtentBlocks(ex))}

(* Keep what the call changed: the vnode's inode_ fields, disk, bitmap.   *)
Commit(r) ==
    /\ ib' = r.ib /\ iblocks' = r.iblocks /\ disk' = r.disk /\ free' = r.free
    /\ owned' = r.owned

(* Ext2Mount::ReadBlocks and WriteBlocks: extent [start_, len_] becomes   *)
(* the disk range of len_ * sectors_per_block_ sectors from               *)
(* partition_base_sector_ + 2 + (start_ - 1) * sectors_per_block_, the    *)
(* product taken in uint32_t.  Unlike ReadBlock and WriteBlock they have  *)
(* no test for block 0, whose start_ - 1 wraps to Word - 1.               *)
BlockSector(b) == PartBase + 2 + (((b - 1) * SPB) % Word)

ToRanges(ex) == [i \in DOMAIN ex |-> [lba |-> BlockSector(ex[i].start), n |-> ex[i].len * SPB]]

(* The call's outcome, with the disk ranges ReadWrite hands to ReadBlocks *)
(* or WriteBlocks.                                                        *)
Result(op, off, len, r) ==
    [op |-> op, off |-> off, len |-> len, ok |-> r.st = "ok", ex |-> r.ex,
     rng |-> ToRanges(r.ex)]

Faulted(r) == r.st \in {"overrun", "hang"}

Halt(st) == fault' = st /\ UNCHANGED <<ib, owned, iblocks, size, live, disk, free, ret>>
----------------------------------------------------------------------------
EmptyINode == [i \in 0 .. 14 |-> 0]

Init ==
    /\ ib = EmptyINode /\ owned = {} /\ iblocks = 0 /\ size = 0 /\ live = TRUE
    /\ disk \in [DiskBlocks -> Leftover] /\ free = Blocks
    /\ ret = [op |-> "none", off |-> 0, len |-> 0, ok |-> TRUE, ex |-> <<>>, rng |-> <<>>]
    /\ fault = "none"

(* Ext2VNode::Read of len blocks from block off: ReadWrite(write = false) *)
(* makes one GetOrCreateExtents call and reads the extents.               *)
ReadOp(r, off, len) ==
    IF Faulted(r) THEN Halt(r.st)
    ELSE /\ Commit(r) /\ ret' = Result("Read", off, len, r)
         /\ UNCHANGED <<size, live, fault>>

Read(off, len) ==
    /\ fault = "none" /\ live
    /\ ReadOp(Call(ib, iblocks, off, len, FALSE, FALSE), off, len)

(* Ext2VNode::Write: ReadWrite(write = true), a failed call keeping what  *)
(* it allocated; on success i_size += (offset - i_size) * (offset >       *)
(* i_size), then WriteBack.                                               *)
WriteOp(r, off, len) ==
    IF Faulted(r) THEN Halt(r.st)
    ELSE /\ Commit(r) /\ ret' = Result("Write", off, len, r)
         /\ size' = IF r.st = "ok" /\ off > size THEN off ELSE size
         /\ UNCHANGED <<live, fault>>

Write(off, len) ==
    /\ fault = "none" /\ live
    /\ WriteOp(Call(ib, iblocks, off, len, TRUE, FALSE), off, len)

(* Ext2VNode::Remove once the last link is gone: GetOrCreateExtents(0,    *)
(* GetLength() / block size, false, true), FreeBlock on every block named *)
(* (block 0, a direct hole, and block NB + 1, past the last group, index  *)
(* bgdt_ out of range), then                                              *)
(* WriteINode(ino, {}).  A failed walk returns false and leaves every     *)
(* block allocated; either way the directory entry is already gone.       *)
RemoveOp(r) ==
    IF Faulted(r) THEN Halt(r.st)
    ELSE IF r.st = "ok" /\ ExtentSet(r.ex) \ Blocks # {} THEN Halt("overrun")
    ELSE /\ free' = IF r.st = "ok" THEN free \cup ExtentSet(r.ex) ELSE free
         /\ owned' = IF r.st = "ok" THEN owned \ ExtentSet(r.ex) ELSE owned
         /\ live' = FALSE /\ ret' = Result("Remove", 0, size, r)
         /\ UNCHANGED <<ib, iblocks, size, disk, fault>>

Remove ==
    /\ fault = "none" /\ live
    /\ RemoveOp(Call(ib, iblocks, 0, size, FALSE, TRUE))

(* Ext2VNode::Touch: AllocVNode gives a zeroed inode, and Prealloc of a   *)
(* regular file calls GetOrCreateExtents(0, s_prealloc_blocks, true) and  *)
(* ignores its result.                                                    *)
TouchOp(r) ==
    IF Faulted(r) THEN Halt(r.st)
    ELSE /\ Commit(r) /\ live' = TRUE /\ size' = 0
         /\ ret' = Result("Touch", 0, Prealloc, r)
         /\ UNCHANGED fault

Touch ==
    /\ fault = "none" /\ ~live
    /\ TouchOp(Call(EmptyINode, 0, 0, Prealloc, TRUE, FALSE))

Next ==
    \/ \E off \in Offs, len \in Lens : Read(off, len) \/ Write(off, len)
    \/ Remove
    \/ Touch

Spec == Init /\ [][Next]_vars

----------------------------------------------------------------------------
(* Properties, checked by the configurations of this module: a reference *)
(* reading of the ext2 block map, and what the block-map code must keep.  *)

SE == INSTANCE SequencesExt

(* The first logical block under i_block[12 + k]; Base(3) is one past the *)
(* triple-indirect range.                                                  *)
(* Contents of unused blocks: a freshly formatted disk holds zeros; on a  *)
(* used one a freed block keeps what it held, e.g. pointers to block NB.   *)
FreshDisk == {Zero}
UsedDisk == {Zero, [i \in Ptrs |-> NB]}

RECURSIVE Base(_)
Base(k) == IF k = 0 THEN NDIRECT ELSE Base(k - 1) + P^k

Logical == 0 .. Base(3) - 1

(* The block at offset off under block b, b being an indirect block of    *)
(* level lvl (level 0 holds data pointers); 0 for a hole.                  *)
RECURSIVE Walk(_, _, _)
Walk(b, off, lvl) ==
    IF b = 0 THEN 0
    ELSE IF lvl = 0 THEN disk[b][off]
    ELSE Walk(disk[b][off \div P^lvl], off % P^lvl, lvl - 1)

(* The disk block holding logical block l of the file, by the ext2 layout. *)
Lookup(l) ==
    IF l < NDIRECT THEN ib[l]
    ELSE LET k == CHOOSE k \in 0 .. 2 : Base(k) <= l /\ l < Base(k + 1)
         IN  Walk(ib[NDIRECT + k], l - Base(k), k)

(* Every block the tree under b holds, b included (lvl -1: a data block). *)
RECURSIVE Subtree(_, _)
Subtree(b, lvl) ==
    IF b = 0 THEN <<>>
    ELSE IF lvl < 0 THEN <<b>>
    ELSE <<b>> \o SE!FlattenSeq([i \in 1 .. P |-> Subtree(disk[b][i - 1], lvl - 1)])

TreeBlocks ==
    SE!FlattenSeq([i \in 1 .. NDIRECT + 3 |->
                   IF i <= NDIRECT THEN Subtree(ib[i - 1], -1)
                   ELSE Subtree(ib[i - 1], i - 1 - NDIRECT)])

TypeOK ==
    /\ ib \in [0 .. 14 -> 0 .. NB + 1] /\ owned \subseteq DiskBlocks
    /\ iblocks \in Nat /\ size \in Nat /\ live \in BOOLEAN
    /\ disk \in [DiskBlocks -> [Ptrs -> 0 .. NB + 1]]
    /\ free \subseteq Blocks
    /\ ret.op \in {"none", "Read", "Write", "Remove", "Touch"} /\ ret.ok \in BOOLEAN
    /\ \A i \in DOMAIN ret.ex : ret.ex[i] \in [start : 0 .. NB + 1, len : 1 .. NB + 1]
    /\ fault \in {"none", "overrun", "hang"}

(* The tree of a live file is sound: every block it reaches, data or      *)
(* indirect, is one AllocBlock handed out and nothing freed since, and it  *)
(* is reached once.  Broken if GetOrCreateExtents takes a pointer it did   *)
(* not allocate for one it did (a reused block's old contents).           *)
TreeSound ==
    live => /\ SE!IsInjective(TreeBlocks)
            /\ \A i \in 1 .. Len(TreeBlocks) : TreeBlocks[i] \in owned

(* A successful Read or Write returns, in order, exactly the blocks the   *)
(* ext2 layout maps its range to (after the call): the recursive walk's   *)
(* index arithmetic, its extent merging and its write-backs agree with    *)
(* the on-disk tree.                                                       *)
ExtentsMatchMap ==
    ret.op \in {"Read", "Write"} /\ ret.ok =>
        ExtentBlocks(ret.ex) = [i \in 1 .. ret.len |-> Lookup(ret.off + i - 1)]

(* Every range a successful call hands the disk lies within the sectors   *)
(* of blocks 1 .. NB + 1 of the partition, as ReadBlock's and WriteBlock's     *)
(* test for block 0 intends: a hole must not send the disk an address    *)
(* Word - sectors_per_block_ sectors past the partition.                  *)
RangesInPartition ==
    ret.op \in {"Read", "Write"} /\ ret.ok =>
        \A i \in DOMAIN ret.rng :
            /\ ret.rng[i].lba >= PartBase + 2
            /\ ret.rng[i].lba + ret.rng[i].n <= PartBase + 2 + (NB + 1) * SPB

(* No step on a live file moves a logical block that is already mapped to *)
(* another disk block: data written once stays where it was written.      *)
MappingsStable ==
    [][live /\ live' => \A l \in Logical : Lookup(l) # 0 => Lookup(l)' = Lookup(l)]_vars

(* No call indexes past the end of a block buffer or frees block 0.      *)
NoOverrun == fault # "overrun"

(* No call loops forever on a ReadBlock of block 0.                       *)
NoHang == fault # "hang"

(* Every block AllocBlock handed out belongs to the live file's tree.     *)
NoLeak == live => owned = {TreeBlocks[i] : i \in 1 .. Len(TreeBlocks)}

(* Read and Write on the file, excluding the calls that overrun or hang   *)
(* (NoOverrun and NoHang show those are reachable).                                    *)
CheckedNext ==
    /\ \E off \in Offs, len \in Lens : Read(off, len) \/ Write(off, len)
    /\ fault' = "none"

CheckedSpec == Init /\ [][CheckedNext]_vars
====
