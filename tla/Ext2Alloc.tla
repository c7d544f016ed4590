------------------------------- MODULE Ext2Alloc -------------------------------
(***************************************************************************)
(* Block and inode allocation of Ext2Mount (src/sys/fs/ext2_mount.cpp):    *)
(* AllocBlock, FreeBlock, AllocVNode and DeleteINode over the block and    *)
(* inode bitmaps of each block group and the free counters of the block    *)
(* group descriptor table (bgdt_) and of the super-block.                  *)
(*                                                                         *)
(* A bitmap is the set of its set bits.  Its DiskMem is shared by the      *)
(* cache and every copy, and each copy writes it back when destroyed, so   *)
(* the bitmap is one value; a ReadBlockBitmap or ReadINodeBitmap can fail  *)
(* (the cache may have evicted it, and the disk read fail), which is an    *)
(* input: rd, the groups whose bitmap read succeeds in this call.  Both    *)
(* bitmaps have the same geometry: NGroups groups of Words words of W     *)
(* bits (s_blocks_per_group = s_inodes_per_group = Words * W).            *)
(*                                                                         *)
(* Block b and inode n are 1-based, as ReadBlock and ReadINode take them:  *)
(* block b is bit (b - 1) % BPG of group (b - 1) \div BPG.  The ghost      *)
(* variables blkOwners and inoOwners count who holds each number: a file  *)
(* or the file system for what the bitmap marks at mount, and each caller  *)
(* an Alloc handed it to.  Block 1 (the super-block) and inode 1 are never *)
(* freed.                                                                  *)
(***************************************************************************)
EXTENDS Integers, FiniteSets, FiniteSetsExt, Functions

CONSTANTS
    NGroups,    \* s_blocks_count / s_blocks_per_group
    Words,      \* 64-bit words per bitmap (block_size_ / 8)
    W,          \* bits per word (64)
    MaxOwners,  \* bound on the ghost holder counts
    NIL

VARIABLES
    bbmap,         \* group -> set bits of its block bitmap
    ibmap,         \* group -> set bits of its inode bitmap
    bgFreeBlocks,  \* bgdt_[i].bg_free_blocks_count
    bgFreeInodes,  \* bgdt_[i].bg_free_inodes_count
    sFreeInodes,   \* super_->s_free_inodes_count
    blkOwners,     \* ghost: block -> number of holders
    inoOwners,     \* ghost: inode -> number of holders
    ret            \* the last call and its result

vars == <<bbmap, ibmap, bgFreeBlocks, bgFreeInodes, sFreeInodes,
          blkOwners, inoOwners, ret>>

Groups == 0 .. NGroups - 1
WordIx == 0 .. Words - 1
BPG    == Words * W
Bits   == 0 .. BPG - 1
NBlocks == NGroups * BPG

(* AllocBlock can return one past the last block, and AllocVNode inode 0. *)
BlockNos == 1 .. NBlocks + 1
InoNos   == 0 .. NBlocks

GroupOf(b) == (b - 1) \div BPG
BitOf(b)   == (b - 1) % BPG
Marked(m, b) == b \in 1 .. NBlocks /\ BitOf(b) \in m[GroupOf(b)]

WordBits(j) == j * W .. j * W + W - 1

(* bmap[j] == 0xFFFFFFFFFFFFFFFF                                          *)
Full(s, j) == WordBits(j) \subseteq s

(* The zero bits of ~(bmap[j] | 1) for word 0 of group 0, of ~bmap[j]     *)
(* elsewhere: bit 0 of group 0 (block 1, inode 1) is never handed out.    *)
FreeBits(s, i, j) == WordBits(j) \ (IF i = 0 /\ j = 0 THEN s \cup {0} ELSE s)

(* __builtin_ffsll: one plus the index of the lowest set bit, 0 for 0.    *)
Ffs(f, j) == IF f = {} THEN 0 ELSE Min(f) - j * W + 1

(* bmap[j] |= 1ULL << (unset - 1).  For unset = 0 the count is 2^64 - 1,  *)
(* which x86's shift masks to 63: the word's top bit.                     *)
MarkBit(j, unset) == IF unset = 0 THEN j * W + W - 1 ELSE j * W + unset - 1

(* Faulty variant of Candidates: the bg_free_*_count test is dropped.     *)
CandidatesIgnoringCount(m, cnt, rd) == {i \in rd : \E j \in WordIx : ~Full(m[i], j)}

(* The groups the outer loop stops at: a non-zero free counter, a bitmap  *)
(* that reads, and a word that is not all ones.                           *)
Candidates(m, cnt, rd) == {i \in rd : cnt[i] # 0 /\ \E j \in WordIx : ~Full(m[i], j)}

FirstWord(s) == Min({j \in WordIx : ~Full(s, j)})

(* The inner loop's hit in word j of group i: set the bit, decrement the  *)
(* group's counter; no is bg_base + j * 64 + unset.                       *)
TakeBit(m, cnt, i, j, unset) ==
    [bmap |-> [m EXCEPT ![i] = @ \cup {MarkBit(j, unset)}],
     cnt  |-> [cnt EXCEPT ![i] = @ - 1],
     no   |-> i * BPG + j * W + unset]

TakeIn(m, cnt, i) ==
    TakeBit(m, cnt, i, FirstWord(m[i]), Ffs(FreeBits(m[i], i, FirstWord(m[i])),
                                            FirstWord(m[i])))

(* The scan AllocBlock and AllocVNode share; no = NIL when it finds none. *)
Scan(m, cnt, rd) ==
    IF Candidates(m, cnt, rd) = {} THEN [bmap |-> m, cnt |-> cnt, no |-> NIL]
    ELSE TakeIn(m, cnt, Min(Candidates(m, cnt, rd)))

Result(op, val, rd) == [op |-> op, val |-> val, io |-> rd = Groups]

-----------------------------------------------------------------------------
(* AllocBlock: the scan over the block bitmaps, WriteBack, and            *)
(* return free_block + 1.  No super-block counter is touched and bgdt_ is  *)
(* not written back.                                                      *)
AllocBlockDone(r, rd) ==
    IF r.no = NIL
    THEN ret' = Result("AllocBlock", NIL, rd)
         /\ UNCHANGED <<bbmap, bgFreeBlocks, blkOwners>>
    ELSE /\ blkOwners[r.no + 1] < MaxOwners
         /\ bbmap' = r.bmap /\ bgFreeBlocks' = r.cnt
         /\ blkOwners' = [blkOwners EXCEPT ![r.no + 1] = @ + 1]
         /\ ret' = Result("AllocBlock", r.no + 1, rd)

AllocBlock(rd) ==
    /\ AllocBlockDone(Scan(bbmap, bgFreeBlocks, rd), rd)
    /\ UNCHANGED <<ibmap, bgFreeInodes, sFreeInodes, inoOwners>>

(* Faulty variant of AllocVNodeDone: it returns free_inode + 1, as        *)
(* AllocBlock does.                                                       *)
AllocVNodeDoneOffByOne(r, rd) ==
    IF r.no = NIL
    THEN ret' = Result("AllocVNode", NIL, rd)
         /\ UNCHANGED <<ibmap, bgFreeInodes, sFreeInodes, inoOwners>>
    ELSE /\ inoOwners[r.no + 1] < MaxOwners
         /\ ibmap' = r.bmap /\ bgFreeInodes' = r.cnt
         /\ sFreeInodes' = sFreeInodes - 1
         /\ inoOwners' = [inoOwners EXCEPT ![r.no + 1] = @ + 1]
         /\ ret' = Result("AllocVNode", r.no + 1, rd)

(* AllocVNode: the same scan over the inode bitmaps; also decrement the   *)
(* super-block's counter; return free_inode.                              *)
AllocVNodeDone(r, rd) ==
    IF r.no = NIL
    THEN ret' = Result("AllocVNode", NIL, rd)
         /\ UNCHANGED <<ibmap, bgFreeInodes, sFreeInodes, inoOwners>>
    ELSE /\ inoOwners[r.no] < MaxOwners
         /\ ibmap' = r.bmap /\ bgFreeInodes' = r.cnt
         /\ sFreeInodes' = sFreeInodes - 1
         /\ inoOwners' = [inoOwners EXCEPT ![r.no] = @ + 1]
         /\ ret' = Result("AllocVNode", r.no, rd)

AllocVNode(rd) ==
    /\ AllocVNodeDone(Scan(ibmap, bgFreeInodes, rd), rd)
    /\ UNCHANGED <<bbmap, bgFreeBlocks, blkOwners>>

(* Clear bit (n - 1) % per_group of group (n - 1) / per_group.  A group   *)
(* past the table names no modelled bitmap.                               *)
ClearBit(m, n) ==
    IF GroupOf(n) \in Groups THEN [m EXCEPT ![GroupOf(n)] = @ \ {BitOf(n)}] ELSE m

(* Faulty variant of FreeBlock: it also increments the group's free       *)
(* counter, whether or not the bit was set.                               *)
FreeBlockCounting(b, ok) ==
    /\ blkOwners[b] > 0 /\ b # 1
    /\ IF ok THEN /\ bbmap' = ClearBit(bbmap, b)
                  /\ blkOwners' = [blkOwners EXCEPT ![b] = @ - 1]
                  /\ bgFreeBlocks' = IF GroupOf(b) \in Groups
                                     THEN [bgFreeBlocks EXCEPT ![GroupOf(b)] = @ + 1]
                                     ELSE bgFreeBlocks
             ELSE UNCHANGED <<bbmap, blkOwners, bgFreeBlocks>>
    /\ ret' = Result("FreeBlock", ok, IF ok THEN Groups ELSE {})
    /\ UNCHANGED <<ibmap, bgFreeInodes, sFreeInodes, inoOwners>>

(* FreeBlock(b) by a holder of b: clear the bit if the bitmap reads; no   *)
(* counter changes.                                                       *)
FreeBlock(b, ok) ==
    /\ blkOwners[b] > 0 /\ b # 1
    /\ IF ok THEN bbmap' = ClearBit(bbmap, b)
                  /\ blkOwners' = [blkOwners EXCEPT ![b] = @ - 1]
             ELSE UNCHANGED <<bbmap, blkOwners>>
    /\ ret' = Result("FreeBlock", ok, IF ok THEN Groups ELSE {})
    /\ UNCHANGED <<ibmap, bgFreeBlocks, bgFreeInodes, sFreeInodes, inoOwners>>

(* DeleteINode(ino) by a holder of ino: the same on the inode bitmap.     *)
DeleteINode(n, ok) ==
    /\ inoOwners[n] > 0 /\ n # 1
    /\ IF ok THEN ibmap' = ClearBit(ibmap, n)
                  /\ inoOwners' = [inoOwners EXCEPT ![n] = @ - 1]
             ELSE UNCHANGED <<ibmap, inoOwners>>
    /\ ret' = Result("DeleteINode", ok, IF ok THEN Groups ELSE {})
    /\ UNCHANGED <<bbmap, bgFreeBlocks, bgFreeInodes, sFreeInodes, blkOwners>>

-----------------------------------------------------------------------------
(* A file system as mkfs leaves it: each group's bitmaps mark a prefix    *)
(* (its metadata, and files written in order), bit 0 of group 0 among    *)
(* them; the counters count the clear bits, and what is marked has one    *)
(* holder.  Holes come from later frees.                                  *)
FreeCount(m) == [i \in Groups |-> BPG - Cardinality(m[i])]

Prefixes == {0 .. k - 1 : k \in 0 .. BPG}

Init ==
    /\ bbmap \in [Groups -> Prefixes] /\ 0 \in bbmap[0]
    /\ ibmap \in [Groups -> Prefixes] /\ 0 \in ibmap[0]
    /\ bgFreeBlocks = FreeCount(bbmap)
    /\ bgFreeInodes = FreeCount(ibmap)
    /\ sFreeInodes = SumFunction(bgFreeInodes)
    /\ blkOwners = [b \in BlockNos |-> IF Marked(bbmap, b) THEN 1 ELSE 0]
    /\ inoOwners = [n \in InoNos |-> IF Marked(ibmap, n) THEN 1 ELSE 0]
    /\ ret = NIL

(* The block and the inode allocator share no variable: each can be     *)
(* checked with the other's state left as mkfs made it.                   *)
BlockNext ==
    \/ \E rd \in SUBSET Groups : AllocBlock(rd)
    \/ \E b \in BlockNos, ok \in BOOLEAN : FreeBlock(b, ok)

INodeNext ==
    \/ \E rd \in SUBSET Groups : AllocVNode(rd)
    \/ \E n \in InoNos, ok \in BOOLEAN : DeleteINode(n, ok)

Next == BlockNext \/ INodeNext

Spec == Init /\ [][Next]_vars
BlockSpec == Init /\ [][BlockNext]_vars
INodeSpec == Init /\ [][INodeNext]_vars

-----------------------------------------------------------------------------
(* Properties, checked by the configurations of this module.             *)

(***************************************************************************)
(* Ext2Alloc with two groups of two 2-bit words: both loops of the scan   *)
(* run more than once, and word 0 of group 0 holds the excluded bit.      *)
(***************************************************************************)

(* The block and the inode allocator share no variable, so each         *)
(* behaviour exercises one of them (mode), the other keeping one mkfs     *)
(* layout: only bit 0 of group 0 set.                                     *)
VARIABLE mode

Fresh == [i \in Groups |-> IF i = 0 THEN {0} ELSE {}]

MCInit ==
    /\ Init
    /\ \/ mode = "blocks" /\ ibmap = Fresh
       \/ mode = "inodes" /\ bbmap = Fresh

MCNext ==
    /\ \/ mode = "blocks" /\ BlockNext
       \/ mode = "inodes" /\ INodeNext
    /\ UNCHANGED mode

MCSpec == MCInit /\ [][MCNext]_<<vars, mode>>

TypeOK ==
    /\ bbmap \in [Groups -> SUBSET Bits] /\ ibmap \in [Groups -> SUBSET Bits]
    /\ bgFreeBlocks \in [Groups -> 0 .. BPG] /\ bgFreeInodes \in [Groups -> 0 .. BPG]
    /\ sFreeInodes \in 0 .. NBlocks
    /\ blkOwners \in [BlockNos -> 0 .. MaxOwners]
    /\ inoOwners \in [InoNos -> 0 .. MaxOwners]

(* AllocVNode hands out exactly the inode whose bit it sets: every inode  *)
(* has at most one holder, and it has one exactly when its bit is set in *)
(* the inode bitmap (inode 0, which no bit names, has none), whatever     *)
(* sequence of allocations, failed reads and deletions came before.       *)
InodeOwnersMatchBitmap ==
    \A n \in InoNos : inoOwners[n] = IF Marked(ibmap, n) THEN 1 ELSE 0

(* The same for AllocBlock and FreeBlock: a block a caller holds is       *)
(* marked in the block bitmap, inside the file system, and held by no one *)
(* else; a clear bit is a block nobody holds.                             *)
BlockOwnersMatchBitmap ==
    \A b \in BlockNos : blkOwners[b] = IF Marked(bbmap, b) THEN 1 ELSE 0

(* The free counters never promise more than the bitmaps have: a group's *)
(* bg_free_blocks_count and bg_free_inodes_count are at most its clear   *)
(* bits, so AllocBlock and AllocVNode never pass a group's counter test  *)
(* on a full bitmap; and s_free_inodes_count is the sum of the groups'.  *)
FreeCountsSound ==
    /\ \A i \in Groups : bgFreeBlocks[i] <= FreeCount(bbmap)[i]
    /\ \A i \in Groups : bgFreeInodes[i] <= FreeCount(ibmap)[i]
    /\ sFreeInodes = SumFunction(bgFreeInodes)

(* An AllocBlock whose bitmap reads all succeed fails only when no block  *)
(* is free: freed blocks can be allocated again.                          *)
AllocBlockFailsOnlyWhenFull ==
    ret # NIL /\ ret.op = "AllocBlock" /\ ret.val = NIL /\ ret.io
        => \A b \in 2 .. NBlocks : Marked(bbmap, b)
=============================================================================
