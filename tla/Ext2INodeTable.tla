---------------------------- MODULE Ext2INodeTable ----------------------------
(***************************************************************************)
(* The inode table of one ext2 block group, and the two ways Ext2Mount     *)
(* (src/sys/fs/ext2_mount.cpp) reaches it.                                 *)
(*  - ReadINode and WriteINode read the table block that holds the inode  *)
(*    straight from the disk (ReadBlock); WriteINode patches the inode    *)
(*    and writes the block back (WriteBlock).  Ext2VNode's constructor     *)
(*    and Ext2VNode::WriteBack use them.                                   *)
(*  - ReadVNode (GetVNode of an unpinned inode, ReadRootDir) copies the    *)
(*    inode out of ReadINodeTable's DiskMem, read once from the disk and   *)
(*    then kept in inode_tab_cache_.                                       *)
(* DiskMem (src/sys/disk_mem.h) is a RefCntPtr to the sectors it read, and *)
(* the destructor of every copy writes those sectors back.  ds::Optional   *)
(* destroys its value, so each ReadVNode writes the cached sectors back.  *)
(*                                                                         *)
(* An inode's contents are a version: a caller that changed its copy       *)
(* writes a new one.  The cached table holds the first TabLen(used)        *)
(* inodes, used being s_inodes_per_group - bg_free_inodes_count when it    *)
(* is read.  The inode bitmap goes through inode_bmap_cache_, whose copies *)
(* share one buffer, so it is one value.  With one group, Insert into      *)
(* inode_tab_cache_ happens only on an empty cache, and Evict(1) finds     *)
(* nothing to evict.  The disk is SATAPort's Read/Write, a plain array of *)
(* sectors (run sector_cache).                                             *)
(***************************************************************************)
EXTENDS Naturals, FiniteSetsExt

CONSTANTS
    IPG,        \* s_inodes_per_group
    PerBlock,   \* inodes per table block: block_size_ / s_inode_size
    InitUsed,   \* inodes 1 .. InitUsed are in use at mount
    MaxVer,     \* bound on the versions callers write
    NIL

Ino == 1 .. IPG

VARIABLES
    disk,        \* the table on disk: ino -> version (0 as mkfs left it)
    tab,         \* inode_tab_cache_'s entry: NIL, or the inodes it read
    bmap,        \* the inode bitmap: the inodes in use
    bmapCached,  \* inode_bmap_cache_ holds the bitmap
    freeCount,   \* bg_free_inodes_count
    ver,         \* the last version a caller wrote
    last,        \* ghost: ino -> what the latest successful WriteINode stored
    got,         \* ghost: the latest inode read, [ino, val, want], or NIL
    overrun      \* ghost: a ReadVNode indexed past the table's buffer

vars == <<disk, tab, bmap, bmapCached, freeCount, ver, last, got, overrun>>

(* ReadINodeTable's size: tab_size = used * s_inode_size bytes, rounded   *)
(* up to whole blocks; in inodes, whole blocks of PerBlock.               *)
TabLen(used) ==
    (used \div PerBlock + (IF used % PerBlock > 0 THEN 1 ELSE 0)) * PerBlock

(* ReadINodeTable: the cached DiskMem on a hit; on a miss the first       *)
(* TabLen inodes read from the disk (ok: the DiskMem read succeeded), or   *)
(* NullOpt.                                                               *)
ReadINodeTable(ok) ==
    IF tab # NIL THEN tab
    ELSE IF ok THEN [i \in 1 .. TabLen(IPG - freeCount) |-> disk[i]]
    ELSE NIL

(* DiskMem::WriteBack, run by ~DiskMem: its sectors go back to the disk.  *)
WriteBackTable(t) == [i \in Ino |-> IF i \in DOMAIN t THEN t[i] ELSE disk[i]]

(* ReadINode: the inode as the disk holds it.                             *)
ReadINodeOp(n) == disk[n]

(* WriteINode: the inode's block with the inode replaced.                 *)
WriteINodeOp(n, v) == [disk EXCEPT ![n] = v]

(* ReadINodeBitmap: the cached bitmap, or a read of it that succeeds.    *)
ReadINodeBitmap(ok) == bmapCached \/ ok

(* AllocVNode's search: the lowest clear bit; bit 0 (inode 1) excluded.   *)
LowestFree == Min((Ino \ bmap) \ {1})

-----------------------------------------------------------------------------
Init ==
    /\ disk = [i \in Ino |-> 0]
    /\ tab = NIL
    /\ bmap = 1 .. InitUsed
    /\ bmapCached = FALSE
    /\ freeCount = IPG - InitUsed
    /\ ver = 0
    /\ last = [i \in Ino |-> 0]
    /\ got = NIL
    /\ overrun = FALSE

(* ReadVNode(n): the inode at local index n-1 of ReadINodeTable's table,  *)
(* read past the buffer when the table is shorter; then the DiskMem       *)
(* copies of ReadINodeTable and ReadVNode write the table back.           *)
ReadVNode(n, ok) ==
    /\ n \in bmap \ {1}
    /\ LET t == ReadINodeTable(ok)
       IN  IF t = NIL
           THEN /\ got' = NIL
                /\ UNCHANGED <<disk, tab, bmap, bmapCached, freeCount, ver, last, overrun>>
           ELSE /\ tab' = t
                /\ disk' = WriteBackTable(t)
                /\ got' = IF n \in DOMAIN t THEN [ino |-> n, val |-> t[n], want |-> last[n]]
                       ELSE NIL
                /\ overrun' = (overrun \/ n \notin DOMAIN t)
                /\ UNCHANGED <<bmap, bmapCached, freeCount, ver, last>>

(* Ext2VNode(ino, mount), as Remove builds its child: ReadINode.  When   *)
(* the read fails the vnode keeps a zeroed inode; no read is recorded.    *)
ConstructVNode(n, ok) ==
    /\ n \in bmap \ {1}
    /\ got' = IF ok THEN [ino |-> n, val |-> ReadINodeOp(n), want |-> last[n]]
                  ELSE NIL
    /\ UNCHANGED <<disk, tab, bmap, bmapCached, freeCount, ver, last, overrun>>

(* Ext2VNode::WriteBack of a copy its holder changed: WriteINode, which   *)
(* fails when the block's read or write fails.                            *)
WriteBack(n, ok) ==
    /\ n \in bmap \ {1}
    /\ ver < MaxVer
    /\ IF ok
       THEN /\ disk' = WriteINodeOp(n, ver + 1)
            /\ last' = [last EXCEPT ![n] = ver + 1]
            /\ ver' = ver + 1
       ELSE UNCHANGED <<disk, last, ver>>
    /\ UNCHANGED <<tab, bmap, bmapCached, freeCount, got, overrun>>

(* AllocVNode: a group with bg_free_inodes_count > 0, its bitmap, the     *)
(* lowest clear bit set and the counter decremented.  The new inode lives *)
(* in the returned vnode until a WriteBack.                               *)
AllocVNode(ok) ==
    /\ freeCount > 0
    /\ ReadINodeBitmap(ok)
    /\ bmap' = bmap \cup {LowestFree}
    /\ freeCount' = freeCount - 1
    /\ bmapCached' = TRUE
    /\ UNCHANGED <<disk, tab, ver, last, got, overrun>>

Next ==
    \/ \E n \in Ino, ok \in BOOLEAN :
          \/ ReadVNode(n, ok)
          \/ ConstructVNode(n, ok)
          \/ WriteBack(n, ok)
    \/ \E ok \in BOOLEAN : AllocVNode(ok)

Spec == Init /\ [][Next]_vars

-----------------------------------------------------------------------------
TypeOK ==
    /\ disk \in [Ino -> 0 .. MaxVer]
    /\ tab = NIL \/ \E k \in 1 .. IPG : tab \in [1 .. k -> 0 .. MaxVer]
    /\ bmap \subseteq Ino /\ bmapCached \in BOOLEAN
    /\ freeCount \in 0 .. IPG /\ ver \in 0 .. MaxVer
    /\ last \in [Ino -> 0 .. MaxVer]
    /\ got = NIL \/ got \in [ino : Ino, val : 0 .. MaxVer, want : 0 .. MaxVer]
    /\ overrun \in BOOLEAN

(* The inode store is coherent: the disk keeps what the latest WriteINode *)
(* stored, and every inode read, through the table cache (ReadVNode) or   *)
(* the disk (ReadINode), returns what the latest WriteINode before it     *)
(* stored (want).  A DiskMem snapshot read before a write and written     *)
(* back after it breaks both.                                             *)
INodeTableCoherent ==
    /\ \A n \in Ino : disk[n] = last[n]
    /\ got # NIL => got.val = got.want

(* ReadVNode never reads past the cached table: the table read when       *)
(* fewer inodes were in use still covers every inode allocated since.     *)
TableCoversReads == ~overrun
=============================================================================
