--------------------------------- MODULE Vfs ---------------------------------
(***************************************************************************)
(* The VFS of src/sys/fs/vfs.cpp over the ext2 vnodes of                   *)
(* src/sys/fs/ext2_vnode.cpp and the pin maps of src/sys/fs/ext2_mount.cpp: *)
(* Open, Close, Mount, Unmount, Touch, MkDir, Remove and Unlink, with the  *)
(* path handling they rely on (VFS::DecomposePath, Ext2VNode::Lookup and   *)
(* GetDirEntry), the directory updates under them (Ext2Mount::AllocVNode,  *)
(* Ext2VNode::InitializeDir, MakeDirEntry, Remove) and the ds::String      *)
(* operations they use.                                                    *)
(*                                                                         *)
(* A directory is its records in disk order, each tagged with the block   *)
(* of the directory that holds it, and its i_size in blocks.  A block no   *)
(* record was ever written to reads as zeros (a freshly made file system). *)
(* The inode copies of the instances are taken to agree with the disk.    *)
(*                                                                         *)
(* A ds::String is modelled as its chars_ array: len_ bytes, the last of   *)
(* them normally NUL.  Len() is len_ (it counts the NUL), the const        *)
(* operator[] reads NUL outside 0 .. len_-1, and Substr copies bytes       *)
(* through a raw pointer, so it can read the heap byte after the array:    *)
(* that byte is an input of the call, NUL or not.                          *)
(*                                                                         *)
(* A vnode instance is the pinned instance of an inode (the one            *)
(* pinned_vnodes_ holds), a fresh instance ReadVNode made for this call,   *)
(* the VFS's root_, or the root of a mounted filesystem.  Only an          *)
(* instance that outlives the call can carry a mount overlay (mnts_):      *)
(* ovl[i] and olen[i] are the mnts_ entries and num_entries_ of the        *)
(* instance that stays, the pinned one for an inode of the root            *)
(* filesystem.  When an inode leaves the pin map its instance is leaked    *)
(* (HashMap::Delete does not destroy values) and the next lookup gets a    *)
(* fresh instance with an empty overlay.                                   *)
(***************************************************************************)
EXTENDS Integers, Sequences, FiniteSets

CONSTANTS
    RootIno,      \* ReadRootDir's inode 2 of the root filesystem
    Inos,         \* inode numbers of the root filesystem
    MRoots,       \* the root inode of each Ext2Mount that Mount may create
    Paths,        \* path arguments of the calls: C strings (no NUL)
    InitDirents,  \* the on-disk directory records of Inos
    InitLinks,    \* i_links_count of Inos
    Handles,      \* FileHandle objects a caller may hold at once
    MaxPins,      \* bound on num_pins_
    MaxOpen,      \* bound on open_handles_ counts
    FreeInos,     \* inodes clear in the inode bitmap
    InitSize      \* i_size of Inos, in blocks

VARIABLES
    dirents,   \* dirents[d]: the records of directory d in disk order
    links,     \* i_links_count as on disk
    pins,      \* num_pins_ (0: not in pinned_vnodes_)
    ovl,       \* ovl[i]: the mnts_ of i's lasting instance, key |-> mount root
    olen,      \* its num_entries_
    mounted,   \* the Ext2Mount objects created so far, by root inode
    handles,   \* handles[h]: FileHandle h's inode, path_ and valid_, or NoHandle
    opens,     \* open_handles_: path |-> count
    fault,     \* an out-of-range inode was read (ReadVNode/ReadINode of 0)
    ifree,     \* inodes AllocVNode may still hand out
    dsize,     \* i_size of each inode, in blocks
    hung       \* a call is stuck in MakeDirEntry's record walk

vars == <<dirents, links, pins, ovl, olen, mounted, handles, opens, fault,
          ifree, dsize, hung>>

NONE == 0
NUL == "nul"
SLASH == "/"
AllInos == Inos \cup MRoots

----------------------------------------------------------------------------
(* ds::String                                                              *)

(* BaseString(const char *str): the characters and a NUL.                 *)
FromC(s) == Append(s, NUL)

(* The const operator[].                                                   *)
At(s, i) == IF 0 <= i /\ i < Len(s) THEN s[i + 1] ELSE NUL

(* chars_[i] read through a raw pointer: past the array it is the heap    *)
(* byte jb.                                                                *)
Raw(s, i, jb) == IF i < Len(s) THEN s[i + 1] ELSE jb

(* BaseString(const char *str, size_t len).                               *)
FromBytes(s, start, n, jb) ==
    LET b == [k \in 1 .. n |-> Raw(s, start + k - 1, jb)]
    IN  IF n = 0 THEN <<NUL>>
        ELSE IF b[n] = NUL THEN b ELSE Append(b, NUL)

(* Substr(start, end) for start, end >= 0.                                 *)
Substr(s, start, end, jb) ==
    IF end = start THEN <<NUL>> ELSE FromBytes(s, start, end - start, jb)

(* The C string ToChars() points to: the bytes before the first NUL.      *)
CStr(s) ==
    LET nul == {k \in 1 .. Len(s) : s[k] = NUL}
    IN  IF nul = {} THEN s
        ELSE SubSeq(s, 1, (CHOOSE k \in nul : \A j \in nul : k <= j) - 1)

(* strncmp(x, y, n) = 0 for a C string x and n bytes y.                   *)
CAt(x, k) == IF k <= Len(x) THEN x[k] ELSE NUL
StrnEqual(x, y, n) ==
    \A k \in 1 .. n :
        (\A j \in 1 .. k - 1 : CAt(x, j) # NUL) => CAt(x, k) = CAt(y, k)

(* operator== : equal len_, then strncmp over len_.                       *)
StrEq(a, b) == Len(a) = Len(b) /\ StrnEqual(CStr(a), CStr(b), Len(a))

----------------------------------------------------------------------------
(* Directories and lookup                                                  *)

(* A directory record: name bytes (no NUL), inode and block; Remove's     *)
(* tombstone keeps name_len and zeroes the name bytes and the inode.       *)
Tombstone(e) == [e EXCEPT !.name = [k \in DOMAIN @ |-> NUL], !.ino = 0]

(* GetDirEntry: the first record whose name_len bytes strncmp-match the    *)
(* name; only directories have records.  0 when none does.                 *)
GetDirEntry(d, name) ==
    LET es == IF d \in Inos THEN dirents[d] ELSE <<>>
        ms == {k \in DOMAIN es :
                 StrnEqual(CStr(name), es[k].name, Len(es[k].name))}
    IN  IF ms = {} THEN 0 ELSE CHOOSE k \in ms : \A j \in ms : k <= j

(* The mnts_ of an instance: only the pinned instance of an inode keeps    *)
(* one between calls.                                                      *)
Overlay(i, pinned) == IF pinned THEN ovl[i] ELSE {}

(* Ext2Mount::Unpin.                                                       *)
Unpin(p, i) == IF p[i] > 0 THEN [p EXCEPT ![i] = @ - 1] ELSE p

(* Ext2Mount::Pin of an instance: a mount root reports its own inode 2.   *)
InoOf(i) == IF i \in MRoots THEN RootIno ELSE i
Pin(p, i) == [p EXCEPT ![InoOf(i)] = @ + 1]

(* The first index at or after start holding '/', or len_.                *)
SegmentEnd(name, start) ==
    CHOOSE l \in start .. Len(name) :
        /\ l = Len(name) \/ At(name, l) = SLASH
        /\ \A j \in start .. l - 1 : At(name, j) # SLASH

(* Ext2Mount::GetVNode: the pinned instance, counting a pin, or a fresh   *)
(* one from ReadVNode, which for inode 0 indexes the group table with     *)
(* (0 - 1) / s_inodes_per_group.                                           *)
ReadsBadInode(c) == c = 0
GetVNode(c, p) ==
    [fault  |-> ReadsBadInode(c),
     pinned |-> ~ReadsBadInode(c) /\ p[c] > 0,
     p      |-> IF ~ReadsBadInode(c) /\ p[c] > 0 THEN [p EXCEPT ![c] = @ + 1] ELSE p]

Failed(p) == [ok |-> FALSE, ino |-> NONE, pinned |-> FALSE, p |-> p, fault |-> FALSE]
Faulted(p) == [Failed(p) EXCEPT !.fault = TRUE]

(* Ext2VNode::Lookup on instance (d, pinned) of a name, with pin counts p *)
(* and the heap byte jb past the name: the result instance, the pin        *)
(* counts GetVNode left behind, and whether inode 0 was read.              *)
RECURSIVE Lookup(_, _, _, _, _)
Lookup(d, pinned, name, jb, p) ==
    LET start == IF At(name, 0) = SLASH THEN 1 ELSE 0
        len   == SegmentEnd(name, start)
        child == Substr(name, start, len + 1, jb)
        rem   == Substr(name, len, Len(name), jb)
        k     == GetDirEntry(d, child)
        mnts  == {e \in Overlay(d, pinned) : StrEq(e[1], child)}
        Found(c, cp, p2) ==
            IF StrEq(rem, FromC(<<>>)) \/ StrEq(rem, FromC(<<SLASH>>))
            THEN [ok |-> TRUE, ino |-> c, pinned |-> cp, p |-> p2, fault |-> FALSE]
            ELSE Lookup(c, cp, rem, jb, p2)
    IN  IF k # 0
        THEN LET c == dirents[d][k].ino
                 g == GetVNode(c, p)
             IN  IF g.fault THEN Faulted(p) ELSE Found(c, g.pinned, g.p)
        ELSE IF mnts # {} THEN Found((CHOOSE e \in mnts : TRUE)[2], FALSE, p)
        ELSE Failed(p)

(* Ext2VNode::LookupAndPin: Lookup, then Pin of the result.               *)
LookupAndPin(d, name, jb, p) ==
    LET r == Lookup(d, FALSE, name, jb, p)
    IN  IF r.ok THEN [r EXCEPT !.p = Pin(r.p, r.ino)] ELSE r

(* VFS::FindVNode with create false and pin true.                         *)
FindVNode(name, jb) == LookupAndPin(RootIno, name, jb, pins)

(* VFS::DecomposePath.                                                     *)
DecomposePath(s) ==
    LET slashes == {j \in 0 .. Len(s) : At(s, j) = SLASH}
        i == IF slashes = {} THEN -1
             ELSE CHOOSE j \in slashes : \A l \in slashes : l <= j
    IN  [dir |-> Substr(s, 0, i + 1, NUL), file |-> Substr(s, i + 1, Len(s), NUL)]

----------------------------------------------------------------------------
(* The VFS calls                                                           *)

Junk == {NUL, "junk"}
NoHandle == [ino |-> NONE, path |-> <<>>, valid |-> FALSE]

Init ==
    /\ dirents = InitDirents
    /\ links = InitLinks
    /\ pins = [i \in AllInos |-> 0]
    /\ ovl = [i \in AllInos |-> {}]
    /\ olen = [i \in AllInos |-> 0]
    /\ mounted = {}
    /\ handles = [h \in Handles |-> NoHandle]
    /\ opens = [q \in Paths |-> 0]
    /\ fault = FALSE
    /\ ifree = FreeInos
    /\ dsize = InitSize
    /\ hung = FALSE

(* The pin counts a call leaves; an inode that leaves the pin map takes    *)
(* its instance's mnts_ with it.  Calls that would pass MaxPins are not    *)
(* explored.                                                               *)
Commit(p, o, ol) ==
    /\ \A i \in AllInos : p[i] <= MaxPins
    /\ pins' = p
    /\ ovl' = [i \in AllInos |-> IF p[i] = 0 THEN {} ELSE o[i]]
    /\ olen' = [i \in AllInos |-> IF p[i] = 0 THEN 0 ELSE ol[i]]

(* A call whose path lookup failed: GetVNode's counts stay.               *)
LookupFailed(r) ==
    /\ Commit(r.p, ovl, olen)
    /\ fault' = (fault \/ r.fault)
    /\ UNCHANGED <<dirents, links, mounted, handles, opens, ifree, dsize, hung>>

(* How far a creating call gets: "alloc", AllocVNode finds no inode (an   *)
(* inode bitmap read fails); "init", InitializeDir gets no block or        *)
(* buffer; "initwrite", its WriteBlock fails after i_size and the link     *)
(* were set in memory; "entry", MakeDirEntry's GetOrCreateBlock,           *)
(* ReadBlock or WriteBlock fails.                                          *)
IoOutcomes == {"ok", "alloc", "init", "initwrite", "entry"}

(* Ext2Mount::AllocVNode: the lowest clear bit of the inode bitmap.       *)
AllocVNode(io) ==
    IF io = "alloc" \/ ifree = {} THEN NONE
    ELSE CHOOSE c \in ifree : \A x \in ifree : c <= x

(* Ext2VNode::InitializeDir of new directory c in parent d: block 0 with  *)
(* "." and "..", i_size one block, and the second link.                    *)
InitializeDir(c, d, io) ==
    CASE io = "init"      -> [recs |-> <<>>, size |-> 0, links |-> 1]
      [] io = "initwrite" -> [recs |-> <<>>, size |-> 1, links |-> 2]
      [] OTHER -> [recs |-> <<[name |-> <<".">>, ino |-> c, blk |-> 0],
                              [name |-> <<".", ".">>, ino |-> d, blk |-> 0]>>,
                   size |-> 1, links |-> 2]

(* The name bytes MakeDirEntry keeps: name_len is name.Len() - 1.         *)
EntryName(file) == SubSeq(file, 1, Len(file) - 1)

(* Ext2VNode::MakeDirEntry(name, c) into directory d over directories dn  *)
(* and sizes sz.  It works on block i_size / block_size - 1 and, when it  *)
(* succeeds, adds a whole block to i_size.  A block holding records has room *)
(* after its last one (names are short); the new record's rec_len is then  *)
(* set to the block size, reaching past the block.  In a zeroed block the   *)
(* first rec_len is 0: the walk never advances and the call never returns. *)
MakeDirEntry(d, file, c, io, dn, sz) ==
    LET last == sz[d] - 1
    IN  CASE io = "entry" -> [res |-> "fail", dn |-> dn, sz |-> sz]
          [] \E k \in DOMAIN dn[d] : dn[d][k].blk = last ->
               [res |-> "ok", sz |-> [sz EXCEPT ![d] = @ + 1],
                dn  |-> [dn EXCEPT ![d] = Append(@,
                           [name |-> EntryName(file), ino |-> c, blk |-> last])]]
          [] OTHER -> [res |-> "hang", dn |-> dn, sz |-> sz]

(* Ext2VNode::Touch (isDir FALSE) and MkDir (isDir TRUE) on directory d:  *)
(* AllocVNode, Prealloc (blocks are not modelled), InitializeDir for a     *)
(* directory, the new inode's WriteBack, MakeDirEntry, and for MkDir the  *)
(* parent's extra link.  A failure after AllocVNode leaks the inode.       *)
CreateIn(d, file, io, isDir) ==
    LET c    == AllocVNode(io)
        init == InitializeDir(c, d, io)
        dn   == IF isDir THEN [dirents EXCEPT ![c] = init.recs] ELSE dirents
        sz   == IF isDir THEN [dsize EXCEPT ![c] = init.size] ELSE dsize
        ln   == [links EXCEPT ![c] = IF isDir THEN init.links ELSE 1]
        m    == MakeDirEntry(d, file, c, io, dn, sz)
    IN  IF c = NONE
        THEN [ok |-> FALSE, hang |-> FALSE, ino |-> NONE, dirents |-> dirents,
              links |-> links, ifree |-> ifree, dsize |-> dsize]
        ELSE [ok |-> m.res = "ok", hang |-> m.res = "hang", ino |-> c,
              dirents |-> m.dn, dsize |-> m.sz, ifree |-> ifree \ {c},
              links |-> IF isDir /\ m.res = "ok"
                        THEN [ln EXCEPT ![d] = (@ + 1) % 65536] ELSE ln]

(* A create on the instance r returned: a parent of the root file system *)
(* whose i_size is not 0 (a regular file as parent is not explored).      *)
(* GetVNode's pin counts stay; the parent's RefCntPtr goes unpinned.       *)
Create(r, t) ==
    /\ r.ino \in Inos /\ dsize[r.ino] > 0
    /\ dirents' = t.dirents /\ links' = t.links /\ ifree' = t.ifree
    /\ dsize' = t.dsize /\ hung' = t.hang
    /\ Commit(r.p, ovl, olen)
    /\ UNCHANGED <<mounted, fault>>

(* root_ itself, which FindVNode takes as the parent of "/x".             *)
RootDir == [ok |-> TRUE, ino |-> RootIno, pinned |-> FALSE, p |-> pins, fault |-> FALSE]

(* VFS::Open: FindVNode, then the count of open_handles_ and a valid      *)
(* FileHandle.  Without create, FindVNode is root_->LookupAndPin; with     *)
(* create, it is the parent's Touch of the basename (no lookup of the file *)
(* itself, and no pin), the parent being root_ for a path in "/".          *)
Open(h, path, create, jb, io) ==
    LET d  == DecomposePath(FromC(path))
        r  == IF ~create THEN FindVNode(FromC(path), jb)
              ELSE IF StrEq(d.dir, FromC(<<SLASH>>)) THEN RootDir
              ELSE Lookup(RootIno, FALSE, d.dir, jb, pins)
        t  == CreateIn(r.ino, d.file, io, FALSE)
        ok == IF create THEN t.ok ELSE TRUE
        ino == IF create THEN t.ino ELSE r.ino
    IN  /\ handles[h] = NoHandle
        /\ opens[path] < MaxOpen
        /\ IF ~r.ok THEN LookupFailed(r)
           ELSE /\ IF create THEN Create(r, t)
                   ELSE /\ Commit(r.p, ovl, olen)
                        /\ UNCHANGED <<dirents, links, mounted, fault, ifree, dsize, hung>>
                /\ IF ok
                   THEN /\ handles' = [handles EXCEPT ![h] = [ino |-> ino, path |-> path, valid |-> TRUE]]
                        /\ opens' = [opens EXCEPT ![path] = @ + 1]
                   ELSE UNCHANGED <<handles, opens>>

(* VFS::Touch and VFS::MkDir: Lookup of the parent, then its Touch or     *)
(* MkDir of the basename.                                                  *)
MakeNode(path, jb, io, isDir) ==
    LET d == DecomposePath(FromC(path))
        r == Lookup(RootIno, FALSE, d.dir, jb, pins)
    IN  IF ~r.ok THEN LookupFailed(r)
        ELSE /\ Create(r, CreateIn(r.ino, d.file, io, isDir))
             /\ UNCHANGED <<handles, opens>>
Touch(path, jb, io) == MakeNode(path, jb, io, FALSE)
MkDir(path, jb, io) == MakeNode(path, jb, io, TRUE)

(* FileHandle::SuspendIO: valid_ false and the vnode's Unpin.             *)
SuspendIO(h) ==
    /\ handles' = [handles EXCEPT ![h].valid = FALSE]
    /\ Commit(Unpin(pins, handles[h].ino), ovl, olen)

(* VFS::Close: SuspendIO, whether or not the handle was valid.            *)
Close(h) ==
    /\ handles[h] # NoHandle
    /\ SuspendIO(h)
    /\ UNCHANGED <<dirents, links, mounted, opens, fault, ifree, dsize, hung>>

(* The caller drops a closed FileHandle: ~RefCntPtr frees an object whose *)
(* count reaches 0 without running its destructor, and the reference the *)
(* pin map took is never released: the pins are untouched.               *)
DropHandle(h) ==
    /\ handles[h] # NoHandle
    /\ ~handles[h].valid
    /\ handles' = [handles EXCEPT ![h] = NoHandle]
    /\ UNCHANGED <<dirents, links, pins, ovl, olen, mounted, opens, fault, ifree, dsize, hung>>

(* GetRootVNode: a new Ext2Mount for a partition of the ESP type.         *)
GetRootVNode(isExt2) == isExt2

(* Ext2VNode::Mount: mnts_.Insert, which fails on a key already present. *)
VNodeMount(i, key, m) ==
    IF \E e \in ovl[i] : StrEq(e[1], key)
    THEN <<ovl, olen>>
    ELSE <<[ovl EXCEPT ![i] = @ \cup {<<key, m>>}], [olen EXCEPT ![i] = @ + 1]>>

(* Ext2VNode::Unmount (mnts_.Delete, num_entries_ untouched) and          *)
(* GetNumMounts (num_entries_).                                            *)
VNodeUnmount(i, pinned, key) ==
    [ovl EXCEPT ![i] = @ \ {e \in Overlay(i, pinned) : StrEq(e[1], key)}]
GetNumMounts(i) == olen[i]

(* VFS::Mount: LookupAndPin of the parent, GetNthPartition (partOk),      *)
(* GetRootVNode (isExt2: the ESP type GUID), a new Ext2Mount, and          *)
(* mnt_parent->Mount, whose Insert result is ignored.                      *)
Mount(path, partOk, isExt2, jb) ==
    LET d  == DecomposePath(FromC(path))
        r  == LookupAndPin(RootIno, d.dir, jb, pins)
    IN  IF ~r.ok THEN LookupFailed(r)
        ELSE IF ~(partOk /\ GetRootVNode(isExt2))
        THEN /\ Commit(r.p, ovl, olen)
             /\ UNCHANGED <<dirents, links, mounted, handles, opens, fault, ifree, dsize, hung>>
        ELSE \E m \in MRoots \ mounted :
             LET o == VNodeMount(InoOf(r.ino), d.file, m)
             IN  /\ mounted' = mounted \cup {m}
                 /\ Commit(r.p, o[1], o[2])
             /\ UNCHANGED <<dirents, links, handles, opens, fault, ifree, dsize, hung>>

(* VFS::Unmount: Lookup of the parent, mnts_.Delete, and Unpin when       *)
(* GetNumMounts() (num_entries_) is 0.                                     *)
Unmount(path, jb) ==
    LET d  == DecomposePath(FromC(path))
        r  == Lookup(RootIno, FALSE, d.dir, jb, pins)
        o2 == VNodeUnmount(r.ino, r.pinned, d.file)
    IN  IF ~r.ok THEN LookupFailed(r)
        ELSE /\ IF o2 = ovl THEN Commit(r.p, ovl, olen)
                ELSE IF GetNumMounts(r.ino) = 0 THEN Commit(Unpin(r.p, r.ino), o2, olen)
                ELSE Commit(r.p, o2, olen)
             /\ UNCHANGED <<dirents, links, mounted, handles, opens, fault, ifree, dsize, hung>>

(* Ext2VNode::Link(file, c) on directory d: MakeDirEntry, and the source *)
(* vnode's WriteBack; i_links_count is left as it was.                     *)
LinkIn(d, file, c, io) ==
    LET m == MakeDirEntry(d, file, c, io, dirents, dsize)
    IN  [ok |-> m.res = "ok", hang |-> m.res = "hang", dirents |-> m.dn,
         dsize |-> m.sz, links |-> links, ifree |-> ifree]

(* VFS::Link: FindVNode(name) without pin (root_->Lookup), the target's  *)
(* parent, then its Link, whose GetVNode of the inode counts a pin when    *)
(* that inode is pinned.                                                   *)
Link(name, target, jb, io) ==
    LET s == Lookup(RootIno, FALSE, FromC(name), jb, pins)
        d == DecomposePath(FromC(target))
        r == Lookup(RootIno, FALSE, d.dir, jb, s.p)
        g == GetVNode(s.ino, r.p)
    IN  IF ~s.ok THEN LookupFailed(s)
        ELSE IF ~r.ok THEN LookupFailed(r)
        ELSE /\ s.ino \in Inos
             /\ Create([r EXCEPT !.p = g.p], LinkIn(r.ino, d.file, s.ino, io))
             /\ UNCHANGED <<handles, opens>>

(* Ext2VNode::SymLink(file) on directory d: AllocVNode, the target path   *)
(* stored inline in i_block (every path here is shorter than 60 bytes),    *)
(* and MakeDirEntry.  Nothing writes the new inode back, so on disk it     *)
(* keeps the link count it had while free.                                 *)
SymLinkIn(d, file, io) == [CreateIn(d, file, io, FALSE) EXCEPT !.links = links]

(* VFS::SymLink: the target's parent, then its SymLink.                   *)
SymLink(target, jb, io) ==
    LET d == DecomposePath(FromC(target))
        r == Lookup(RootIno, FALSE, d.dir, jb, pins)
    IN  IF ~r.ok THEN LookupFailed(r)
        ELSE /\ Create(r, SymLinkIn(r.ino, d.file, io))
             /\ UNCHANGED <<handles, opens>>

(* ~Ext2VNode of Remove's stack vnode: WriteBack, then Unpin(ino_).       *)
DestroyVNode(p, c) == Unpin(p, c)

(* Ext2VNode::Remove on directory i with pin counts p: tombstone the      *)
(* first matching record, decrement the child's i_links_count (uint16;    *)
(* freeing its blocks at 0 is not modelled), and destroy the stack vnode. *)
(* A child_ino of 0 makes its constructor read inode 0.  The WriteBlock  *)
(* of the directory block is taken to succeed: its false return, after    *)
(* which the tombstone is in the dropped buffer only, is not modelled.    *)
RemoveEntry(i, name, p) ==
    LET k == GetDirEntry(i, name)
        c == dirents[i][k].ino
    IN  IF k = 0
        THEN /\ Commit(p, ovl, olen)
             /\ UNCHANGED <<dirents, links, fault>>
        ELSE /\ dirents' = [dirents EXCEPT ![i][k] = Tombstone(@)]
             /\ IF ReadsBadInode(c)
                THEN /\ fault' = TRUE
                     /\ Commit(p, ovl, olen)
                     /\ UNCHANGED links
                ELSE /\ links' = [links EXCEPT ![c] = (@ - 1) % 65536]
                     /\ Commit(DestroyVNode(p, c), ovl, olen)
                     /\ UNCHANGED fault

(* VFS::Remove: Lookup of the parent, then its Remove of the basename.   *)
Remove(path, jb) ==
    LET d == DecomposePath(FromC(path))
        r == Lookup(RootIno, FALSE, d.dir, jb, pins)
    IN  IF ~r.ok THEN LookupFailed(r)
        ELSE /\ RemoveEntry(r.ino, d.file, r.p)
             /\ UNCHANGED <<mounted, handles, opens, ifree, dsize, hung>>

(* VFS::Unlink: Ext2VNode::Unlink is Remove of the target's basename.     *)
Unlink(target, jb) == Remove(target, jb)

Next ==
    /\ ~hung
    /\ \/ \E jb \in Junk, q \in Paths :
           \/ \E h \in Handles, create \in BOOLEAN, io \in IoOutcomes :
                 Open(h, q, create, jb, io)
           \/ \E partOk, isExt2 \in BOOLEAN : Mount(q, partOk, isExt2, jb)
           \/ Unmount(q, jb)
           \/ \E io \in IoOutcomes \ {"init", "initwrite"} : Touch(q, jb, io)
           \/ \E io \in IoOutcomes : MkDir(q, jb, io)
           \/ \E q2 \in Paths, io \in {"ok", "entry"} : Link(q, q2, jb, io)
           \/ \E io \in {"ok", "alloc", "entry"} : SymLink(q, jb, io)
           \/ Remove(q, jb)
           \/ Unlink(q, jb)
       \/ \E h \in Handles : Close(h) \/ DropHandle(h)

Spec == Init /\ [][Next]_vars

====
