-------------------------------- MODULE MCVfs --------------------------------
(***************************************************************************)
(* Model-checking harness for Vfs: a root directory with entries "a" and   *)
(* "ab", a directory /a holding the directory "m", two free inodes, and   *)
(* paths that name them the ways the calls take them.  Each directory has  *)
(* its "." and ".." in block 0 and an i_size of one block.                 *)
(***************************************************************************)
EXTENDS Vfs

MCInos == {2, 11, 12, 13, 14, 15}
MCFree == {14, 15}
MCMRoots == {21, 22}

(* "/a", "/ab", "/a/", "/a/m" and "/a/b".                                  *)
MCPaths == {<<"/", "a">>, <<"/", "a", "b">>, <<"/", "a", "/">>,
            <<"/", "a", "/", "m">>, <<"/", "a", "/", "b">>}

Rec(n, i) == [name |-> n, ino |-> i, blk |-> 0]
MCDirents ==
    [i \in MCInos |->
        CASE i = 2  -> <<Rec(<<".">>, 2), Rec(<<".", ".">>, 2),
                         Rec(<<"a">>, 11), Rec(<<"a", "b">>, 12)>>
          [] i = 11 -> <<Rec(<<".">>, 11), Rec(<<".", ".">>, 2), Rec(<<"m">>, 13)>>
          [] i = 13 -> <<Rec(<<".">>, 13), Rec(<<".", ".">>, 11)>>
          [] OTHER  -> <<>>]
MCSize == [i \in MCInos |-> IF i \in {2, 11, 13} THEN 1 ELSE 0]

(* Links counted as ext2 counts them: a directory's entry, its "." and    *)
(* the ".." of each subdirectory.                                          *)
MCLinks == [i \in MCInos |-> CASE i = 2 -> 3 [] i = 11 -> 3 [] i = 12 -> 1
                                [] i = 13 -> 2 [] OTHER -> 0]

Chars == {NUL, SLASH, ".", "a", "b", "m", "junk"}

TypeOK ==
    /\ \A d \in Inos : \A k \in DOMAIN dirents[d] :
          dirents[d][k].ino \in Inos \cup {0}
    /\ links \in [Inos -> 0 .. 65535]
    /\ pins \in [AllInos -> 0 .. MaxPins]
    /\ \A i \in AllInos : ovl[i] \subseteq Seq(Chars) \X MRoots
    /\ olen \in [AllInos -> 0 .. Cardinality(MRoots)]
    /\ mounted \subseteq MRoots
    /\ \A h \in Handles : handles[h] = NoHandle \/
          (handles[h].ino \in AllInos /\ handles[h].path \in Paths)
    /\ opens \in [Paths -> 0 .. MaxOpen]
    /\ fault \in BOOLEAN
    /\ ifree \subseteq FreeInos
    /\ dsize \in [Inos -> 0 .. 3]
    /\ hung \in BOOLEAN

(* A mounted filesystem shadows the parent's entry of the same name: a    *)
(* path whose parent resolves to a vnode with an overlay entry for its    *)
(* non-empty basename resolves to that mount's root (spec 3, VNode invariant (a);   *)
(* test 8(e)).  Lookup checks the directory first and compares the        *)
(* overlay keys, made by DecomposePath, with its own child strings.       *)
MountShadows ==
    \A q \in Paths, jb \in Junk :
        LET d == DecomposePath(FromC(q))
            r == Lookup(RootIno, FALSE, d.dir, jb, pins)
        IN  \A e \in Overlay(r.ino, r.pinned) :
                CStr(d.file) # <<>> /\ StrEq(e[1], d.file) =>
                    LET s == Lookup(RootIno, FALSE, FromC(q), jb, pins)
                    IN  s.ok /\ s.ino = e[2]

(* An inode is in the pin map exactly while something holds it: a valid  *)
(* FileHandle (Close drops one pin) or a mount overlay on its vnode       *)
(* (spec 3, VNode invariant (b); 4.5 pin/unpin).  Lookup's GetVNode adds  *)
(* pins nobody releases, Unmount tests num_entries_, and Remove's stack   *)
(* vnode releases a pin it never took.                                     *)
PinnedIffHeld ==
    \A i \in Inos :
        pins[i] > 0 <=>
            \/ \E h \in Handles : handles[h].valid /\ handles[h].ino = i
            \/ ovl[i] # {}

(* No call reads inode 0 (ReadVNode/ReadINode index the group table with  *)
(* (0 - 1) / inodes_per_group).                                            *)
NoFault == ~fault

(* Every insertion of a directory entry returns (spec 7, directory        *)
(* operations: an entry goes into the last block's slack, or a new block). *)
(* MakeDirEntry adds a block to i_size on every insertion, so the next one *)
(* in the same directory walks a block nothing was written to, whose       *)
(* first rec_len is 0.                                                     *)
MakeDirEntryReturns == ~hung

(* Every inode a live directory entry names has a positive link count on  *)
(* disk, so Remove frees an inode only when no entry is left (spec 7:     *)
(* hard link increments i_links_count, unlink frees the inode at zero).    *)
(* Ext2VNode::Link adds an entry without counting it, and SymLink never    *)
(* writes its new inode back.                                              *)
NoDanglingEntry ==
    \A d \in Inos : \A k \in DOMAIN dirents[d] :
        dirents[d][k].ino # 0 => links[dirents[d][k].ino] > 0

====
