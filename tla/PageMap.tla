-------------------------------- MODULE PageMap --------------------------------
(***************************************************************************)
(* The x86-64 page tables of PageMap (src/sys/page_map.cpp): several       *)
(* PageMap objects, each a 4-level tree of page-table frames taken from    *)
(* BuddyAllocator, with Map, MapRange, Unmap, UnmapRange, Remap,           *)
(* RemapRange, the default constructor, the copy constructor, operator=    *)
(* (DeepFree, then DeepCopy) and the destructor (DeepFree).                *)
(*                                                                         *)
(* Addresses are page numbers.  A table has two entries instead of 512:    *)
(* VAddrIndex keeps one bit of the virtual page per level, so virtual      *)
(* pages are 0 .. 15 and every walk still crosses four levels.  An entry   *)
(* is its address and its PRESENT bit; the other flag bits are written     *)
(* with the caller's flags, which after boot are always KERNEL_PAGE, so    *)
(* no property tells them apart.  Physical memory (mem) is every page as   *)
(* a table: a data page or a freed frame keeps what was last written.      *)
(* BuddyAllocator::Allocate does not clear the frame it returns; with       *)
(* ZeroedFrames the model assumes it does (a frame comes back all zero).   *)
(* Which free frame Allocate returns is fixed to the lowest.               *)
(***************************************************************************)
EXTENDS Integers, FiniteSets, FiniteSetsExt, TLC

CONSTANTS
    Maps,          \* PageMap objects
    Buddy,         \* the frames BuddyAllocator hands out
    PAddrs,        \* physical pages callers map (not the buddy's)
    VIn,           \* virtual pages callers pass, a subset of 0 .. 15
    ZeroedFrames,  \* Allocate returns a zeroed frame
    NONE, NIL

Idx2 == {0, 1}
Pages == {0} \cup Buddy \cup PAddrs

VARIABLES
    mem,    \* page -> [Idx2 -> entry]
    free,   \* the buddy's free frames
    root,   \* map -> root_ (a frame), NIL before construction or after ~PageMap
    want,   \* ghost: map -> vaddr -> what the completed calls mapped it to
    ret     \* ghost: the last Remap's outcome, or NIL

vars == <<mem, free, root, want, ret>>

Absent == [a |-> 0, pr |-> FALSE]
ZeroTable == [i \in Idx2 |-> Absent]

(* VAddrIndex(vaddr, level): the index bit of vaddr at level 1 .. 4.      *)
VAddrIndex(v, l) == (v \div 2 ^ (l - 1)) % 2

(* BuddyAllocator::Allocate(FRAME_SIZE): the frame keeps its contents.     *)
Fresh(t) == IF ZeroedFrames THEN ZeroTable ELSE t

Allocate(s) ==
    LET n == Min(s.free)
    IN  [n |-> n, s |-> [s EXCEPT !.mem[n] = Fresh(@), !.free = @ \ {n}]]

(* GetPage: the slot <<table, index>> of vaddr's level-1 entry, following *)
(* PRESENT entries from the root; NIL when one is absent.                 *)
RECURSIVE GetPage(_, _, _, _)
GetPage(m, t, v, l) ==
    IF l = 1 THEN <<t, VAddrIndex(v, 1)>>
    ELSE IF m[t][VAddrIndex(v, l)].pr
         THEN GetPage(m, m[t][VAddrIndex(v, l)].a, v, l - 1)
         ELSE NIL

(* Faulty variant: GetOrCreatePageTable without its PRESENT test.        *)
RECURSIVE CreatePageAlwaysNew(_, _, _, _)
CreatePageAlwaysNew(s, t, v, l) ==
    IF l = 1 THEN [s |-> s, slot |-> <<t, VAddrIndex(v, 1)>>]
    ELSE IF s.free = {} THEN [s |-> s, slot |-> NIL]
    ELSE LET al == Allocate(s)
             s2 == [al.s EXCEPT !.mem[t][VAddrIndex(v, l)] = [a |-> al.n, pr |-> TRUE]]
         IN  CreatePageAlwaysNew(s2, al.n, v, l - 1)

(* CreatePage with GetOrCreatePageTable: an absent entry gets a new frame *)
(* from Allocate (parent[index] = frame | flags); NIL when Allocate fails, *)
(* the tables made so far staying linked.                                 *)
RECURSIVE CreatePage(_, _, _, _)
CreatePage(s, t, v, l) ==
    IF l = 1 THEN [s |-> s, slot |-> <<t, VAddrIndex(v, 1)>>]
    ELSE LET e == s.mem[t][VAddrIndex(v, l)]
         IN  IF e.pr THEN CreatePage(s, e.a, v, l - 1)
             ELSE IF s.free = {} THEN [s |-> s, slot |-> NIL]
             ELSE LET al == Allocate(s)
                      s2 == [al.s EXCEPT !.mem[t][VAddrIndex(v, l)] =
                                             [a |-> al.n, pr |-> TRUE]]
                  IN  CreatePage(s2, al.n, v, l - 1)

(* VAddrToPAddr: the level-1 entry's address, PRESENT or not; 0 when an  *)
(* upper table is absent.                                                 *)
VAddrToPAddr(m, r, v) ==
    LET g == GetPage(m, r, v, 4) IN IF g = NIL THEN 0 ELSE m[g[1]][g[2]].a

(* What the processor translates vaddr to: every level PRESENT.          *)
Translate(m, r, v) ==
    LET g == GetPage(m, r, v, 4)
    IN  IF g # NIL /\ m[g[1]][g[2]].pr THEN m[g[1]][g[2]].a ELSE NONE

(* Map: CreatePage, then *page_table_entry = paddr | flags.  eff is what  *)
(* the call does to the mapping a caller sees.                            *)
MapOp(s, r, p, v) ==
    LET c == CreatePage(s, r, v, 4)
    IN  IF c.slot = NIL THEN [s |-> c.s, ok |-> FALSE, eff |-> <<>>]
        ELSE [s |-> [c.s EXCEPT !.mem[c.slot[1]][c.slot[2]] = [a |-> p, pr |-> TRUE]],
              ok |-> TRUE, eff |-> (v :> p)]

(* Unmap: GetPage, then *page_table_entry = 0 (and invlpg).               *)
UnmapOp(s, r, v) ==
    LET g == GetPage(s.mem, r, v, 4)
    IN  IF g = NIL THEN [s |-> s, ok |-> FALSE, eff |-> <<>>]
        ELSE [s |-> [s EXCEPT !.mem[g[1]][g[2]] = Absent], ok |-> TRUE,
              eff |-> (v :> NONE)]

(* Remap: paddr = VAddrToPAddr(vaddr); Unmap(vaddr); Map(paddr, new);    *)
(* true when both succeed.                                                *)
RemapOp(s, r, v, v2) ==
    LET u  == UnmapOp(s, r, v)
        mp == MapOp(u.s, r, VAddrToPAddr(s.mem, r, v), v2)
    IN  [s |-> mp.s, ok |-> u.ok /\ mp.ok, unmapOk |-> u.ok,
         eff |-> mp.eff @@ u.eff]

(* The range loops: one page at a time, returning false at the first     *)
(* failure and leaving the pages before it done.                         *)
RECURSIVE MapRangeOp(_, _, _, _, _, _)
MapRangeOp(s, r, a, bound, off, eff) ==
    IF a >= bound THEN [s |-> s, ok |-> TRUE, eff |-> eff]
    ELSE LET x == MapOp(s, r, a, a + off)
         IN  IF ~x.ok THEN [x EXCEPT !.eff = eff]
             ELSE MapRangeOp(x.s, r, a + 1, bound, off, x.eff @@ eff)

RECURSIVE UnmapRangeOp(_, _, _, _, _)
UnmapRangeOp(s, r, v, bound, eff) ==
    IF v >= bound THEN [s |-> s, ok |-> TRUE, eff |-> eff]
    ELSE LET x == UnmapOp(s, r, v)
         IN  IF ~x.ok THEN [x EXCEPT !.eff = eff]
             ELSE UnmapRangeOp(x.s, r, v + 1, bound, x.eff @@ eff)

RECURSIVE RemapRangeOp(_, _, _, _, _, _)
RemapRangeOp(s, r, v, bound, off, eff) ==
    IF v >= bound THEN [s |-> s, ok |-> TRUE, eff |-> eff]
    ELSE LET x == RemapOp(s, r, v, v + off)
         IN  IF ~x.ok THEN [s |-> x.s, ok |-> FALSE, eff |-> x.eff @@ eff]
             ELSE RemapRangeOp(x.s, r, v + 1, bound, off, x.eff @@ eff)

(* Faulty variant: the level > 1 test dropped, so the pages level-1      *)
(* entries map are freed as well.                                         *)
RECURSIVE DeepFreeLeaves(_, _, _)
DeepFreeLeaves(s, t, l) ==
    LET s0 == IF s.mem[t][0].pr /\ l > 0 THEN DeepFreeLeaves(s, s.mem[t][0].a, l - 1) ELSE s
        s1 == IF s.mem[t][1].pr /\ l > 0 THEN DeepFreeLeaves(s0, s.mem[t][1].a, l - 1) ELSE s0
    IN  [s1 EXCEPT !.free = @ \cup {t}]

(* DeepFree: the child tables of every PRESENT entry above level 1, then *)
(* the table itself, go back to BuddyAllocator::Free.                     *)
RECURSIVE DeepFree(_, _, _)
DeepFree(s, t, l) ==
    LET sub == IF l = 1 THEN s
               ELSE LET s0 == IF s.mem[t][0].pr THEN DeepFree(s, s.mem[t][0].a, l - 1) ELSE s
                    IN  IF s.mem[t][1].pr THEN DeepFree(s0, s.mem[t][1].a, l - 1) ELSE s0
    IN  [sub EXCEPT !.free = @ \cup {t}]

(* Faulty variant: a shallow copy, the root's entries copied as they are. *)
DeepCopyShallow(s, t, c, l) == [s EXCEPT !.mem[c] = s.mem[t]]

(* DeepCopy(table, copy, level): level 1 is memmove'd; above it every    *)
(* PRESENT entry gets a new frame, copy[i] = frame | flags, copied in     *)
(* turn.  An absent entry of table leaves copy[i] as it was.  Allocate's  *)
(* result is not checked: short is set when it would have failed.         *)
RECURSIVE DeepCopy(_, _, _, _)
DeepCopy(s, t, c, l) ==
    IF l = 1 THEN [s EXCEPT !.mem[c] = s.mem[t]]
    ELSE LET CopyEntry(s1, i) ==
                 IF ~s1.mem[t][i].pr THEN s1
                 ELSE IF s1.free = {} THEN [s1 EXCEPT !.short = TRUE]
                 ELSE LET al == Allocate(s1)
                          s2 == [al.s EXCEPT !.mem[c][i] = [a |-> al.n, pr |-> TRUE]]
                      IN  DeepCopy(s2, s1.mem[t][i].a, al.n, l - 1)
         IN  CopyEntry(CopyEntry(s, 0), 1)

-----------------------------------------------------------------------------
Init ==
    /\ mem = [p \in Pages |-> ZeroTable]
    /\ free = Buddy
    /\ root = [m \in Maps |-> NIL]
    /\ want = [m \in Maps |-> [v \in VIn |-> NONE]]
    /\ ret = NIL

S == [mem |-> mem, free |-> free, short |-> FALSE]

Unmapped == [v \in VIn |-> NONE]

(* The state a call on map m leaves, and its effect on what m maps.      *)
Apply(m, x) ==
    /\ mem' = x.s.mem /\ free' = x.s.free
    /\ want' = [want EXCEPT ![m] = [v \in VIn |-> IF v \in DOMAIN x.eff
                                                 THEN x.eff[v] ELSE @[v]]]

(* PageMap(): root_ = ToHighMem(Allocate(FRAME_SIZE)).  A failed Allocate *)
(* would make the null page the root; only successful ones are taken.    *)
Construct(m) ==
    /\ root[m] = NIL /\ free # {}
    /\ LET al == Allocate(S)
       IN  /\ mem' = al.s.mem /\ free' = al.s.free
           /\ root' = [root EXCEPT ![m] = al.n]
    /\ want' = [want EXCEPT ![m] = Unmapped]
    /\ ret' = NIL

(* ~PageMap: DeepFree(root_, 4).                                          *)
Destroy(m) ==
    /\ root[m] # NIL
    /\ free' = DeepFree(S, root[m], 4).free
    /\ root' = [root EXCEPT ![m] = NIL]
    /\ want' = [want EXCEPT ![m] = Unmapped]
    /\ UNCHANGED mem /\ ret' = NIL

(* A new root from Allocate, then DeepCopy(rhs.root_, root_, 4).         *)
CopyInto(s, m, src) ==
    LET al == Allocate(s)
        c  == DeepCopy(al.s, root[src], al.n, 4)
    IN  /\ s.free # {} /\ ~c.short
        /\ mem' = c.mem /\ free' = c.free
        /\ root' = [root EXCEPT ![m] = al.n]
        /\ want' = [want EXCEPT ![m] = want[src]]
        /\ ret' = NIL

(* PageMap(const PageMap &rhs).                                           *)
CopyConstruct(m, src) ==
    /\ root[m] = NIL /\ root[src] # NIL
    /\ CopyInto(S, m, src)

(* operator=: nothing on self-assignment; otherwise DeepFree(root_, 4),  *)
(* then a new root and DeepCopy.                                          *)
Assign(m, src) ==
    /\ root[m] # NIL /\ root[src] # NIL /\ m # src
    /\ CopyInto(DeepFree(S, root[m], 4), m, src)

Map(m, p, v) ==
    /\ root[m] # NIL
    /\ Apply(m, MapOp(S, root[m], p, v))
    /\ UNCHANGED root /\ ret' = NIL

Unmap(m, v) ==
    /\ root[m] # NIL
    /\ Apply(m, UnmapOp(S, root[m], v))
    /\ UNCHANGED root /\ ret' = NIL

Remap(m, v, v2) ==
    /\ root[m] # NIL
    /\ LET x == RemapOp(S, root[m], v, v2)
       IN  Apply(m, x) /\ ret' = [ok |-> x.ok, unmapOk |-> x.unmapOk]
    /\ UNCHANGED root

(* MapRange({p, p + 2}, v - p): physical pages p, p + 1 at v, v + 1.      *)
MapRange(m, p, v) ==
    /\ root[m] # NIL
    /\ Apply(m, MapRangeOp(S, root[m], p, p + 2, v - p, <<>>))
    /\ UNCHANGED root /\ ret' = NIL

UnmapRange(m, v) ==
    /\ root[m] # NIL
    /\ Apply(m, UnmapRangeOp(S, root[m], v, v + 2, <<>>))
    /\ UNCHANGED root /\ ret' = NIL

RemapRange(m, v, v2) ==
    /\ root[m] # NIL
    /\ Apply(m, RemapRangeOp(S, root[m], v, v + 2, v2 - v, <<>>))
    /\ UNCHANGED root /\ ret' = NIL

(* The ranges callers pass: two pages, both among the modelled ones.     *)
PRanges == {p \in PAddrs : p + 1 \in PAddrs}
VRanges == {v \in VIn : v + 1 \in VIn}

Next ==
    \E m \in Maps :
        \/ Construct(m) \/ Destroy(m)
        \/ \E src \in Maps : CopyConstruct(m, src) \/ Assign(m, src)
        \/ \E p \in PAddrs, v \in VIn : Map(m, p, v)
        \/ \E v \in VIn : Unmap(m, v)
        \/ \E v, v2 \in VIn : Remap(m, v, v2)
        \/ \E p \in PRanges, v \in VRanges : MapRange(m, p, v)
        \/ \E v \in VRanges : UnmapRange(m, v)
        \/ \E v, v2 \in VRanges : RemapRange(m, v, v2)

Spec == Init /\ [][Next]_vars

-----------------------------------------------------------------------------
(* Properties, checked by the configurations of this module.             *)

Symm == Permutations(Maps)

(* With ZeroedFrames a free frame's contents are never read again (a     *)
(* live table never points to a free frame: FramesAccounted), so states   *)
(* that differ only there have the same futures.                          *)
ZeroedView ==
    <<[p \in Pages |-> IF p \in free THEN ZeroTable ELSE mem[p]], free, root, want, ret>>

Entry == [a : Pages, pr : BOOLEAN]

TypeOK ==
    /\ mem \in [Pages -> [Idx2 -> Entry]]
    /\ free \subseteq Buddy
    /\ root \in [Maps -> Buddy \cup {NIL}]
    /\ want \in [Maps -> [VIn -> PAddrs \cup {0, NONE}]]
    /\ ret = NIL \/ ret \in [ok : BOOLEAN, unmapOk : BOOLEAN]

(* Every live PageMap translates each virtual page the way the calls     *)
(* made on it say: the last successful Map, MapRange, Remap or RemapRange *)
(* step that set it, NONE after an Unmap, and a copy what its source      *)
(* translated, whatever the other PageMaps did meanwhile and whichever    *)
(* tables the walks shared, created or freed.                             *)
TranslationsAsMapped ==
    \A m \in Maps : root[m] # NIL =>
        \A v \in VIn : Translate(mem, root[m], v) = want[m][v]

(* The tables a root reaches, and the number of paths that reach them.   *)
RECURSIVE TablesBelow(_, _, _)
TablesBelow(mm, t, l) ==
    {t} \cup IF l = 1 THEN {}
             ELSE UNION {TablesBelow(mm, mm[t][i].a, l - 1) : i \in {j \in Idx2 : mm[t][j].pr}}

RECURSIVE Paths(_, _, _)
Paths(mm, t, l) ==
    1 + IF l = 1 THEN 0
        ELSE MapThenSumSet(LAMBDA i : Paths(mm, mm[t][i].a, l - 1),
                           {j \in Idx2 : mm[t][j].pr})

(* Every frame BuddyAllocator handed out is a table of exactly one live  *)
(* PageMap, reached through exactly one entry, and every other frame is   *)
(* free: DeepCopy shares no table with its source, DeepFree returns every *)
(* table, and a failed Map leaves what it created linked.                 *)
FramesAccounted ==
    LET live == {m \in Maps : root[m] # NIL}
    IN  /\ free \cup UNION {TablesBelow(mem, root[m], 4) : m \in live} = Buddy
        /\ MapThenSumSet(LAMBDA m : Paths(mem, root[m], 4), live)
              + Cardinality(free) = Cardinality(Buddy)

(* What the processor sees through every live PageMap.                   *)
HW == [m \in Maps |-> IF root[m] = NIL THEN NIL
                      ELSE [v \in VIn |-> Translate(mem, root[m], v)]]

(* spec.md 4.2: a remap whose unmap fails is rolled back, so a Remap      *)
(* step whose Unmap failed leaves every translation as it was.           *)
FailedUnmapRolledBack ==
    [][ret' # NIL /\ ~ret'.unmapOk => HW' = HW]_vars
=============================================================================
