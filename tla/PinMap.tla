-------------------------------- MODULE PinMap --------------------------------
(***************************************************************************)
(* The vnode registry of Ext2Mount (src/sys/fs/ext2_mount.cpp): the pin   *)
(* map pinned_vnodes_ / num_pins_, GetVNode, Pin and Unpin, with the       *)
(* callers' side in src/sys/fs/ext2_vnode.cpp: LookupAndPin, Unpin, and    *)
(* Remove's stack Ext2VNode, whose ~Ext2VNode calls mount_.Unpin(ino_).    *)
(*                                                                         *)
(* A vnode instance is one `new Ext2VNode' from a pool Insts (the heap may *)
(* reuse a freed one).  Callers hold RefCntPtrs to instances (held); when  *)
(* the last reference goes ~RefCntPtr frees the object without running    *)
(* its destructor, so no Unpin happens there.  The pin map's               *)
(* reference never goes: HashMap::Delete only marks the slot DELETED and   *)
(* Rehash copies values without destroying the old ones, so an instance   *)
(* once inserted into pinned_vnodes_ keeps a reference for good (mapRef).  *)
(* pins is the callers' view: the pins they took with LookupAndPin and    *)
(* have not yet given back with Unpin.  num_pins_ absent is 0.            *)
(***************************************************************************)
EXTENDS Integers, FiniteSets, TLC

CONSTANTS
    Inos,      \* inode numbers looked up
    Insts,     \* heap objects that can hold an Ext2VNode
    MaxPins,   \* bound on num_pins_ and on the callers' pins
    MaxRefs,   \* bound on the callers' references to one instance
    NIL

VARIABLES
    pinnedVnodes,  \* pinned_vnodes_: ino -> instance, NIL when absent
    numPins,       \* num_pins_: ino -> count, 0 when absent
    vn,            \* instance -> [ino, live]
    held,          \* instance -> references held by callers
    mapRef,        \* instances the pin map holds a reference to
    pins           \* ghost: ino -> pins the callers hold

vars == <<pinnedVnodes, numPins, vn, held, mapRef, pins>>

(* The registry and instances as one record, for the operations to pass  *)
(* along; pins stays outside.                                             *)
Reg == [pinned |-> pinnedVnodes, num |-> numPins, vn |-> vn, held |-> held,
        mapRef |-> mapRef]

SetReg(s) ==
    /\ pinnedVnodes' = s.pinned /\ numPins' = s.num /\ vn' = s.vn
    /\ held' = s.held /\ mapRef' = s.mapRef

Refs(s, i) == s.held[i] + (IF i \in s.mapRef THEN 1 ELSE 0)

(* GetVNode(ino): the pinned instance, counting a pin for it; otherwise   *)
(* ReadVNode's new instance i, or NullOpt when the inode table read       *)
(* fails.  The caller gets a reference to the result v.                   *)
GetVNodeOp(s, n, i, ok) ==
    IF s.pinned[n] # NIL
    THEN [s |-> [s EXCEPT !.num[n] = @ + 1, !.held[s.pinned[n]] = @ + 1],
          v |-> s.pinned[n]]
    ELSE IF ok
    THEN [s |-> [s EXCEPT !.vn[i] = [ino |-> n, live |-> TRUE], !.held[i] = 1],
          v |-> i]
    ELSE [s |-> s, v |-> NIL]

(* Pin(vnode): a further pin of a pinned ino, or a new entry that keeps a *)
(* reference to vnode.                                                    *)
PinOp(s, v) ==
    IF s.pinned[s.vn[v].ino] # NIL
    THEN [s EXCEPT !.num[s.vn[v].ino] = @ + 1]
    ELSE [s EXCEPT !.num[s.vn[v].ino] = 1, !.pinned[s.vn[v].ino] = v,
                   !.mapRef = @ \cup {v}]

(* Faulty variants of UnpinOp: the Contains test is dropped; the entry   *)
(* stays in pinned_vnodes_.                                               *)
UnpinOpUnchecked(s, n) ==
    IF s.num[n] = 1 THEN [s EXCEPT !.num[n] = 0, !.pinned[n] = NIL]
    ELSE [s EXCEPT !.num[n] = @ - 1]
UnpinOpKeepingEntry(s, n) ==
    IF s.num[n] = 0 THEN s
    ELSE [s EXCEPT !.num[n] = @ - 1]

(* Unpin(ino): if num_pins_ has ino and --num_pins_[ino] == 0, delete it  *)
(* from both tables (the deleted reference is not released).              *)
UnpinOp(s, n) ==
    IF s.num[n] = 0 THEN s
    ELSE IF s.num[n] > 1 THEN [s EXCEPT !.num[n] = @ - 1]
    ELSE [s EXCEPT !.num[n] = 0, !.pinned[n] = NIL]

(* A caller's reference to v goes; the last one frees the object          *)
(* (allocator_t::Free, no destructor call).                                *)
ReleaseOp(s, v) ==
    IF Refs(s, v) > 1 THEN [s EXCEPT !.held[v] = @ - 1]
    ELSE [s EXCEPT !.held[v] = 0, !.vn[v].live = FALSE]

(* ReadVNode's `new' takes a heap object no live instance occupies.      *)
Fresh(s, n, i, ok) == s.pinned[n] = NIL /\ ok => ~s.vn[i].live

InBounds(s) ==
    /\ \A n \in Inos : s.num[n] <= MaxPins
    /\ \A i \in Insts : s.held[i] <= MaxRefs

-----------------------------------------------------------------------------
Init ==
    /\ pinnedVnodes = [n \in Inos |-> NIL]
    /\ numPins = [n \in Inos |-> 0]
    /\ vn = [i \in Insts |-> [ino |-> NIL, live |-> FALSE]]
    /\ held = [i \in Insts |-> 0]
    /\ mapRef = {}
    /\ pins = [n \in Inos |-> 0]

(* Ext2VNode::Lookup's GetVNode of a child (VFS::Touch, MkDir, Remove,    *)
(* Unmount walk paths this way): the caller keeps the reference.          *)
GetVNode(n, i, ok) ==
    LET r == GetVNodeOp(Reg, n, i, ok)
    IN  /\ Fresh(Reg, n, i, ok) /\ InBounds(r.s)
        /\ SetReg(r.s)
        /\ UNCHANGED pins

(* LookupAndPin (VFS::Open, VFS::Mount): GetVNode, then Pin the result.   *)
LookupAndPin(n, i, ok) ==
    LET r == GetVNodeOp(Reg, n, i, ok)
    IN  /\ Fresh(Reg, n, i, ok)
        /\ IF r.v = NIL THEN SetReg(r.s) /\ UNCHANGED pins
           ELSE /\ InBounds(PinOp(r.s, r.v)) /\ pins[n] < MaxPins
                /\ SetReg(PinOp(r.s, r.v))
                /\ pins' = [pins EXCEPT ![n] = @ + 1]

(* A caller drops a reference it holds (a FileHandle or a temporary goes  *)
(* out of scope).                                                         *)
Release(v) ==
    /\ held[v] > 0
    /\ SetReg(ReleaseOp(Reg, v))
    /\ UNCHANGED pins

(* Ext2VNode::Remove builds `Ext2VNode child(child_ino, mount_)' on the   *)
(* stack; leaving Remove runs ~Ext2VNode: WriteBack, then Unpin(ino_),     *)
(* although this instance was never pinned.                                *)
DestroyStack(n) ==
    /\ SetReg(UnpinOp(Reg, n))
    /\ UNCHANGED pins

(* A caller gives back a pin it took (FileHandle::SuspendIO, VFS::Unmount *)
(* through VNode::Unpin).                                                 *)
Unpin(n) ==
    /\ pins[n] > 0
    /\ SetReg(UnpinOp(Reg, n))
    /\ pins' = [pins EXCEPT ![n] = @ - 1]

Next ==
    \/ \E n \in Inos, i \in Insts, ok \in BOOLEAN : GetVNode(n, i, ok)
    \/ \E n \in Inos, i \in Insts, ok \in BOOLEAN : LookupAndPin(n, i, ok)
    \/ \E v \in Insts : Release(v)
    \/ \E n \in Inos : Unpin(n)
    \/ \E n \in Inos : DestroyStack(n)

Spec == Init /\ [][Next]_vars

-----------------------------------------------------------------------------
(* Checked by PinMap.cfg, with Insts a set of symmetric model values.    *)

Symm == Permutations(Insts)

TypeOK ==
    /\ pinnedVnodes \in [Inos -> Insts \cup {NIL}]
    /\ numPins \in [Inos -> 0 .. MaxPins]
    /\ vn \in [Insts -> [ino : Inos \cup {NIL}, live : BOOLEAN]]
    /\ held \in [Insts -> 0 .. MaxRefs]
    /\ mapRef \subseteq Insts
    /\ pins \in [Inos -> 0 .. MaxPins]

(* The two tables agree and name a live instance of the right inode:     *)
(* num_pins_ has ino exactly when pinned_vnodes_ does, and GetVNode never *)
(* returns a destroyed vnode from the pin map, whatever the order of      *)
(* lookups, pins, unpins, releases and Remove's stack-vnode unpins.       *)
PinTablesAgree ==
    \A n \in Inos :
        /\ (pinnedVnodes[n] # NIL) = (numPins[n] > 0)
        /\ pinnedVnodes[n] # NIL =>
              vn[pinnedVnodes[n]].live /\ vn[pinnedVnodes[n]].ino = n
=============================================================================
