# TLA+ models of the Panix storage stack

This directory holds TLA+ models of the Panix kernel's memory and storage
components, with TLC configurations that check them. `PROJECT.json` lists
every component, run, mutant, finding and hazard. It also maps each model
definition to the source lines it translates.

## The system

Panix is a single-core, cooperative x86-64 kernel, and its storage path is a
stack of components.

| Component | Source | State | Operations |
|---|---|---|---|
| Red-black tree | `src/ds/rb_tree.h` | `RbNode{key_, val_, color_, left_, right_, parent_}` objects from `root_`, `num_keys_` | `Insert`, `Read`, `Update`, `Delete`, with `PostInsertFix`, `PreDeletionFix`, `Rotate` |
| Buddy page allocator | `src/sys/buddy_allocator.cpp` | One `FreeListEntry{forward_, backward_, order_, free_}` per page, `free_lists_[order]` threaded through them, `mem_in_use_`, `num_blocks_` | `InitBuddyAllocator`/`CatalogRange`, `Allocate`, `Free`, `Realloc`, `MemCritical` |
| Kernel heap | `src/sys/kheap.cpp` | Chunks with headers `{forward_, backward_, size_, prev_size_}`, 256 bins plus a bitmap, the `top_` chunk, `heap_size_` | `Init`, `Allocate`, `Free`, `Reallocate`, `GrowHeap` |
| HashMap | `src/ds/hash_map.h` | `mdata_` (EMPTY, DELETED or H2), `map_`, `capacity_`, `num_entries_` | `Insert`, `Delete`, `Lookup`/`Contains`/`Find`, `Rehash` |
| LRUCache | `src/ds/cache.h` | Doubly linked list of heap nodes (`mru_` to `lru_`), `entries_` HashMap, `num_entries_` | `Insert` (evicts one entry when `MemCritical()`), `Lookup` (move to front), `Evict`, `Flush` |
| SATA port | `src/sys/sata_port.cpp` | Command slots, `cmd_issue`, error bits, an LRU sector cache of `CachedSector{sector_, dirty_, disk_}` | `Read`/`Write`, `CacheReadWrite`, `DiskReadWrite`, `IssueCommand`, `HandleEviction`, `GetNthPartition` |
| Ext2 mount | `src/sys/fs/ext2_mount.cpp` | Superblock, BGDT, three LRU caches of bitmaps and inode tables, the pin map | `AllocBlock`, `FreeBlock`, `AllocVNode`, `DeleteINode`, `ReadINode`, `WriteINode`, `ReadVNode`, `Pin`, `Unpin`, `GetVNode` |
| Ext2 vnode | `src/sys/fs/ext2_vnode.cpp` | Inode, directory records, mount table `mnts_` | `MkDir`, `Touch`, `Lookup`, `Remove`, `Read`/`Write`, `Mount`/`Unmount` |
| Page tables | `src/sys/page_map.cpp` | A 4-level tree of 512-entry tables from `root_`, each frame taken from the buddy allocator | `Map`, `MapRange`, `Unmap`, `UnmapRange`, `Remap`, `RemapRange`, `VAddrToPAddr`, copy, assignment, `~PageMap` |
| VFS | `src/sys/fs/vfs.cpp` | Root vnode, `open_handles_` | `Open`, `Close`, `Mount`, `Unmount`, path lookup |

The components interact in these ways:
- The heap draws large chunks and its own growth from the buddy allocator.
- The page tables take their frames from the buddy allocator, and the heap
  maps its window through them.
- The containers allocate from the heap.
- Every `LRUCache::Insert` reads the buddy allocator's `MemCritical()`. When it
  is true, the insert evicts an entry, and the eviction callback may run disk
  I/O inside the insert.
- The SATA port's sector cache is an `LRUCache` keyed by LBA. Its eviction
  callback writes dirty sectors back.
- Ext2 reads and writes sectors through the port.
- The VFS pins and unpins ext2 vnodes.

The only concurrent actor is the AHCI controller, which the CPU polls. The
hard behaviours are therefore:
- state corrupted by earlier sequences of calls (stale list pointers, counters
  that drift);
- re-entrant callbacks (eviction during insert);
- the allocator reusing freed memory that dangling pointers still reach.

## Modules

| Module | Models | Checked by |
|---|---|---|
| `BuddyAllocator.tla` | `src/sys/buddy_allocator.cpp`: `CatalogRange`, `Allocate`, `Free`, `Realloc` on one range | itself (its properties follow the specification) |
| `HashMap.tla` | `src/ds/hash_map.h`: `Insert`, `Delete`, `Find`/`Contains`/`Lookup`, `Rehash`, the copy constructor, `operator=` and the destructor | itself |
| `KeyValueMap.tla` | abstract: a finite map (what the hash map promises) | instanced by `HashMap`'s property section |
| `LRUCache.tla` | `src/ds/cache.h`: `Insert`, `Lookup`, `Evict`, `Flush` | itself, and instanced by `SectorCache` |
| `SectorCache.tla` | `src/sys/sata_port.cpp`: `CacheReadWrite`, `HandleEviction`, `~SATAPort` over `LRUCache` | itself |
| `BlockDevice.tla` | abstract: what `SATAPort::Read`/`Write` promise (an array of sectors) | instanced by `SectorCache` |
| `Ext2Alloc.tla` | `src/sys/fs/ext2_mount.cpp`: `AllocBlock`, `FreeBlock`, `AllocVNode`, `DeleteINode` | itself |
| `Ext2INodeTable.tla` | `ext2_mount.cpp` `ReadINode`, `WriteINode`, `ReadVNode`/`ReadINodeTable`, `ReadINodeBitmap`, `AllocVNode`; `DiskMem`'s write-back; `Ext2VNode`'s constructor and `WriteBack` | itself |
| `PinMap.tla` | `ext2_mount.cpp` `GetVNode`/`Pin`/`Unpin` with `ext2_vnode.cpp` `LookupAndPin` and `~Ext2VNode`, and `RefCntPtr`'s release | `PinMap.tla` (with `PinMap.cfg`) |
| `Vfs.tla` | `src/sys/fs/vfs.cpp`: `Open` (with and without create), `Close`, `Mount`, `Unmount`, `Touch`, `MkDir`, `Link`, `SymLink`, `Remove`, `Unlink`, `FindVNode`, `DecomposePath`; `ext2_vnode.cpp` `Lookup`, `LookupAndPin`, `GetDirEntry`, `MakeDirEntry`, `InitializeDir`, `Touch`, `MkDir`, `Link`, `SymLink`, `Remove`, `Mount`/`Unmount`; `Ext2Mount::AllocVNode`; the pin map of `ext2_mount.cpp`; `ds::String` and `strncmp` | `MCVfs.tla` |
| `RbTree.tla` | `src/ds/rb_tree.h`: `Insert`, `Read`, `Update`, `Delete`, the fix-up loops, `Rotate` | itself |
| `Dictionary.tla` | abstract: the map `RbTree`'s interface comments describe | instanced by `RbTree`'s property section |
| `Ext2BlockMap.tla` | `src/sys/fs/ext2_vnode.cpp`: `GetOrCreateExtents` and its recursive helper, `AddToExtentList`, `Read`/`Write` (`ReadWrite`), `Remove`, `Touch`/`Prealloc`; `ext2_mount.cpp` `AllocBlock`/`FreeBlock` (lowest clear bit, returning `free_block + 1`), and the sector ranges of `ReadBlocks`/`WriteBlocks` | itself (property section) |
| `AhciPort.tla` | `src/sys/sata_port.cpp`: `Configure`, `IdentifyDevice`, `GetDiskCapacity`, `DiskReadWrite` with `IsBusy`, `ActivateCommands`, `IssueCommand`, `OpInProgress`, `OpFailed`, `SuspendCommands`; the AHCI controller and drive as an environment | itself |
| `KHeap.tla` | `src/sys/kheap.cpp`: `Init`, `Allocate` (with its grow loop), `Reallocate`, `Free`, `FindEntry`, `Split`, `MergeWithNeighbors`, `GrowHeap`, `Verify` | `MCKHeap.tla` |
| `PageMap.tla` | `src/sys/page_map.cpp`: the constructors, `operator=`, `~PageMap` (`DeepCopy`, `DeepFree`), `Map`, `MapRange`, `Unmap`, `UnmapRange`, `Remap`, `RemapRange`, `GetPage`, `CreatePage`, `VAddrToPAddr`; `BuddyAllocator::Allocate` as it returns frames | itself |

The `MC*.tla` modules hold the model values, symmetry sets, type invariants
and properties of the three larger models. The other modules hold their
properties, checking specifications and type invariants in a final section of
their own. Faulty variants that the mutants substitute (named for the
bug they stand for, e.g. `UnpinOpKeepingEntry`) sit directly before the
definition they replace.

### BuddyAllocator

- Page records are a function `rec` from record index to
  `[fwd, bwd, order, free]`, and the free lists are `head`.
- The list primitives are pure operators on `[rec, head]`, one per C
  function of the same name: `PushFront`, `PopFront`, `Remove`, `Split`,
  `Merge`. They compose into the loops of `Allocate` (`SplitDown`) and
  `Free` (`MergeLoop`).
- Because the records are modelled field by field, a stale `forward_`
  pointer is part of the state.
- `Init` performs `CatalogRange`'s carve, including the shift by the
  metadata pages (record 0 holds boot memory, its `free_` arbitrary) and
  record `N`, one past the range, which `EntryRange` still reaches
  (`addr <= bound`).
- The ghost `owned` is the set of blocks callers hold; callers free only
  what they own. `mem_in_use_` is counted in pages; a negative value stands
  for a wrapped `size_t`. `num_blocks_` is not modelled: nothing reads it.

### HashMap and KeyValueMap

- A slot holds `EMPTY`, `DELETED` or `[key, val]`; `H1` gives each key its
  home slot. `Insert` covers the probe, tombstone reuse, the count and
  `Rehash`; `Delete` leaves a tombstone.
- `CheckedInsert` is the callers' discipline (`Pin`, `Open`, every cache):
  test `Contains` first.
- `HashMap`'s property section maps the table to `KeyValueMap` through `AbsMap` (each key
  `Find` reaches, with its value) and checks `KVM!Spec` as a property.
- The table operations are operators over a table value (`InsertOp`,
  `DeleteOp`, `FindIn`, `LookupIn`), so that one table and a second map
  `copy` share them. `CopyConstruct` and `CopyAssign` copy `mdata_` and
  `map_` slot by slot with `capacity_` and `num_entries_`; `CopyInsert` and
  `CopyDelete` then change the copy alone, and `DestroyCopy` is the
  destructor. The ghost `copyWant` is the key/value map the copy's callers
  have made (the original's contents at copy time, then their own calls).
  `~HashMap` and `operator=` read `mdata_` after `Free(mdata_)`; this is
  harmless because `KHeap::Free` writes only chunk headers, and is not
  modelled. No caller moves a map, and the iterator is instantiated nowhere
  (it would not compile).

### LRUCache

- The list is pointer-linked nodes drawn from a pool. Allocation may return
  any free node, including one a dangling pointer still reaches; freed nodes
  keep their fields.
- `Insert` takes `MemCritical()` as an input and runs `Evict(1)` first when
  it is true. Evictions are returned in `evicted` for the owner's handler.
- `entries_` is a plain map; `hashmap_checked` justifies this, since every
  cache caller misses on `Lookup` before it `Insert`s.
- The operations are pure operators on a record (`InsertOp`, `LookupOp`,
  `EvictLoop`), so a client module can chain them inside one call.

### SectorCache and BlockDevice

- One call of `CacheReadWrite` is one step: the kernel is single-threaded
  and `DiskReadWrite` polls until the command completes. Inside the step the
  model follows the code's loops: `Scan` (the inner `Lookup` loop),
  `ReadUncached` (the DMA of the uncached run), `InsertAll` (one `Insert`
  per uncached sector, each running `HandleEviction` on what it evicts),
  then `ApplyHit` through the `cached_block` pointer taken before the
  inserts.
- What varies inside a call is chosen up front: for the k-th insert,
  `MemCritical()`, the LRU node and the `CachedSector` object.
- A `CachedSector` and its buffer are one object of `SObjs`; a freed one
  keeps its fields, so a stale `cached_block` reads or writes a freed or
  reused object.
- `diskErr` stands for the port's error bits: `OpFailed` reads them and no
  code clears them.
- `Destroy` is `~SATAPort`'s `Flush`.
- `SectorCache` maps the cache to `BlockDevice` through `AbsContents`
  (the cached copy when the sector is cached, else the disk), so
  `ImplementsBlockDevice` is read-your-writes and no lost write, including
  across write-back on eviction and on destruction.

### Ext2Alloc

- Geometry is `NGroups` groups of `Words` words of `W` bits. Block `b` is
  bit `b-1`, as `FreeBlock` and `ReadBlock` count it. Bit 0 of group 0 is
  excluded from the search, as the code's `~(bmap[j] | 1)` excludes it.
- A bitmap is one value per group: `DiskMem` is a `RefCntPtr` whose every
  copy writes back in its destructor, so the cached copy and the disk stay
  one coherent value. A failed bitmap read is the input `rd` (the group at
  which `ReadBlock` fails, or `NGroups` for none); `ret.io` records whether
  the scan ran to the end without a failure.
- `Scan` is the group loop with its counter test, `FirstWord` the word loop,
  `Ffs` the bit search with `MarkBit` the bit the code sets. `AllocBlock`
  returns `free_block + 1` as the code does.
- The ghosts `blkOwners` and `inoOwners` count the callers who hold each
  block and inode: an allocation gives one to the returned number, a free
  takes one back. Callers free only what they hold.
- The model checks the mount's interface as any caller may use it. Nothing
  in the tree calls `DeleteINode` yet: `Ext2VNode::Remove` frees a file's
  blocks but leaves its inode bit set.
- `Ext2Alloc`'s property section adds a `mode` variable so that one behaviour exercises the
  block allocator or the inode allocator, never both: they share no state,
  and the product would only multiply the states. `Init` starts from every
  bitmap whose marked bits are a prefix, with consistent counters.

### Ext2INodeTable

- `Ext2Mount` reaches the inode table two ways:
  - `ReadINode` and `WriteINode` read the block holding the inode from the
    disk, and `WriteINode` writes it back. `Ext2VNode`'s constructor and
    `Ext2VNode::WriteBack` use them.
  - `ReadVNode`, behind `GetVNode` of an unpinned inode, copies the inode
    out of `ReadINodeTable`'s `DiskMem`. That is read once and then kept in
    `inode_tab_cache_`.
- `disk` is the table on disk and `tab` the cached `DiskMem`. An inode's
  contents are a version: a caller that changed its copy writes a new one.
- `ReadINodeTable` reads `s_inodes_per_group - bg_free_inodes_count`
  inodes, rounded up to whole blocks (`TabLen`). An inode past that is read
  from beyond the buffer (`overrun`).
- Every `DiskMem` copy writes its sectors back when it is destroyed
  (`disk_mem.h`), and `ds::Optional` destroys its value. Each `ReadVNode`
  therefore writes the cached table back (`WriteBackTable`).
- The inode bitmap is one value: its `DiskMem` copies share one buffer.
  Only its first read can fail (`ReadINodeBitmap`).
- One block group: `inode_tab_cache_` then holds at most one entry, and the
  `Evict(1)` in `Insert` finds nothing to evict.
- The ghosts `last` (what the latest `WriteINode` stored) and `got` (the
  latest read, with the version it should have returned) state coherence.

### PinMap

- A vnode instance is one `new Ext2VNode` from the pool `Insts`; the heap may
  reuse a freed one. `held` counts the callers' references. When the last
  one goes, `~RefCntPtr` calls `allocator_t::Free` on the object and never
  runs its destructor, so releasing a reference does not unpin
  (`ReleaseOp`).
- The one destructor call in the code is for the stack `Ext2VNode child` in
  `Ext2VNode::Remove` (line 337). Its `~Ext2VNode` calls
  `mount_.Unpin(child_ino)`, although that instance never took a pin. This
  is `DestroyStack`.
- `mapRef` is the pin map's own reference. `HashMap::Delete` only marks the
  slot and `Rehash` copies values without destroying the old ones, so an
  instance once inserted into `pinned_vnodes_` is never destroyed.
- The ghost `pins` is the callers' view: pins taken with `LookupAndPin` and
  not yet given back with `Unpin`.
- `GetVNode` takes the inode-table read's success as the input `ok`.

### Vfs

`Vfs` composes the VFS layer with the ext2 vnodes it walks and the pin map
they share. The model keeps one ext2 filesystem, whose root is `RootIno`,
and mounts whose roots are in `MRoots`.
- State:
  - `dirents[d]` is the sequence of directory records of `d`, each a name
    and an inode. `Remove` turns a record into a tombstone with inode 0 and
    name length 0, as the code does.
  - `links` holds the link counts, kept as 16-bit values.
  - `pins` is `num_pins_`, and an inode is in `pinned_vnodes_` when its
    count is positive.
  - `ovl` and `olen` are the pinned instance's `mnts_` keys and its
    `mnts_.Len()`. `HashMap::Delete` never decrements the count.
  - `mounted` holds the mounted roots.
  - `handles` are the `FileHandle`s, with their `valid_` flag.
  - `opens` is `open_handles_`.
  - `fault` records a read of inode 0.
  - `ifree` is the set of clear inode bits. `AllocVNode` takes the lowest,
    as `ffsll` over the bitmap does.
  - `dsize[d]` is `i_size` of directory `d` in blocks. Every record carries
    the block it lies in.
  - `hung` records a `MakeDirEntry` that never returns.
- Strings are sequences of characters ending in NUL, since `ds::String`
  copies `len + 1` bytes.
  - `Substr` and the `(str, len)` constructor copy what they are given.
  - `Lookup`'s `Substr(start, len + 1)` of the last component therefore
    carries the NUL and one byte past the array. That byte is a choice from
    `Junk`.
  - `operator==` compares `len_` and then `strncmp`. `GetDirEntry`
    compares only `name_len` bytes (`StrnEqual`).
- `Lookup` is `RECURSIVE`:
  - it calls `GetDirEntry`;
  - only if that finds nothing, it looks in the overlay;
  - then it calls `GetVNode`, which counts a pin when the inode is pinned.
- A vnode's overlay lives in the pinned instance. An unpinned inode's next
  instance starts with an empty `mnts_`, so `Commit` clears the overlay of
  every inode whose pin count reaches 0.
- Creation (`Touch`, `MkDir`, `Open` with create, `Link`, `SymLink`):
  - `CreateIn` is `Ext2VNode::Touch`/`MkDir`: `AllocVNode`, then for a
    directory `InitializeDir`, then `MakeDirEntry` in the parent, and for a
    directory the parent's link count.
  - `InitializeDir` writes `.` and `..` into a new block; the inputs `init`
    and `initwrite` are its two failure points.
  - `MakeDirEntry` walks the records of the last block, `i_size / blk - 1`.
    When it finds one, it appends the new record with `rec_len` set to the
    block size and adds a whole block to `i_size`. A block never written
    reads as zeros, so the walk over it finds `rec_len` 0 and never ends:
    that is `hang`.
  - `VFS::Touch`, `MkDir` and `Remove` take the parent with
    `root_->Lookup(dir)`. For a file directly in the root that is
    `Lookup("/")`, whose empty child matches only a tombstone, so these
    calls fail in the root. `FindVNode` special-cases `/`, so `Open` with
    create does work there.
  - `Ext2VNode::Link` adds the record and leaves `i_links_count` alone.
    `SymLink` stores a short target inline and never writes the new inode
    back, so its on-disk count stays what it was while free.
  - `Create` commits one creation: it is enabled only on a parent whose
    `i_size` is not 0.
- `FileHandle` copies share their `RefCntPtr`. The model drops a handle
  (`DropHandle`) only after it is closed. The vnode itself is freed without
  its destructor, as in `PinMap`.

### KHeap

- The heap is memory in 32-byte granules (`G == 1`, sizes in granules).
  `mem[a]` is either a `FreeListEntry` record `[fwd, bwd, size, prev]` or
  `DATA`. Reading a header where the code wrote data gives any header
  (`Junk`), because the code would read whatever bytes are there. `size`
  keeps the `IN_USE` bit as `size % 2`.
- The `free_lists_` array is `lists`, and `free_lists_bitmap_` is the set
  `bitmap` of bit numbers. The shifts of `FindEntry` and `PushFront` take
  their bin index modulo 64, as x86 does for a 64-bit shift.
- `heapSize` is the mapped window. `GrowHeap` doubles it up to `MaxHeapSize`
  and adds half of it to `top_`. `BuddyAllocator::MemInUse() >=
  max_heap_size_` is the flag `pmmFull`, which `BuddyUsage` (other users of
  the buddy allocator) flips between heap calls when `PmmCanFill`.
- Large allocations are buddy block ids in `big`. `BuddyInput` is the buddy
  allocator's answer: a free block, or nullptr only when `PmmCanFill`.
- Each heap function is a pure operator from a heap record to a heap record
  (`Heap`, installed by `SetHeap`). The operators pass intermediate results as
  parameters (`PushSplit`, `FixNext`, `AbsorbNext`, `PushMerged`,
  `AllocFound`, `FindIn`) rather than in `LET`. This keeps TLC's coverage and
  `ENABLED` evaluation from expanding them repeatedly.
- `Allocate` is one step up to its grow loop. When no free-list entry fits, it
  leaves `call` set. Each turn of `while(size >= top_->size_) GrowHeap()` is
  then a `GrowHeapStep`, and `AllocateFromTop` shaves `top_` and finishes.
  `Reallocate`'s allocate-copy-free path uses the same loop, with the pending
  copy in `call.re`.
- A write outside the window, a write through nullptr, heap memory passed to
  `BuddyAllocator::Free`, and a foreign pointer are recorded in `fault`.
- `VerifyOK` is `KHeap::Verify`: a walk from `heap_` to `top_`, with its
  `prev_size_`, loop and sum checks. Like the code, it reads the
  `prev_size_` of the chunks before `top_` only.
- `GrowHeap` first unmaps the heap window, then maps it again at twice the
  size only while `MemInUse()` is below `max_heap_size_`. When physical
  memory is used up, the window stays unmapped and the grow loop's next read
  of `top_->size_` faults; the model records that in `fault`.
- The properties in `MCKHeap` are:
  - `HeapVerifies`: `Verify` holds between calls;
  - `FreeListsSound`: every non-top free chunk is on the list of its bin
    exactly once, and the bitmap marks exactly the non-empty bins;
  - `AllocationsDisjoint`: the callers' chunks never overlap each other or
    `top_`;
  - `NoFault`;
  - `TopOnlyWhenNoFit` (an action property): `Allocate` goes to `top_` only
    when no free chunk fits.
- `AllocFreeSpec` is the behaviour of callers that only allocate and free.
  This is what the kernel's containers do: `Reallocate` is reached only from
  `String` and `DynArray` growth.
- The view `HeapView` maps granules that are not chunk headers to `DATA`.
  This is done only when `Verify` holds and there is no fault. In that case
  the code never reads those granules as headers, so two states that differ
  only there have the same futures. In any other state the view is the whole
  memory.

### RbTree

Nothing in the kernel uses `ds::RbTree`. It is modelled because it is the
repository's one balanced-tree algorithm, and its deletion is wrong.
- The nodes are ids from a pool `Nodes`, one per key: the objects `new RbNode`
  can return. `nd` maps each node to its fields, and `used` is the set of
  allocated nodes.
- `Find`, `Min`, `Max`, `BstInsert` and the navigation helpers are pure
  operators over a tree record `[root, nd]`. So are the loops of
  `PostInsertFix` (`InsertLoop`) and `PreDeletionFix` (`DeleteLoop`), which are
  recursive, with one branch per case of the code.
- `Rotate` rewrites the same six pointers as the code. The objects involved
  are distinct, so the order of the assignments does not matter.
- `Delete` unlinks the node `BstDelete` returns, and frees it together with its
  subtree (`Subtree`), as the recursive `~RbNode` does.
- `num_keys_` is written and never read, so it is left out.
- `NullRoot` stands for `Read`, `Update` or `Delete` on an empty tree, which
  dereferences nullptr. The pass run's callers (`CheckedSpec`) do not do this.
- `ret` is the value the last call returned. The refinement mapping takes it
  to the abstract `res`, so the check also covers what `Read` returns.
- The view `TreeView` forgets the fields of freed nodes. `Insert` overwrites a
  node's fields before the node is reachable again, so nothing reads them.

### Ext2BlockMap

The block map of one file: the twelve direct pointers of `inode_.i_block` and
its single-, double- and triple-indirect trees.
- A disk block is the function from its `P` pointer slots to block numbers;
  data contents are not modelled. `disk` maps every block to its pointers,
  `free` is the block bitmap, `ib`, `iblocks` and `size` are the inode fields.
- The bitmap covers blocks 1 to `NB`. `AllocBlock` marks the lowest clear
  bit other than block 1's (`Marked`) and returns the block after it
  (`Alloc`), as the code's `free_block + 1` does; so block `NB + 1` can be
  handed out, and the block returned is not the one marked. The ghost
  `owned` holds the blocks `AllocBlock` returned and `Remove` has not freed
  since; `TreeSound` and `NoLeak` are stated against it, so that they speak
  of the tree and not of the bitmap's off-by-one (which `Ext2Alloc` checks).
- One `GetOrCreateExtents` call is one pure operator, `Call`, over a working
  record (inode pointers, disk, bitmap, extent list, the buffer of the current
  indirect block, blocks read so far, the cached parent index). `Top` is the
  top-level loop; `Inner` and `Leaf` are the recursive helper's level > 0 and
  level 0 loops, one recursion per loop iteration. The write-backs happen
  where the code does them: the child buffer after each successful child,
  the parent after each recursive call.
- `Read`, `Write`, `Remove` and `Touch` are one action each: the call and what
  the caller does with its result (the size update of `Write`, the `FreeBlock`
  loop of `Remove`, the ignored result of `Prealloc`).
- A call ends `ok`, `fail`, `overrun` or `hang`. The last two are undefined
  behaviour (an index past a block buffer, `FreeBlock(0)`) and the
  non-terminating `ReadBlock(0)` retry. `Halt` records them in `fault` and the
  model stops there.
- `ToRanges` is `Ext2Mount::ReadBlocks`/`WriteBlocks`: each extent becomes
  the sector range `partition_base_sector_ + 2 + (start_ - 1) *
  sectors_per_block_`, the product taken in `uint32_t`. TLC's integers stop
  at 2^31, so the constant `Word` stands for 2^32; any value past the
  partition's last sector gives the same outcomes.
- The module's property section holds a reference reading of the ext2
  layout (`Lookup`, by logical block, and `TreeBlocks`, every block the tree
  reaches). `ExtentsMatchMap` compares the extents the code's walk returns
  with `Lookup`; `MappingsStable` says a logical block once mapped keeps its
  disk block.
- The pass run's `CheckedSpec` takes only `Read` and `Write` on a freshly
  formatted disk, and only the calls that neither overrun nor hang. With no
  `Remove` nothing is freed, so every unused block really holds zeros. The
  further configurations run the full `Spec`, with `Remove` and `Touch`, and
  show the faulting calls are reachable.

### AhciPort

- Two actors: the host (the `SATAPort` methods, one CPU thread) and the
  controller with its drive. Only the host's side is code of this
  repository; the controller follows the AHCI 1.3 register contract, as an
  environment:
  - `PxCMD.CR` follows `ST` and `FR` follows `FRE` (`HbaStart`, `HbaStop`,
    `FisOn`, `FisOff`), and clearing `ST` clears `PxCI`;
  - a command in `PxCI` is fetched only while `CR` is set and the task file
    is not busy (`Fetch`), and ends well (`CompleteOk`) or with a task-file
    error (`CompleteErr`). That error sets `PxIS.TFES`, posts a D2H FIS with
    `ERR`, and halts the list until `ST` is cleared.
- Each of the code's spin loops is a guarded host action, because the loop
  makes no progress until its condition changes:
  - `BusyWait` is `while(IsBusy())`;
  - `ActivateAndIssue` is `ActivateCommands` (its wait for `CR` to drop is
    the guard) followed by `IssueCommand`;
  - `Poll` is `while(OpInProgress(slot) && ! OpFailed())` followed by the
    register writes of `SuspendCommands`;
  - `SuspendWait` is its `while(FR || CR)`, followed by whatever the calling
    method does next (`AfterSuspend`).
- `phase` records which method is running: `Configure` and `IdentifyDevice`
  from the constructor, then `DiskReadWrite` calls with their
  `GetDiskCapacity`. `step` records where in the handshake the method is.
- `NCQCapable()` returns false, and `FirstFreeSlot` finds slot 0 whenever
  `PxCI` is clear, so the port uses one slot. The command table is the
  requested sector range.
- `IdentifyDone` sets `max_lba_` from words 100-103 of `dev_info_` whether
  or not the command succeeded. After a good IDENTIFY those words hold the
  sector count. Otherwise they hold whatever the buffer held before, a
  choice from `Junk`.
- `ExceedsMaxLba` is the unsigned comparison `disk_addr > max_lba_`. While
  `max_lba_` is -1 it converts to 2^64 - 1, which no address exceeds.

### PageMap

`PageMap.tla` models the page tables of several `PageMap` objects over one
physical memory.
- `mem` maps every page to a table of two entries, each an address and a
  PRESENT bit. `VAddrIndex` takes one bit of the virtual page per level, so
  a walk still crosses four levels and virtual pages 0 and 1 share every
  table while 8 differs at the root.
- `free` is the buddy allocator's set of free frames; `Allocate` takes the
  lowest. The frame keeps what it held unless `ZeroedFrames` is set,
  because `BuddyAllocator::Allocate` does not clear memory.
- `root` is each object's `root_`, NIL before construction and after the
  destructor.
- `GetPage`, `CreatePage` (with `GetOrCreatePageTable`), `VAddrToPAddr`,
  `DeepCopy` and `DeepFree` are recursive operators over a state record
  `[mem, free]`. Every call is one action that runs the whole operation,
  so `MapRange`, `UnmapRange` and `RemapRange` stop at the first failure
  with the pages before it done, as the loops do.
- `Translate` is what the processor sees: every level PRESENT.
- `want` is a ghost variable. It records what the calls made on each map
  say its pages translate to, taken from each call's effect (`eff`). `ret`
  records the last `Remap`'s outcome.

`TranslationsAsMapped` compares `Translate` with `want` for every live map.
`FramesAccounted` says every buddy frame is free or a table of exactly one
live map, reached through exactly one entry. It counts the paths through
each tree (`Paths`) against the size of the set of tables it reaches
(`TablesBelow`).

The boot constructor, which maps the bootloader's memory map and PMRs, is
not modelled, and neither are `Load` or the flag bits other than PRESENT.
After boot every caller passes `KERNEL_PAGE`.

## Runs

| Run | Expect | What it shows |
|---|---|---|
| `hashmap_checked` | pass | Three keys, two sharing a home slot, inserted (after `Contains`) and deleted in every order up to capacity 31: probe chains stay intact, an EMPTY slot always exists (so `Find` terminates), and the table refines `KeyValueMap`. A copy made by the copy constructor or `operator=` (up to capacity 7) and then changed on its own holds exactly what its callers put there: a tombstone copied as EMPTY would cut its probe chains. 49500 distinct states. |
| `buddy_double_alloc` | violation | 12 steps on a 6-page range end with page 0 held by two callers. |
| `sector_cache` | pass | Reads and writes of one or two sectors over two LBAs, with `MemCritical()` false, refine `BlockDevice`, and a clean cached sector always equals the disk. 800 distinct states. |
| `kheap` | pass | Up to three callers `Allocate` 32, 96 and large requests and `Free` them while the heap grows from 128 towards 1024 bytes. `Verify` holds between calls, every free chunk is on its bin's list exactly once, live allocations are disjoint, and nothing touches memory outside the heap window. 993 distinct states (under `HeapView`). |
| `rb_tree` | pass | Every sequence of `Insert`, `Read`, `Update` and `Delete` over six keys and two values keeps a well-linked binary search tree. Its allocated nodes are exactly the reachable ones, and the red-black properties hold after every call. Every case of both fix-up loops occurs, including rotations that move a non-null child. 7366 distinct states. |
| `ext2_alloc` | pass | Both allocators on two groups of two 2-bit words, from every prefix layout and with any bitmap read failing: `AllocVNode` hands out exactly the inode whose bit it sets, and no group counter exceeds its clear bits (the superblock's inode counter stays their sum). 87533 distinct states. |
| `pin_map` | pass | Lookups, `LookupAndPin`, `Unpin` and releases of vnodes of two inodes keep `pinned_vnodes_` and `num_pins_` in step and the pinned instance alive. This includes `Ext2VNode::Remove`'s stack vnode unpinning an inode. 27499 distinct states. |
| `ahci_port` | pass | The constructor's `Configure` and `IdentifyDevice`, then `DiskReadWrite` calls of three requests on a two-sector disk, against a controller that starts in any `ST`/`FRE`/busy state and a drive that may fail one command. No call reports success for a command the drive failed (`SuccessIsReal`), no call returns while the controller still works on its command (`NothingInFlightWhenIdle`), and every call returns (`CallsReturn`). 855 distinct states. |
| `ext2_inode_table` | violation | `ReadVNode(2)` caches the table, a `WriteBack` of inode 2 writes version 1, and the next `ReadVNode(2)` returns version 0 and writes the old table back over version 1 (three steps). |
| `vfs_pin_balance` | violation | `Open` with create hands out a valid `FileHandle` whose inode was never pinned (one step). A failed `Mount`, `Unmount`, a second `Close` and `Remove` break the balance the other ways. |
| `page_map` | pass | Two `PageMap`s over eight frames, with frames assumed to come back zeroed. Every sequence of construction, copy, assignment, destruction and `Map`/`Unmap`/`Remap` calls and their range forms on pages 0, 1 and 8 translates as the calls say, and the frames stay partitioned between the free set and exactly one tree each. Allocation fails once a second tree grows. 56256 distinct states (under `ZeroedView`). |
| `ext2_block_map` | pass | Reads and Writes of one to three blocks from offsets in the direct range, across the direct/single boundary and inside the single-, double- and triple-indirect ranges, on a six-block disk with two pointers per block (allocation runs out of space). Every completed call returns exactly the blocks the layout maps the range to, and no mapped block ever moves. 9994 distinct states. |

### Further configurations

These configurations check further properties, each violated; they are kept
beside the runs above and give the traces behind findings in
`PROJECT.json`:

| Config | Module | Property | What TLC shows |
|---|---|---|---|
| `BuddyCarve.cfg` | `BuddyAllocator` | `PagesConserved` | An 8-page range is carved into 4+2+1 pages; page 7 is lost. |
| `Ext2BlockSpaceLeak.cfg` | `Ext2Alloc` | `AllocBlockFailsOnlyWhenFull` | `FreeBlock` never increments the group counter: after one free on a full group, `AllocBlock` fails with a free block on disk (two steps). |
| `Ext2BlockOwners.cfg` | `Ext2Alloc` | `BlockOwnersMatchBitmap` | `AllocBlock` returns a block other than the one whose bit it sets: one step. |
| `KHeapReallocTop.cfg` | `MCKHeap` | `AllocationsDisjoint` | `Allocate(32)`, then `Reallocate` to 96, which merges with the free `top_` to exactly 96, then `Allocate(32)`: the two allocations overlap. |
| `BuddyFreeAccounting.cfg` | `BuddyAllocator` | `MemInUseAccurate` | Freeing a page that merges subtracts the merged size: `mem_in_use_` wraps below zero. |
| `SectorCacheDiskError.cfg` | `SectorCache` | `ImplementsBlockDevice` | After the error bits are set, an eviction frees a dirty sector whose write-back failed: a later read returns the old data. |
| `KHeapExactFit.cfg` | `MCKHeap` | `TopOnlyWhenNoFit` | Free a 32-byte chunk, then allocate 32 again: `FindEntry` wants a strictly larger chunk, so the request shaves `top_`. |
| `KHeapWorstFit.cfg` | `MCKHeap` | `NoFault` | A 32-byte request takes a free chunk of `PMM_THRESHOLD` bytes whole (no split below 1024 bytes); its `Free` calls `BuddyAllocator::Free` on heap memory. |
| `KHeapGrowAtMax.cfg` | `MCKHeap` | `NoFault` | `GrowHeap` at `max_heap_size_` enlarges `top_` without mapping memory; the next `Allocate` writes past the window. |
| `Ext2BlockMapStale.cfg` | `Ext2BlockMap` | `TreeSound` | A file's `Touch` preallocates 15 blocks. `Remove` frees its tree without clearing the indirect blocks, and the next file's `Prealloc` takes a freed double-indirect child back: its stale pointers make the tree reach a block twice (seven states). |
| `Ext2BlockMapOverrun.cfg` | `Ext2BlockMap` | `NoOverrun` | A `Write` starting inside an indirect block and running past its end indexes the buffer past its last pointer. |
| `Ext2BlockMapHang.cfg` | `Ext2BlockMap` | `NoHang` | A `Write` to a block that is not the first under a missing child leaves the child pointer 0 and retries `ReadBlock(0)` for ever. |
| `Ext2BlockMapLeak.cfg` | `Ext2BlockMap` | `NoLeak` | `Write(18, 3)` runs out of blocks two levels down; the child buffer holding the blocks already allocated is dropped unwritten. |
| `Ext2BlockMapHoleRead.cfg` | `Ext2BlockMap` | `RangesInPartition` | A `Read` of a direct block never written (a hole, or past `i_size`, which `ReadWrite` does not test) gets extent block 0; `ReadBlocks` computes `(0 - 1) * sectors_per_block_` in `uint32_t` and sends the disk a range `Word - 2` sectors past block 1 (one step). |
| `SectorCachePressure.cfg` | `SectorCache` | `ImplementsBlockDevice` | With `MemCritical()` true, a read whose inserts evict the sector `cached_block` points to copies from a freed (or reused) `CachedSector`: two steps. |
| `KHeapGrowUnmap.cfg` | `MCKHeap` | `NoFault` | Other users of the buddy allocator fill physical memory. An `Allocate` that needs a larger top chunk calls `GrowHeap`, which unmaps the heap and cannot map it again; the loop's next read of `top_->size_` faults (four states). |
| `AhciPortRequestsInRange.cfg` | `AhciPort` | `RequestsInRange` | IDENTIFY sets `max_lba_` to the sector count, 2; a request of sectors 1-2 (or 2) passes the check on its first LBA and reaches the drive. |
| `LRUCacheList.cfg` | `LRUCache` | `ListWellFormed` | Evicting the last entry leaves `mru_` dangling; the next insert links to freed memory, or to itself. |
| `RbTreeLostKey.cfg` | `RbTree` | `ImplementsDictionary` | Insert 2, 3, 4, 1, then `Delete(3)`: the root takes key 2 from its predecessor, and the predecessor is deleted along with its child 1. |
| `Vfs.cfg` | `MCVfs` | `MountShadows` | `Open(/a)`, then `Mount(/a/m)`: a `Lookup` of `/a/m` still returns the on-disk directory. A mount on a name with no on-disk entry is never found at all. |
| `Ext2INodeTableOverrun.cfg` | `Ext2INodeTable` | `TableCoversReads` | The table is cached while inodes 1 and 2 are in use; `AllocVNode` hands out 3, and `ReadVNode(3)` reads past the two-inode buffer. |
| `VfsNoFault.cfg` | `MCVfs` | `NoFault` | `Remove(/a/m)`, then `Remove(/a/)`: the empty basename matches the tombstone left by the first `Remove`, and the child vnode reads inode 0. |
| `AhciPortDeviceSuccessReported.cfg` | `AhciPort` | `DeviceSuccessReported` | IDENTIFY fails once. A later `DiskReadWrite` whose command the drive completes still returns false, because `OpFailed` reads error bits nothing clears. |
| `VfsLinkCount.cfg` | `MCVfs` | `NoDanglingEntry` | One `SymLink` leaves an entry naming an inode whose count is 0. `Link(/a/m, /a/b)`, then removing one of the two names, drops the count to 0 while the other name remains; `Remove` then frees the file's blocks. |
| `VfsDirHang.cfg` | `MCVfs` | `MakeDirEntryReturns` | `Open(/a, create)` twice in the root: the first insertion adds a whole block to `i_size`, and the second walks that unwritten block for ever. |
| `PageMapUnzeroed.cfg` | `PageMap` | `TranslationsAsMapped` | With frames as `Allocate` returns them: `PageMap()`, `Map(20, 0)`, `~PageMap()`, `PageMap()`. The new root is the old root's frame, and the new map translates page 0 to 20. |
| `PageMapRemap.cfg` | `PageMap` | `FailedUnmapRolledBack` | `Remap` of an unmapped page: `Unmap` fails, and `Map(0, new_vaddr)` still maps the new page to physical page 0 (two steps). |
| `KHeapReallocCopy.cfg` | `MCKHeap` | `HeapVerifies` | An in-place `Reallocate` merged with a free chunk before it copies after `SplitAndPush` and overwrites the new chunk's header. |

### Bounds

- Buddy: six pages is the smallest range whose carve has two blocks of
  different orders and an order-2 block to split twice; eight pages is the
  smallest power-of-two range that shows the carving loss.
- HashMap: three keys with two collisions put tombstones inside a probe
  chain; capacity 31 allows four rehashes, and the rehash from 15 to 31 is
  the first that moves a key into slot 0. The copy is taken and changed
  only up to capacity 7 (`MaxCopyCap`): its operations are the table's own,
  and a larger copy multiplies the states without a new case.
- LRU: three nodes let a freed node be reused while others are live.
- SectorCache: two LBAs, two data values, two `CachedSector` objects and two
  list nodes. Requests of two sectors make a call with an uncached run before
  a hit, which is the shape of the `cached_block` hazard; two data values
  tell an old write from a new one. `SectorCachePressure.cfg` lets
  `MemCritical()` be true.
- Ext2Alloc: two groups make the counter skip and the group loop matter;
  two words per group make the word loop's `Full` test matter; two bits per
  word keep the top-bit case of `MarkBit` reachable. `MaxOwners = 2` lets a
  block be handed out twice.
- Ext2INodeTable: four inodes, two per block, two in use at mount: the
  table then ends on a block boundary, so the next allocation lies past it.
  `MaxVer = 3` allows a load, a write and a second read.
- PinMap: two inodes and three instances (symmetric model values) allow a
  pinned instance, an unpinned duplicate and a reused heap object at once.
  `MaxPins = 3` and `MaxRefs = 2` allow a second pin and a shared reference.
- Vfs: the root directory holds `.`, `..`, `a` (inode 11) and `ab` (12), and
  `a` holds `.`, `..` and `m` (13), itself a directory. Each directory is
  one block. The paths are `/a`, `/ab`, `/a/`, `/a/m` and `/a/b`. Inodes 14
  and 15 are free: enough for two creations, hence for a second insertion
  into one directory. The shared prefix of
  `a` and `ab` exercises `GetDirEntry`'s prefix match; `/a/` has an empty
  basename; `/a/m` is a mount point below a directory that can be pinned.
  - Two mount roots, two handles and `MaxPins = 3` allow a mount and an open
    file at once, on one inode.
  - `Junk` holds NUL and one other byte, the two outcomes of reading one past
    the component.
  - `MaxOpen = 2` bounds `open_handles_`.

- KHeap: the sizes are scaled down by 32 (`SmallLimit` 128 and
  `PMMThreshold` 512 stand for 1024 and 16 KiB). The heap starts at 128 bytes
  and its maximum is 1024, which allows three doublings. The request sizes
  are:
  - 32, which fits in every gap;
  - 96, which needs growth from the initial heap;
  - 480, which rounds to the buddy threshold.

  These reach lists of two entries, two non-empty bins, a large allocation,
  merges on both sides and growth. `CONSTRAINT BelowMaxHeap` stops at the
  maximum heap size. Without a split, the worst fit makes the heap reach its
  maximum, and growth there faults (`KHeapGrowAtMax.cfg`). The pass run
  therefore checks the heap below that point.

- RbTree: six keys is the smallest number at which every case happens. That
  includes the red-sibling case of `PreDeletionFix` and rotations that move a
  non-null child; with four keys no rotation moves a child. The lost-key
  trace needs four keys, and `RbTreeLostKey.cfg` uses four. Two values make
  `Update` visible. Nodes and values are symmetric model values.

- Ext2BlockMap: `P = 2` makes each indirect level hold two children, so
  offsets 12, 14 and 18 start the single, double and triple ranges and 15 and
  16 start inside a child. Requests of up to three blocks cross a range's end.
  Six blocks run out in the triple range, which reaches the failure paths. The
  stale-indirect trace needs a tree freed and reused, so
  `Ext2BlockMapStale.cfg` uses 20 blocks and `Prealloc = 15`, enough for a
  double-indirect child to be freed and reused.
  Two sectors per block (`SPB`) make every block a range of more than one
  sector, so an offset error inside a block shows; `PartBase = 0` loses no
  case, since the base is added to every range alike.

- AhciPort: two sectors and three requests: one inside the disk, one
  whose first LBA is inside and whose last is past the end, and one at
  LBA 2, equal to the sector count. `MaxErrors = 1` lets one in-range
  command fail, which is enough to make the error bits sticky; a command
  past the end always fails. `Junk` holds -1, 0 and the count, the values
  that decide the range check differently. The controller starts in every
  combination of `ST`, `FRE` and busy, as the firmware may leave it.

- PageMap: eight frames. A full tree for pages 0, 1 and 8 takes seven, so a
  copy of a map with one page mapped fits (four more frames) and a second
  full tree runs out, which reaches every allocation-failure path of
  `CreatePage`. Two maps are enough for copy, assignment and one map's
  frames being reused by another. They are symmetric. Two physical pages
  make one `MapRange` of two pages. `ZeroedView` blanks free frames, which
  no walk reads when frames come back zeroed (`FramesAccounted`).

### Deadlock and fairness

- `hashmap_checked` and `sector_cache` disable the deadlock check. The
  containers are passive; the model stops growing the map at `MaxCap`, and
  `Destroy` is a real final state of the port.
- `pin_map` disables it because `MaxPins` and `MaxRefs` bound the callers:
  at the bounds only actions that would exceed them remain.
- `ext2_alloc` checks deadlock: `AllocBlock` with a failing read is always
  enabled, as it is in the code.
- `ext2_block_map` checks deadlock: a `Read` of the direct range always
  completes.
- The `Vfs` configurations are violation runs. They disable the deadlock
  check: a `MakeDirEntry` that loops stops the kernel, which the model
  records with `hung` and then takes no step. No fairness is assumed:
  every VFS call comes from a caller that may stop calling.
- `Ext2INodeTable`'s configurations check deadlock: `ReadVNode` of the root
  inode is always enabled.
- `rb_tree` checks deadlock: `Insert` is always enabled.
- `page_map` checks deadlock: `Unmap` of a live map is always enabled, and
  `Construct` is enabled when no map is live.
- `kheap` checks deadlock. `Allocate` of a small request is always enabled
  below `MaxLive`, and `Free` is enabled when there is a live allocation.
- `kheap` assumes `WF_vars(AllocLoop)`. Panix is cooperative and nothing
  preempts kernel code, so once `Allocate` is in its grow loop the CPU keeps
  running it. No other action is fair, because the callers may stop calling.
- `ahci_port` disables the deadlock check. A spin loop that never ends is a
  state in which no action is enabled; `CallsReturn` reports it, and once
  every call has returned the callers may stop. It assumes weak fairness of
  every host step, because the CPU runs the polling loops without
  preemption, and of every controller step (grouped into one for the two
  ways a command ends). The AHCI specification makes the controller react to
  `ST`, `FRE` and `PxCI`. The callers of `DiskReadWrite` are not fair.

## Findings

Each violation run and further configuration is a disagreement between the
code and its spec or its own comments. `PROJECT.json` has the detail:
- the buddy allocator hands out the same page twice (the stale `forward_`
  that `PopFront` leaves); `mem_in_use_` underflows in `Free` and
  double-counts in `Realloc`; `CatalogRange` loses a page;
- `HashMap::Insert` duplicates a key behind a tombstone, and `Delete` never
  decrements the count;
- `LRUCache::Evict` leaves `mru_` dangling;
- `PageMap` uses frames from `Allocate` as page tables without clearing
  them, so a table built in a reused frame keeps stale entries; `Remap`
  maps the new address (to physical page 0) even when its `Unmap` fails,
  which spec.md 4.2 says is rolled back;
- `CacheReadWrite` uses `cached_block` after an insert may have evicted and
  freed it; `HandleEviction` drops a dirty sector whose write-back failed;
- `AllocBlock` returns `free_block + 1`, not the block it marked;
  `FreeBlock` and `DeleteINode` never restore the group counters;
- `Ext2VNode::Remove`'s stack vnode unpins the removed inode, taking its
  holder's pin; `GetVNode` counts a pin on every lookup of a pinned inode;
  lookups of an unpinned inode create several live instances;
- `ReadINodeTable` caches the inode table it read, while `WriteINode`
  writes the disk directly: `ReadVNode` returns old inodes, and the
  `DiskMem` destructors write the old table back over newer ones. The
  cached table covers only the inodes in use when it was read;
- `Ext2VNode::Lookup` searches the directory before the mount overlay, and
  its last component carries its NUL and a byte past the name, so it never
  equals a mount key: nothing mounted is ever reached through a path;
- `VFS::Mount` leaves its parent pinned when the partition or root lookup
  fails; `Unmount` unpins only when `mnts_.Len()`, which `Delete` never
  decrements, is 0; `Close` of a closed handle unpins again and never
  decrements `open_handles_`; `GetDirEntry` matches by prefix, and an empty
  basename matches a tombstone, whose inode 0 is then read; `Open` with
  create returns an unpinned handle;
- `MakeDirEntry` adds a whole block to `i_size` on every insertion, so the
  second entry created in any directory hangs the kernel; `Link` does not
  count the new name and `SymLink` never writes its inode back, so removing
  a name can free the blocks of a file that another entry still names; `Touch`, `MkDir`
  and `Remove` fail for names directly in the root;
- `KHeap::GrowHeap` unmaps the heap and leaves it unmapped once physical
  memory is used up, so `Allocate`'s grow loop faults; at `max_heap_size_` it grows `top_` past the mapped window;
  `FindEntry` skips exact fits; a small request can take a chunk of
  `PMM_THRESHOLD` bytes, whose `Free` then goes to the buddy allocator;
  `Reallocate` to exactly the size merged with `top_` hands out `top_`, and
  its in-place path copies after the split, over the new header;
- `RbTree::Delete` deletes the child of the in-order predecessor it unlinks,
  losing a key;
- `GetOrCreateExtents` caps a child's length by the whole subtree and not by
  what follows the start index, so an unaligned range overruns a block
  buffer; it allocates a missing child only at an aligned block and
  otherwise loops for ever on `ReadBlock(0)`; it drops a child buffer without
  write-back when a grandchild fails, leaking blocks; and it trusts the
  pointers in a freshly allocated indirect block, which `AllocBlock` never
  clears, so a reused one links free blocks into a new file;
- a `Read` of a hole or of a block past `i_size` reaches `ReadBlocks` as
  block 0, which, unlike `ReadBlock`, has no block-0 test: the wrapped
  `uint32_t` address lies about 2 TiB past the partition;

- `OpFailed` reads `PxIS.TFES` and `PxSERR`, which nothing clears: after
  one failed command every later command on the port is reported failed;
- `DiskReadWrite` checks only the first LBA of a request, against the sector
  count (or against junk after a failed IDENTIFY), so requests past the end
  of the disk reach the drive.

## Plan

1. Done: `BuddyAllocator`, `HashMap` + `KeyValueMap`, `LRUCache`,
   `SectorCache` + `BlockDevice`, `Ext2Alloc`, `PinMap`, `KHeap`,
   `RbTree` + `Dictionary`, `Ext2BlockMap`, `AhciPort`, `PageMap`.
2. Done: `AhciPort`. Next for the port: `RangeReadWrite`'s splitting into
   cached blocks, and the GPT lookup behind `GetNthPartition`.
3. `KHeap`: a pass run that reallocates, once the bugs of `Reallocate`
   are settled (every configuration with `Reallocate` fails on them).
4. Done: directory records (in `Vfs`) and the inode table's two paths
   (`Ext2INodeTable`). Next: inode contents per vnode instance, so that two
   instances' `WriteBack`s show their lost update, and two block groups, so
   that `inode_tab_cache_` evicts.
5. Done: `Vfs`, with the creation paths. Next: `FileHandle::Read`/`Write`
   and `ReadDir`, and a pass run once a property of the layer holds on the
   code.

The run list is capped at twelve runs, so new components will take the place
of violation runs whose findings are settled, which then move to the further
configurations.

## Not modelled

- The boot constructor of `PageMap`, `Load`, and page-table flags other than
  PRESENT; ACPI, PCIe and interrupt setup (boot-time parsing of
  firmware tables); the interrupt code (`interrupt.h`/`.cpp`, `int_handler.h`,
  `ioapic.h`), which does not compile (a duplicate `IntStackFrame`, a
  malformed `for` in `interrupt.h`) and whose `Interrupt::Init` is called
  nowhere; logging and port I/O; libc string routines other than `memcpy` (in `KHeap`); the
  commented-out `ext2.cpp` and `gpt.cpp`, and `sys/ext2.h`, which nothing includes; the copy constructor and assignment of `RbTree` (never called).
- Within modelled components: the allocator's handling of several memory
  ranges; `HashMap` moves (no caller), `operator[]` and the iterator (never instantiated); the sector cache's
  `GetNthPartition`; in `AhciPort`, the dead NCQ path (`NCQCapable()` returns false), the byte layout of
  the FIS and PRDT, and the data the drive moves; the superblock's `s_free_blocks_count` (which
  `AllocBlock` never updates) and the inode-table cache in `Ext2Alloc` (modelled in `Ext2INodeTable`);
  in `Ext2INodeTable`, more than one block group (where `inode_tab_cache_`
  evicts, and its handler's `DiskMem` copy writes back) and the byte layout
  of a table block;
  the heap's page-map calls (the window is `heapSize`), `Print`,
  `SetSizeLimit` and `ToPAddr`/`ToVAddr`; in `Vfs`, `GetDirEntry`'s reads
  past the block (it is taken as a prefix match on the first record), the
  path of `MakeDirEntry` that adds a new block when the last one is full,
  symlink targets of 60 bytes or more, the double free when `Touch`/`MkDir`
  turn the raw `Ext2VNode*` into a temporary `RefCntPtr` and then into a
  second one, and the contents of each instance's inode copy (instances are
  taken to agree with the disk); in `Ext2BlockMap`, byte offsets
  within a block, data contents, failing disk reads and heap allocations.
