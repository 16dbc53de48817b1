# A verification development for mem_smr

mem_smr is a Linux block driver that simulates a shingled (SMR) disk in
memory.  On a shingled disk the tracks of a band overlap, so a block can only be
overwritten by rewriting what follows it in its band.  The driver hides that: a
translation layer appends, a random-write buffer takes the updates, a garbage
collector makes room, and a detector recognises an ext2 file system in the
writes that pass by, in order to free the blocks it does not use and to keep its
metadata in the buffer.

This directory holds TLA+ modules translated from the C code, TLC configurations
that check them on small instances, and proofs that TLAPS checks for every
instance.  `PROJECT.json` lists components, runs, the lines each definition
stands for, hazards, findings and theorems.

## The system

| Component | Source | State | Operations |
|---|---|---|---|
| Translation layer | `stl.c`, `smr.h` | mapping table, reverse table, band counters, write cursor, vector of fully invalid bands | `write_smr_blocks`, `read_smr_blocks`, `append_smr_blocks`, `invalidate_mapping_entry`, `garbage_collecting` |
| Random-write buffer | `hdd_buf.c`, `hdd_buf.h` | slots, owner and access counters of each slot, vector of free slots, chosen cold slots | `write_block_into_hdd_buf`, `read_block_from_hdd_buf`, `swap_out_coldest`, `reclaim_free_hdd_buf` |
| Sorted vector | `hash_set.c`, `hash_set.h` | array, two counts, capacity | search, insert, remove, copy, clear |
| ext2 detector | `ext2_meta.c`, `ext2_meta.h` | detection status, super block, six vectors of block numbers | `detect_ext2_fs` and one detector per status, `mark_meta_blks`, `mark_all_free_blks` |
| Block driver | `mem_disk.c` | device, image, two saved files | request function, module init and exit, load and save |
| File-tree reader | `read_ext2.c`, two look-ups of `ext2_meta.c` | none of its own; buffers while it runs | `read_ext2_file_blocks`, `read_whole_ext2_file`, `visit_ext2_dir`, `traverse_ext2_fs`; no path of the driver calls them now (`mem_disk.c:672-673`) |
| Counters, utilities, raw access | `ds_*.c`, `hdd_io.c` | statistics | memcpy, printing |

The block layer calls `do_request` with the queue lock held; it calls
`write_smr_blocks` or `read_smr_blocks`, which work on one block at a time, to the
end, without sleeping.  A write first shows the block to the detector
(`detect_ext2_fs`), then looks the block up: a buffered block is overwritten in
its slot, a block on the SMR disk is invalidated there and put into the buffer,
a new block is appended.  A full buffer swaps `SWAP_OUT_CNT` blocks out by
appending them; an append that meets the end of a free run collects a band.
The detector calls back into both: it reads blocks through `read_smr_blocks`,
reclaims slots and invalidates mappings.  Free slots, invalid bands and metadata
are kept in sorted vectors.  `insmod` loads tables and image from two files or
initialises everything; `rmmod` saves when asked to.

### What is hard, and what makes each part correct

**Translation layer.**  One piece of information is kept four times: in the
mapping table, the reverse table, the counters of bands and the vector of
invalid bands, each updated by its own few lines in its own place.  Collection
runs in the middle of an append, on behalf of a write whose block has just lost
its mapping, possibly of one of several appends of a swap-out.  The cursor is
tested only at the start of a band, and not again after a collection.
*Correct if:* the tables are inverse to each other, the counters are what
counting gives, the vector is exact, a collection always finds room, nothing in
front of valid data is overwritten, and reads see the last write.

**Buffer.**  Slots are taken on a write and given back by swapping out and by
the detector.  The coldest slots are chosen by insertion into a short array
during one pass.  *Correct if:* a slot is free or has exactly one owner, the
slots chosen are different ones, metadata is favored when it should be.

**Sorted vector.**  A hash set used with one bucket, whose binary search has a
search, an insert and a delete mode; two counts, one in the bucket and one in
the vector.  *Correct if:* it is a set, in order, within its array.

**Detector.**  It sees blocks in any order and each of them only before it is
written; it knows what a block should be only from blocks it has seen; a file
system may be wiped or made anew meanwhile.  *Correct if:* what it declares is
exactly what is on the disk, it misses nothing, drops only blocks that the
bitmaps on the disk call free, and takes its flags back.

**Block driver.**  Loading and saving take dozens of calls that can fail; saving
overwrites in place.  The device is live before loading begins.  *Correct if:*
what is loaded is what was saved, or the disk is as good as new.

**File-tree reader.**  A range of a file is cut where one level of pointer blocks
ends and the next begins, and cut again within each level; the levels call one
another, and the walk over directories calls itself.  *Correct if:* exactly the
blocks of the range are read, the tree is listed once and in order, memory is
returned on every way out, and every call ends.  The reader is not correct: it
takes pointers for twice as wide as they are.  What is shown is how far it gets.

## Modules

| Module | Models | Extends / instantiates |
|---|---|---|
| `BlockDevice` | what a disk promises: a block reads as last written, until it is dropped | |
| `Stl` | `stl.c` and `hdd_buf.c` | refines `BlockDevice` |
| `MCStl` | symmetry, a view and a state constraint for TLC | `Stl` |
| `StlReload` | a reload of the module that fails after `s_ctr` was read, followed by requests | `Stl` |
| `SmrDiskProofs`, `StlProofs` | the inductive invariant of `Stl` | `Stl`, TLAPS |
| `StlDeviceProofs` | that `Stl` implements `BlockDevice` | `StlProofs` |
| `SwapOutProofs` | that the scan of the buffer finds the coldest slots | `StlProofs` |
| `BlockSet` | what a vector promises: a set | |
| `SortedVector` | `hash_set.c` | refines `BlockSet` |
| `SortedVectorProofs` | proofs about `SortedVector` | `SortedVector`, TLAPS |
| `Ext2Meta` | `ext2_meta.c` on top of a block device | `BlockDevice` |
| `Ext2Layout` | a disk that only ever holds one file system, of any size: what there is to be found | `Ext2Meta` |
| `MCExt2Meta` | a file system of two groups | `Ext2Layout` |
| `MCExt2Wiped` | one group, wiped and made anew, with zeroes where descriptors belong | `Ext2Meta` |
| `Ext2MetaProofs` | that the detector finds exactly the metadata, in time, and drops only free blocks | `Ext2Layout`, TLAPS |
| `ReadExt2` | `read_ext2.c` | |
| `MCReadExt2` | a small file system to read, and the lines of its tree | `ReadExt2` |
| `ReadExt2Proofs` | that exactly the range is read, the tree is listed and memory is returned | `ReadExt2`, TLAPS |
| `MemDisk` | module init and exit of `mem_disk.c` | |
| `MCMemDisk` | three contents of the driver's memory | `MemDisk` |
| `MemDiskProofs` | that a load restores what was saved, or initialises | `MemDisk`, TLAPS |

An operator whose name is that of another with a capitalised word after an
underscore (`Victim_First` of `Victim`) is a slip that could be made there; each
property has one that makes it fail, listed as mutants in `PROJECT.json`.

### `Stl` and the code

The variables have the names of the C variables; `pc` and `i` say where the
request in progress is.  A step is what the code does between two places where
it takes a decision that depends on what it has just done:

| Action | Code |
|---|---|
| `WriteHit`, `WriteUpdate`, `WriteNew` | `write_smr_blocks` up to the first loop or allocation, one per case |
| `ReadBuf` | `read_smr_blocks` of a buffered block, which heats its slot; other reads change nothing |
| `ScanColdBuf` | one turn of the loop in `swap_out_coldest` that chooses |
| `SwapOut` | one turn of the loop that appends |
| `GarbageCollect` | `garbage_collecting`, called by `get_free_smr_block` |
| `AppendNew`, `TakeFreeBuf` | the append of a new block; the slot for an update |
| `FreeSlot`, `MarkFree`, `SetMetaFlag` | what the detector does to the tables |
| `Fault` | an append past the end of the disk |

A request of several blocks is several requests of one block, since
`write_smr_blocks` loops over them and keeps no state between.  In the code
`reset_phy_buf_counter` and the append of a swapped-out block come one after the
other in one turn of a loop; they touch different variables, so one step does
both.  The detector is over-approximated: between requests it may free any
block or set any flag of `MetaBlocks`; what it really frees is `Ext2Meta`'s
concern.  The access counters stop at `MAX_ACCESS`.

`Fault` is the one place where the code has undefined behaviour: the entry after
the end of `smr_reverse_table` is read (`phy_bands[0]`), whose `valid_cnt` may
happen to equal `FREE_PHY_BLOCK`.  `pc = "oops"` stands for what follows.

### `SortedVector` and the code

`blks`, `capacity`, `blks_cnt` and `blocks_cnt` are the C fields.  A step is one
turn of a loop of `do_blk_no`: a probe of the search, a cell moved up before an
insertion, a cell moved down after a removal.  `do_blk_no` changes `blks_cnt`, the
count of the bucket (`Place`, `Removed`); back in `insert_into_sorted_vector` or
`remove_from_sorted_vector` (`pc = "returned"`) its result decides whether `blocks_cnt`,
the count of the vector, follows (`Counted`).  `copy_all_elements` inserts one number
after another.

### `Ext2Meta` and the code

Contents of blocks are records; a super block keeps the fields that the code
reads.  `Call` is `detect_ext2_fs` up to the call of the detector of the current
status, each detector is an action that either passes on to the next or gives
up, `MarkOneGroup` is one turn of `mark_all_free_blks`, `Store` the write that
follows.  `PowerOn` is the call in `mem_disk_init`.  The disk below is
`BlockDevice`, the specification that `Stl` refines, used through the same
actions: the detector is checked on what the layer promises instead of on the
layer.

The code checks little of what it believes: `is_legal_super_block` looks at the magic
number and at sizes, and the block numbers of a descriptor are used as indexes by
what reads the bitmaps and sets the flags.  `HostAssumption` is that trust, spelled out: the super
blocks and descriptors that the host writes name blocks of the disk.

`Ext2Layout` is the detector on a disk that only ever holds one file system.
`FsMeta` says what there is to be found, from the super block and the descriptors
and in the terms of ext2 (groups, copies of the super block, tables), not in those
of the code.  `LayoutAssumption` says what a layout is; two conjuncts of it name
limits of the code that a disk of `SMR_DISK_SIZE` does not meet: the loop over the
powers of 3, 5 and 7 stops too early from 28 groups on, and a full last block of
descriptors counts as empty, which takes 256 groups.  `WritesAssumption` says
that blocks of metadata are written with what belongs there, by the host and in
any order; super blocks of other kinds, which are refused, may come at any time,
and so may a wipe of block 0.

### `MemDisk` and the code

An action is one call of the virtual file system, in the order of the code, and
may fail, or transfer less than it was asked to: no caller looks at a count that is not
negative.  The image is counted in units, `EXT2_BLOCK_SIZE` to a block.  A turn of the
loops over it moves `pos` by the units transferred and `rw_ptr` by a block, so that a
transfer that ends early parts them; when `rw_ptr` then reaches the end of `data` before
`pos` reaches the end of the file, the next transfer is behind the vmalloc area, and
fails or is the end of the kernel (`pc = "oops"`).  The control file is a sequence of structures and numbers that are
overwritten by position; a structure takes one cell like a number, because only
what is found at a position matters, and a structure read where something else
is gives `Junk`.  What requests do to the memory is a choice among `Contexts`,
which `ContextAssumption` gives their types; the lengths saved with a structure are
those of its vectors at that time.  `exist` has the files that were ever made: the
other ones cannot be opened for reading.

### `StlReload` and the code

`LoadFails` is what is left of `Stl`'s state when `load_smr_ctrl` has read the image
and `s_ctr` and then fails: what `init_smr_disk` sets is set, the rest stays as it
was saved.  Whether `b_ctr` was read is a choice.  The calls that lead there are
`MemDisk`'s.

### `ReadExt2` and the code

The disk is a constant, since nothing writes while the reader runs.  `Disk` has the
structures in its blocks, `Numbers` the 32-bit numbers of its pointer blocks.  The code
goes through these with a `block_t *` (`read_ext2.c:143, 176, 226`), and `block_t` is 64
bits wide (`ds_types.h:20`): `Wide` is what it gets, two numbers joined at each index of the
first half, and nothing behind the buffer for the second half.  The direct pointers
are taken from `i_block`, which is 32 bits wide, and are right.  A pointer that is no
block of the disk indexes `mapping_table` (`stl.c:421`) far out of bounds, and behind the
buffer vmalloc has an unmapped page: `Fault`, and `pc = "oops"`.  So with the real sizes a file
of more than 13 blocks faults, unless the second number of a pair is 0; then another
block is read in silence.  Of a file with three blocks behind the direct ones the
second comes out as the third.  This is dead code, and a hazard in `PROJECT.json`.

`calls` is
the stack of the readers of one, two and three levels that are active, `dirs`
that of the activations of `visit_ext2_dir`; `FollowPointer` is one turn of the loops
of a reader, `ListEntry` one turn of the loop over the entries of a directory.
`heap` counts the buffers allocated and not freed, and `deep` the calls of the
two readers that do not free theirs.  A level that a range has nothing of is
passed without a call.

The code trusts the disk, so what is on it is assumed, for any disk:
`DiskAssumption` (blocks hold 32-bit numbers), `RangesAssumption` (the ranges asked for
are in what a file can have, the pointers in its inode are blocks of the disk),
`TreeAssumption` (a directory is a chain of entries without holes, those to be visited
lead to inodes in use) and `LinesAssumption` (the directories are a finite tree).
`FileBlock(P, ...)` says which block of the disk is block q of a file as ext2 numbers them,
by cases on the level, with nothing of how the code cuts a range: with `Numbers` for P it
is the block of the file, with `Wide` it is what this reader takes for it, and
`FileBlockOnDisk` whether the way there stays on the disk.  `TreeLines`
gives the lines that belong to each place of the tree, an offset into a directory
at a depth: those of the entry there, of what is below it, and of what is behind it.
`LinesAssumption` determines it and does not use `Skipped`, the code's own test.

## Runs

All bounds are in the `.cfg` files.

| Run | Instance | Distinct states | Shows |
|---|---|---|---|
| `stl_detector` | 2 bands of 2, all 4 blocks used, 3 slots of which 2 are swapped out, counters to 2, block 0 favored, detector | 215 000 | tables, slots, counters, invalid bands and the free run stay consistent; slots chosen are different and the coldest; a collection finds room; every request ends |
| `stl_device` | 2 bands of 2, all 4 blocks used, 2 slots, two contents, detector, counters to 2 | 1 930 000 | the layer implements `BlockDevice`; no write destroys valid data behind it in its band; the inductive invariant holds |
| `stl_end` | 2 bands of 4, all 8 blocks used, 3 slots of which 2 are swapped out, detector | 233 000 | a write past the end happens only when a collection would have found room |
| `vector` | 4 numbers, first capacity 1 | 254 000 | the vector implements `BlockSet`, stays in its array, its two counts agree, it returns |
| `ext2_fresh` | 2 groups of 6 blocks, written in any order, a wiped block 0, refused super blocks | 466 000 | exactly the metadata is found, in time; flags never outlive the file system; only free blocks are dropped; every write is answered |
| `ext2_tree` | files of 5 and, sparse, of 86 blocks on three levels, three nested directories | 2 300 | what is read is what the pointers, taken for 64-bit ones, lead to, in order and without gaps; the reader faults at the first block they do not lead to, and not before; the tree is listed, memory is returned, every call returns or faults |
| `disk_life` | 3 contexts, image of 2 blocks of 2 units, one call that fails or ends early | 168 000 | a successful load restores the last save; an image passes only if no transfer of it was cut short, and nothing else takes a loop behind `data` |

These find a disagreement between the code and what it says of itself; each is
a finding in `PROJECT.json`, with the line:

| Run | Finding |
|---|---|
| `stl_past_end` | after the last block of the disk the cursor points past the table, and a stray value there lets the driver write past the end |
| `stl_meta_evicted` | favored metadata is swapped out in place of data with fewer accesses |
| `stl_failed_load` | after a failed load the cursor stays where the old session left it; appending wraps around to it and overwrites a block in use |
| `ext2_stale_descs` | blocks mapped from earlier use pass for descriptors |
| `disk_torn` | a save that failed half-way is loaded without complaint |

`stl_failed_load` needs 24 steps: the cursor has to be left in the middle of a band
that is not the first, the initialised disk filled behind it, and the bands in
front of it taken in order until its own band comes again.

Other surprises are among the hazards, with their lines: `init_smr_disk` after a
failed load leaves the metadata flags of the old context as well;
`load_sorted_vector` hides a read that failed, and nothing notices a transfer that is
short; the reader takes 32-bit pointers for 64-bit ones; a super block wiped during
detection goes unnoticed; blocks are dropped when detection completes, although
document.pdf says that happens only at power-on; `read_indirect2_blocks` and
`read_indirect3_blocks` never free their buffer.  The last is what
`MemoryReturned` says exactly: what is missing when a call returns is one buffer
for each call of these two, and nothing else.

Some limits lie just outside what this disk can be asked for, and are no hazard
of it: `get_number_of_BG_DESCs` (`ext2_meta.c:207`) would count 0 descriptors in a
full last block, but a legal super block has at most eight descriptors and a
block holds 128; the loop over powers of 3, 5 and 7 (`ext2_meta.c:124`) would miss
the backup in group 27; `mark_one_blk_bmp` (`ext2_meta.c:443`) goes through padding
bits, but eight groups of 32768 blocks end with the mapping table;
`do_data_transfer` (`mem_disk.c:203`) drops requests that the block layer does not
send.

### Why the bounds are enough

*Two bands of two blocks* give every kind of band (free, in use,
partly and fully invalid) at once, a collection that compacts in place and one
that frees a band, and a disk on which the cursor wraps.  *All blocks in use*
is the hard case for room: the buffer is then all the slack there is.  *Two
slots, one swapped out* make the buffer full after two updates; *three slots,
two swapped out* make two appends in one swap-out, and with counters to 2 the choice
replaces a chosen slot, when the third has been written less than one of the first two.  *Bands of four* are needed where the count of a band can equal
`FREE_PHY_BLOCK` (4).  Counters of accesses only decide which slot is colder,
so small `MAX_ACCESS` gives all orders; in `stl_meta_evicted` it is 4, for a write to
metadata counts twice.

Every safety property of the passing runs is proved for all sizes as well; the
bounds matter for liveness, which is not, and for the runs that refute.

*Four numbers and a first capacity of one* make the array grow twice and the
search take up to three probes.

*Two groups* have a backup super block and descriptors, which a single group
has not; with `DESCS_PER_BLOCK` 2 and a group more than one inode block would
need, the rounding of every division is exercised once; the loop over powers of
3, 5, 7 is checked by the assumption `SparseSuper` of `MCExt2Meta` for all the group
counts a legal super block can have, and more.

*Two direct pointers and four numbers in a block* make 86 blocks use every level, and a
pointer block one of two pairs and of two indexes behind it.  Every range of a file of
five blocks is read, which the pairs mislead; and from every block of a sparse file,
whose every second number is 0, ranges of several lengths, so that the readers of
all levels run, begin anywhere and end.  The tree has the cases of the loop over entries:
itself, above, deleted, a file, a file with several links, a directory in a directory,
directories with a block behind the direct ones.

*One call that fails or ends early, in any session*, reaches every error path; the
contexts have vectors of different lengths, so that each save shifts what an older
one left.  *Two blocks of two units* let a transfer end within a block and one more
follow, which is where `pos` and `rw_ptr` come apart.

### Constraint, symmetry and fairness

`stl_past_end` uses the state constraint `BandZeroIntact`, that nothing in band 0 has been
invalidated: the fault needs a band 0 of four valid blocks (the number that reads as
free) when the cursor reaches the end, so behaviours that have collected band 0 are
followed no further.  It refutes, so that nothing rests on what is left out.
`stl_end` has no constraint, and all eight blocks in use, so that the disk can be full
but for what the buffer holds.  Neither checks for deadlock, because the driver
stops where it faults.  `disk_life` and `ext2_tree` do not either: a transfer behind `data`
and a pointer to nowhere may be the end of the kernel.

`Data` is symmetric in `stl_device`: contents are copied and compared, nothing
else, and the properties checked there are safety properties that treat them
alike.  No run with a liveness property uses symmetry.

`stl_detector` and `stl_device` have the view `LiveState`.  It leaves out the content and
the owner of a slot that is free, which `TakeFreeBuf` overwrites before anything reads
them, and the buffers chosen last once they are swapped out, which the next scan
overwrites.  Two states with the same view have the same steps and the same
values of the properties checked, so one of them is enough.  `stl_end` has the view
`NamelessState`: there no block is metadata and all have one content, so that states
which differ in the names of blocks only have the same steps up to these names, and
its property speaks of no name.

Fairness: `do_request` is called with the queue lock held and works in a loop
without sleeping or waiting, so a step of the request in progress is always
taken eventually: weak fairness of `Serve` in `Stl` and of `Step` in
`SortedVector` and `Ext2Meta`.  No fairness is assumed for the host.

## Proofs

### Translation layer: `SmrDiskProofs`, `StlProofs`

`Spec => []IInv`, where `IInv` is the conjunction of `TypeOK`, `MappingBijection`,
`BufferOwnership`, `BandCounters`, `FullyInvalidExact`, `FreeRun`, `GcFindsRoom`,
`ColdBufsDistinct` and `Phases`.  None of these is inductive alone.  That a
collection finds room needs a band which is not full of valid blocks: that
follows from counting, since at most as many blocks are mapped as there are
places, and the block being written has no mapping at that time (`Phases`,
`MappingBijection`); that the victim is such a band follows from `BandCounters`;
that its compaction leaves the tables inverse needs `MappingBijection` before;
and that the append goes to a free place needs `FreeRun`.  The argument about
room is `CollectorFindsRoom`; the rest of the invariant falls to one lemma per
action.  `SmrDiskProofs` has what concerns the disk alone: arithmetic of bands,
counting, compaction (that `Target` is a bijection onto the front of the band),
invalidation, append.  `StlProofs` has the actions and the theorems.

From the invariant follow the listed theorems `TypeCorrect`, `MappingCorrect`,
`BufferCorrect`, `CountersCorrect`, `FullyInvalidCorrect`, `FreeBlocksOneRun`,
`ColdBufsDiffer`, `CollectorFindsRoom`, `FaultNotForWantOfRoom` and the action
property `Shingled`.  Assumptions, all of `Stl`: `GeometryAssumption` (at least one
band of at least one block), `BufferAssumption` (the comment in `hdd_buf.h` that
`SWAP_OUT_CNT` is smaller than the buffer) and `ParameterAssumption` (types).

### The layer is a disk: `StlDeviceProofs`

`DeviceImplemented`: `Spec => Device!Spec` under the refinement mapping that takes
as content of a block what a read of it would return, and the data of the write
in progress for its block.  A lemma per action says, block by block, what that
content is afterwards (`StoreAt`).  Where an action writes to a slot or to a place
of the disk, the invariant gives that no other block is read from there: no two
blocks share a place (`MappingBijection`) or a slot (`BufferOwnership`), an append
goes to a free place (`FreeRun`), a slot that is taken is free (`Phases`).
Compaction moves several blocks at once: each reads afterwards, at its target,
what it read before, and what has not moved has not been written to
(`CompactionMoves` in `SmrDiskProofs`).

### The scan of the buffer: `SwapOutProofs`

`ColdestSwappedOut`: when no buffer has been read, the `SWAP_OUT_CNT` buffers
chosen in one pass are not hotter than any that is left.  The scan invariant is
`ChosenSoFar`: of the slots passed so far, none that was not chosen is colder than
one that was.  A turn replaces the hottest of the chosen, and that there is one
(`FirstGreatestCold`) is where the proof needs the finiteness of `Colds`.
The restriction is the code's: with reads, `update_cold_buf` compares writes with
accesses, and `stl_meta_evicted` shows what comes of it.

### Sorted vector: `SortedVectorProofs`

`VectorInvariant`: the array is sorted and within bounds in every intermediate
state, with one hole while cells are moved; the strengthening is `Searched`, the
invariant of binary search.  `VectorImplementsSet`: every step is a step of
`BlockSet` or leaves it alone; the refinement mapping takes as content the cells
that are not the hole.  For the counts it is `Announced`: what `do_blk_no` returns says
what it did to the count of the bucket, so that counting by it makes the two agree.
`VectorInBounds`, `VectorOrdered` and `VectorCountsAgree` are
the parts of the invariant that callers rely on.  Assumption: `VectorAssumption`
(numbers are naturals, finitely many, the first capacity is not zero).

### Detector: `Ext2MetaProofs`

`FlagsCorrect`: the blocks flagged as metadata are exactly those of the vectors
while a file system is detected, and none otherwise.  It is nearly inductive:
`FlagInv` adds only that the tables are functions with their domains (`TablesOK`).
The work is in the two actions that set and clear flags by going through five
vectors, where the last vector that names a block decides (`MaxOfIndexes`), and in
showing that no other detector touches a vector while flags are set.  It needs
no assumption about the host.

`DetectorTypeOK`, under `HostAssumption`: whatever the order of writes, wipes and
power cycles, no vector comes to name a block that the disk has not.  `TypeOK` is not
inductive, since the detectors read from `sb0` where to look next: `DetInv` adds that
a super block which is believed is one that the host has written, and what the
vector of super blocks holds while the copies are waited for.

`MetadataDetected`, `DetectionInTime` and `OnlyFreeDropped`, under `LayoutAssumption`
and `WritesAssumption` as well: for a file system of any size, written in any order,
`EXT2_DETECTED` means that exactly its metadata has been found; with everything on
the disk the next write finds it; and a block loses its data only if the
bitmap of its own group, as it is on the disk, says that it is free.  The
invariant is `FsInv`:

- `VectorsFound`: at each status the vectors that are filled by then are those of
  `FsMeta`, and the temporary vector holds what is waited for.  The detectors of
  the copies and of the descriptors are shown to compute what `Ext2Layout` defines
  in other terms: the rounded divisions (`Needed`), the powers, the blocks behind
  each super block.
- `FlagsFound`: each flag is that of the vector in which the block is; the vectors of a
  layout are disjoint, so that the order in which they are gone through does not
  matter.
- `FromHost`, `BitmapsThere`: what the bitmaps say was written there, and they are
  there while blocks are dropped, for they are never free themselves.
- `StageOK`: what the step in progress implies about the status.  `DetectionInTime`
  hangs on its last part, that no detector gives up with everything it waits for on
  the disk.

For `OnlyFreeDropped` the code's way from a bitmap to its group, the rank of its
number in a sorted vector, has to be shown right: ranks are counted, and they agree
because bitmaps lie in the order of their groups.  TLC also went through these
invariants for a layout of three groups, the third without a copy of the super
block, with descriptors of two blocks (5.4 million states, too many for a run).

### Life cycle: `MemDiskProofs`

`LoadRestoresSave`: a load that reports success, and did not miss an error or a short
transfer of control data, brings back the memory as the last completed save left it;
`ImageKeptInStep`: an image is accepted only if `pos` and `rw_ptr` went over it in step, and
the loops run behind `data` only after they have come apart; and `MemDiskTypeOK`, which
has that no transfer moves an end of `data` or makes the image file longer than the disk.
They hold for disks and blocks of any size, vectors of any number and length, and any
number of calls that fail or end early.
That short transfers of the image cannot get through unnoticed, although no one
counts them, follows from `rw_ptr` being ahead of `pos` from then on, in steps of a block:
the loop still runs when `rw_ptr` is at the end, and what comes there is an error at best.
`LoadRestores` says nothing of the states on the way; the invariant has to say what
is in the files:

- `SaveOK`: the parts saved so far lie in the control file one behind the other,
  as `Layout` orders them (`Laid`), the offset of each depending on the lengths of the
  vectors before.
- `SavedOK`: after a completed save both files hold all of it, though the control
  file may be longer; a later save that fails to open leaves that so.
- `LoadOK`: while it is loaded, the parts read are those of the saved context, and
  the position in the file is the offset of the next one.

The position agrees only because a vector is read with the length that came with the
structure in front of it; the reads are shown to get the cells that were written there
(`Overwritten` for a write, `FoundInPlace` for a read), and the elements of a
vector to be the set they were made from.  Assumptions: `LifeCycleAssumption`,
`NamesAssumption`, `ContextAssumption` (types).

### Reader: `ReadExt2Proofs`

`ReaderTypeOK`, `ReadGetsRange`, `ReaderFaultsWhereLost`, `ReaderReturnsMemory` and
`WalkListsTree`, for every size of inode, pointer block and file, every content of the
pointer blocks, every range, and every finite tree of directories.

`Chain` says of the stack of readers that each goes on where the one above it will
stop, over blocks of the file without a gap, up to what the parts to come begin with
(`Parts`).  Following a pointer keeps it: the block that level l, pointer p, offset o lead
to is one that level l - 1 leads to (`LeafBelow`, with the arithmetic of
quotients and remainders, `WhichUnit`), and the way to it stays on the disk if and only if
the rest of the way does (`FaultIsLost`).  `FilePartsCover` and `WholePartsCover` are the two
ways of cutting a range, shown to be such parts for every range; they have the borders
where a level begins or ends within the range, or exactly at its edge.  All this is in
terms of `Wide`.  Where that is right is a matter of arithmetic: a pair of numbers, both
below `WORD`, is a block of the disk only if the second is 0, and then it is the
first (`PairIsNumber`).  So the first block behind the direct ones is right if it is the
last (`ReadIsRight`), and a directory that has been read to its end, in which no pointer
may be 0, was read right (`DirectoryIsRight`): a reader that got through cannot have met a second
pointer behind the direct ones.

Memory is counted by `Accounts`: three buffers for each activation of
`visit_ext2_dir` or one for `read_ext2_file_blocks`, one for the reader that will free its
own, and `deep` that nobody will.

For the walk, `Pending` gives the lines still to be printed by the activations of
`visit_ext2_dir` that are on the stack, the innermost first, and `Listed` says that
what has been printed, followed by these, is the tree, also when a directory that cannot
be read has ended the walk.  An entry moves a line from one
to the other, entering a directory puts its lines in front, leaving one drops none.
That the entry which the code reads from its buffer is the one on the disk at that place is
`EntryOfDirectory`.

### Model-checked only

- Liveness (`RequestAnswered`, `CallReturns` of the vector and of the reader,
  `WriteAnswered`) rests on fairness and `ENABLED`, which are beyond the prover.
- The properties of the runs that refute.
- That data is not lost to a bitmap older than it, or to the geometry of a file system
  that was wiped during detection, is not claimed at all: see the hazards of `ext2_meta.c`.

## Not modelled

- Of `read_ext2.c` the functions that print on-disk structures
  (`print_ext2_super_block` and the like, `display_ext2_meta_data`); what the reader
  does when no file system is detected; the depth of the kernel stack.
- Statistics (`ds_counter`, `hit_cnt`), printing, `ioctl` geometry, the count of
  users of the device, build and load scripts.
- Requests between `add_disk` and the end of `mem_disk_init`, and failures in
  `setup_device`: see the hazards in `PROJECT.json`.
- Overflow of the access counters, which are 32 bits wide and cleared whenever a
  block leaves the buffer.
- Super blocks that `mke2fs` does not write (no blocks at all; a bitmap whose
  padding is clear).

## Plan

Done: 1 `BlockDevice`, `Stl` with its invariant proved; 2 `BlockSet`,
`SortedVector` with refinement proved; 3 `Ext2Meta` on `BlockDevice`; 4 `MemDisk`;
5 `StlReload`, `ReadExt2`; 6 the proofs that `Stl` implements `BlockDevice`, that the
scan finds the coldest buffers, and that flags and vectors agree; 7 the proofs about
`MemDisk`, about the detector on any layout, and about the reader.

To come, in this order:

1. The detector's disk: that `Ext2Meta` hidden down to requests and contents is a
   `BlockDevice` which also drops free blocks, so that the detector over `Stl` needs no
   argument in words.
2. `ColdestSwappedOut` with reads, as far as it holds: what `update_cold_buf` does order.
3. What is true of a torn save: which of the parts of a loaded context belong together.
4. `MemDisk`: requests in the window that `add_disk` opens once the vectors exist.
5. The order in which a host writes bitmaps and data, and what is dropped when a bitmap
   on the disk is older than the data.
