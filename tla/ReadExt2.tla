------------------------------ MODULE ReadExt2 ------------------------------
(***************************************************************************)
(* The reader of an ext2 file system on the disk, read_ext2.c, with the    *)
(* two look-ups of ext2_meta.c it rests on: a range of the blocks of a     *)
(* file, through one, two or three levels of pointer blocks, and a walk    *)
(* through the tree of directories.                                        *)
(*                                                                         *)
(* Nothing writes while it runs, so the disk is a constant, and a block    *)
(* that has been read is known by its number.                              *)
(***************************************************************************)
EXTENDS Integers, Sequences

CONSTANTS
  EXT2_NDIR_BLOCKS,    \* pointers to blocks of the file in an inode
  BLK_NUM_PER_BLK,     \* pointers in a block
  EXT2_BLOCK_SIZE,
  DESCS_PER_BLOCK,     \* EXT2_BLOCK_SIZE / sizeof(struct ext2_group_desc)
  INODES_PER_BLOCK,    \* EXT2_BLOCK_SIZE / sizeof(struct ext2_inode)
  s_inodes_per_group,  \* of meta_ctr.sb0
  WORD,                \* 2^32: pointers are __u32 on the disk
  Disk,                \* block -> content, for those who look for structures
  Numbers,             \* block -> content, for those who look for pointers
  InodesInUse,         \* the numbers of the inodes that are not free
  TreeLines,           \* the tree: the lines from each place in it on
  FileReads            \* the triples <<inode number, from, n>> asked for

EXT2_ROOT_INO == 2
SB0_BLOCK_NO  == 0

ASSUME ReaderAssumption ==
  /\ EXT2_NDIR_BLOCKS \in Nat \ {0}
  /\ BLK_NUM_PER_BLK \in Nat \ {0, 1}
  /\ EXT2_BLOCK_SIZE \in Nat \ {0}
  /\ DESCS_PER_BLOCK \in Nat \ {0}
  /\ INODES_PER_BLOCK \in Nat \ {0}
  /\ s_inodes_per_group \in Nat \ {0}

(* The content of a block is a function on offsets: of a block of          *)
(* descriptors the first blocks of the inode tables, of a block of an      *)
(* inode table the inodes, of a block of a directory, at the offsets where *)
(* an entry starts, the entry; and of every block its numbers of 32 bits.  *)
(* An inode is [dir, i_size, i_block], an entry [inode, rec_len, name].    *)
(* Where a file has no block its pointer is 0, which is a block too.       *)
ASSUME DiskAssumption ==
  /\ WORD \in Nat \ {0}
  /\ SB0_BLOCK_NO \in DOMAIN Disk /\ DOMAIN Disk \subseteq 0 .. WORD - 1
  /\ Numbers \in [DOMAIN Disk -> [0 .. BLK_NUM_PER_BLK - 1 -> 0 .. WORD - 1]]

VARIABLES
  pc,       \* "idle", "read" (a file), "list" (a directory) or "oops"
  ip,       \* the inode of the file being read
  want,     \* the blocks [from, n] of it that are wanted
  todo,     \* calls of read_direct_blocks etc. that are to come
  calls,    \* the stack of those that run, the innermost first
  buf,      \* the blocks read so far
  dirs,     \* the stack of the activations of visit_ext2_dir
  listing,  \* the lines printed: depth and name
  heap,     \* buffers that the call from outside has allocated and not freed
  deep      \* its calls of read_indirect2_blocks and read_indirect3_blocks

reading == <<ip, want, todo, calls, buf>>
vars    == <<pc, reading, dirs, listing, heap, deep>>

Least(a, b) == IF a <= b THEN a ELSE b

(* The blocks of a file that a pointer block of level l leads to:          *)
(* INDIRECT_BLKS, DOUBLE_IND_BLKS, TRIPLE_IND_BLKS; and one pointer in it. *)
Span(l) == <<BLK_NUM_PER_BLK,
             BLK_NUM_PER_BLK * BLK_NUM_PER_BLK,
             BLK_NUM_PER_BLK * BLK_NUM_PER_BLK * BLK_NUM_PER_BLK>>[l]
Unit(l) == IF l < 2 THEN 1 ELSE Span(l - 1)

NoFile == [dir |-> FALSE, i_size |-> 0, i_block |-> <<>>]

Init ==
  /\ pc = "idle"
  /\ ip = NoFile
  /\ want = [from |-> 0, n |-> 0]
  /\ todo = <<>>
  /\ calls = <<>>
  /\ buf = <<>>
  /\ dirs = <<>>
  /\ listing = <<>>
  /\ heap = 0
  /\ deep = 0

----------------------------------------------------------------------------
(* Where things are.  As in Stl, a name with a capitalised word after an   *)
(* underscore is a slip in the definition behind it.                       *)

(* bg_inode_table of a descriptor.                                         *)
read_group_desc(bg_no) ==
  Disk[SB0_BLOCK_NO + (bg_no + DESCS_PER_BLOCK) \div DESCS_PER_BLOCK][bg_no % DESCS_PER_BLOCK]

(* Inodes are numbered from 1.                                             *)
read_ext2_inode(ino) ==
  LET pos_in_table == (ino - 1) % s_inodes_per_group
  IN  Disk[read_group_desc((ino - 1) \div s_inodes_per_group) + pos_in_table \div INODES_PER_BLOCK]
          [pos_in_table % INODES_PER_BLOCK]

(* Where the blocks that the direct pointers and each level lead to end.   *)
pos == <<EXT2_NDIR_BLOCKS,
         EXT2_NDIR_BLOCKS + Span(1),
         EXT2_NDIR_BLOCKS + Span(1) + Span(2),
         EXT2_NDIR_BLOCKS + Span(1) + Span(2) + Span(3)>>
LevelOf(count) == CHOOSE l \in 1 .. 4 : count <= pos[l] /\ \A m \in 1 .. l - 1 : pos[m] < count

(* A call of read_direct_blocks (level 0) or read_indirect<level>_blocks.  *)
PartCall(level, from, n) == [level |-> level, from |-> from, n |-> n]

(* read_ext2_file_blocks cuts the range at pos; a level that the one       *)
(* before has led to is read from its start.                               *)
FileParts_FromStart(from, n) ==
  LET first == LevelOf(from + 1)
      last  == LevelOf(from + n)
      blocks(l) == IF l < first \/ last < l THEN 0
                   ELSE Least(from + n, pos[l]) - (IF l = first THEN from ELSE pos[l - 1])
  IN  [l \in 1 .. 4 |-> PartCall(l - 1, 0, blocks(l))]
FileParts(from, n) ==
  LET first == LevelOf(from + 1)
      last  == LevelOf(from + n)
      blocks(l) == IF l < first \/ last < l THEN 0
                   ELSE Least(from + n, pos[l]) - (IF l = first THEN from ELSE pos[l - 1])
      start(l)  == IF l = 1 THEN from
                   ELSE IF blocks(l - 1) # 0 THEN 0 ELSE from - pos[l - 1]
  IN  [l \in 1 .. 4 |-> PartCall(l - 1, start(l), blocks(l))]

(* read_whole_ext2_file: each level takes all that is left or all it can,  *)
(* but the last takes nothing when too much is left.                       *)
WholeParts(blocks) ==
  LET left(l) == IF l = 1 THEN blocks ELSE blocks - pos[l - 1]
      room(l) == IF l = 1 THEN EXT2_NDIR_BLOCKS ELSE Span(l - 1)
      last    == IF blocks > pos[4] THEN 3 ELSE LevelOf(blocks)
  IN  [l \in 1 .. last |-> PartCall(l - 1, 0, Least(left(l), room(l)))]

BYTES_ALIGN_TO_BLOCKS(bytes) == (bytes + EXT2_BLOCK_SIZE - 1) \div EXT2_BLOCK_SIZE

(* The activation of a reader that has read its pointer block: the         *)
(* distance of ptr from the start of the buffer, in units of *ptr, the     *)
(* offset into what that one leads to, the blocks to go.                   *)
Enter_NoOffset(level, blk, from, n) ==
  [level |-> level, blk |-> blk, ptr |-> from \div Unit(level), offset |-> 0, n |-> n]
Enter(level, blk, from, n) ==
  [level |-> level, blk |-> blk, ptr |-> from \div Unit(level),
   offset |-> from % Unit(level), n |-> n]

(* ptr is a block_t *, and block_t is __u64: what it points to are two     *)
(* numbers of the block, the first one the low half, and the second half   *)
(* of the indexes is behind the buffer, where vmalloc has nothing mapped.  *)
(* The direct pointers are taken from i_block, which is __u32.             *)
Wide ==
  [blk \in DOMAIN Disk |-> [p \in 0 .. BLK_NUM_PER_BLK - 1 |->
     IF 2 * p + 1 < BLK_NUM_PER_BLK THEN Numbers[blk][2 * p] + WORD * Numbers[blk][2 * p + 1]
     ELSE -1]]
Pointer(c) == IF c.level = 0 THEN ip.i_block[c.ptr] ELSE Wide[c.blk][c.ptr]

----------------------------------------------------------------------------
(* Reading blocks of the file ip.                                          *)

Read(inode, from, n, parts) ==
  /\ ip' = inode
  /\ want' = [from |-> from, n |-> n]
  /\ todo' = parts
  /\ buf' = <<>>
  /\ pc' = "read"
  /\ UNCHANGED calls

(* read_ext2_file_blocks allocates an inode.                               *)
ReadFileBlocks(ino, from, n) ==
  /\ pc = "idle"
  /\ Read(read_ext2_inode(ino), from, n, FileParts(from, n))
  /\ heap' = 1
  /\ deep' = 0
  /\ listing' = <<>>
  /\ UNCHANGED dirs

(* The next level is entered, if there is anything of it in the range; an  *)
(* indirect one allocates a buffer.                                        *)
CallReader ==
  LET c == Head(todo)
  IN  /\ pc = "read" /\ calls = <<>> /\ todo # <<>>
      /\ todo' = Tail(todo)
      /\ \/ c.n = 0 /\ UNCHANGED <<calls, heap, deep>>
         \/ /\ c.n # 0
            /\ calls' = <<Enter(c.level, IF c.level = 0 THEN SB0_BLOCK_NO
                                         ELSE ip.i_block[EXT2_NDIR_BLOCKS + c.level - 1],
                                c.from, c.n)>>
            /\ heap' = IF c.level = 0 THEN heap ELSE heap + 1
            /\ deep' = IF c.level < 2 THEN deep ELSE deep + 1
      /\ UNCHANGED <<pc, ip, want, buf, dirs, listing>>

Count_Unit(c) == Unit(c.level)
Count(c) == Unit(c.level) - c.offset

(* One pointer of the innermost activation: the block it leads to is read, *)
(* or the reader of the level below is called.  The level 1 reader frees   *)
(* its buffer at its end; the readers of levels 2 and 3 return from within *)
(* their loop, before they would.                                          *)
(* A number that is no block of the disk indexes mapping_table far behind  *)
(* its end, and behind the buffer there is nothing to read: a page fault   *)
(* in the kernel, after which nothing of the driver is claimed.            *)
FollowPointer ==
  LET c    == Head(calls)
      last == c.n <= Count(c)
      past == [c EXCEPT !.ptr = @ + 1, !.offset = 0, !.n = @ - Count(c)]
      rest == IF last THEN Tail(calls) ELSE <<past>> \o Tail(calls)
  IN  /\ pc = "read" /\ calls # <<>>
      /\ Pointer(c) \in DOMAIN Disk
      /\ \/ /\ c.level < 2
            /\ buf' = Append(buf, Pointer(c))
            /\ calls' = rest
            /\ heap' = IF last /\ c.level = 1 THEN heap - 1 ELSE heap
            /\ UNCHANGED deep
         \/ /\ c.level >= 2
            /\ calls' = <<Enter(c.level - 1, Pointer(c), c.offset, Least(c.n, Count(c)))>> \o rest
            /\ heap' = heap + 1
            /\ deep' = IF c.level = 3 THEN deep + 1 ELSE deep
            /\ UNCHANGED buf
      /\ UNCHANGED <<pc, ip, want, todo, dirs, listing>>

Fault ==
  /\ pc = "read" /\ calls # <<>>
  /\ Pointer(Head(calls)) \notin DOMAIN Disk
  /\ pc' = "oops"
  /\ UNCHANGED <<reading, dirs, listing, heap, deep>>

AllRead == pc = "read" /\ calls = <<>> /\ todo = <<>>

ReturnBlocks ==
  /\ AllRead
  /\ dirs = <<>>
  /\ pc' = "idle"
  /\ heap' = heap - 1
  /\ UNCHANGED <<reading, dirs, listing, deep>>

----------------------------------------------------------------------------
(* visit_ext2_dir.                                                         *)

(* A name and an inode are allocated, and freed at once if it is not a     *)
(* directory; else a buffer for all of it.                                 *)
Visit_KeepsName(ino, depth, above, held) ==
  LET inode == read_ext2_inode(ino)
      n     == BYTES_ALIGN_TO_BLOCKS(inode.i_size)
  IN  IF inode.dir
      THEN /\ Read(inode, 0, n, WholeParts(n))
           /\ dirs' = <<[ip |-> inode, fdata |-> <<>>, size |-> 0, depth |-> depth]>> \o above
           /\ heap' = held + 3
      ELSE dirs' = above /\ heap' = held + 1 /\ UNCHANGED <<pc, reading>>
Visit(ino, depth, above, held) ==
  LET inode == read_ext2_inode(ino)
      n     == BYTES_ALIGN_TO_BLOCKS(inode.i_size)
  IN  IF inode.dir
      THEN /\ Read(inode, 0, n, WholeParts(n))
           /\ dirs' = <<[ip |-> inode, fdata |-> <<>>, size |-> 0, depth |-> depth]>> \o above
           /\ heap' = held + 3
      ELSE dirs' = above /\ heap' = held /\ UNCHANGED <<pc, reading>>

traverse_ext2_fs ==
  /\ pc = "idle"
  /\ Visit(EXT2_ROOT_INO, 1, <<>>, 0)
  /\ deep' = 0
  /\ listing' = <<>>

ListDirectory ==
  /\ AllRead
  /\ dirs # <<>>
  /\ dirs' = [dirs EXCEPT ![1].fdata = buf]
  /\ pc' = "list"
  /\ UNCHANGED <<reading, listing, heap, deep>>

(* An entry is printed and passed; "." and ".." and deleted entries, whose *)
(* inode is 0, are not visited.                                            *)
Skipped_SelfOnly(e) == e.name = "." \/ e.inode = 0
Skipped(e) == e.name \in {".", ".."} \/ e.inode = 0

(* The entry at an offset into the directory, when it is in this block.    *)
EntryAt(blk, offset) == Disk[blk][offset % EXT2_BLOCK_SIZE]

TakeEntry_ContinueFirst(d, e) ==
  LET passed == <<[d EXCEPT !.size = @ + e.rec_len]>> \o Tail(dirs)
  IN  IF Skipped(e) THEN UNCHANGED vars
      ELSE /\ listing' = Append(listing, <<d.depth, e.name>>)
           /\ UNCHANGED deep
           /\ Visit(e.inode, d.depth + 1, passed, heap)
TakeEntry(d, e) ==
  LET passed == <<[d EXCEPT !.size = @ + e.rec_len]>> \o Tail(dirs)
  IN  /\ listing' = Append(listing, <<d.depth, e.name>>)
      /\ UNCHANGED deep
      /\ IF Skipped(e) THEN dirs' = passed /\ UNCHANGED <<pc, reading, heap>>
                       ELSE Visit(e.inode, d.depth + 1, passed, heap)

ListEntry ==
  LET d == Head(dirs)
  IN  /\ pc = "list"
      /\ d.size < d.ip.i_size
      /\ TakeEntry(d, EntryAt(d.fdata[d.size \div EXT2_BLOCK_SIZE + 1], d.size))

Leave ==
  LET d == Head(dirs)
  IN  /\ pc = "list"
      /\ d.size >= d.ip.i_size
      /\ dirs' = Tail(dirs)
      /\ pc' = IF Tail(dirs) = <<>> THEN "idle" ELSE "list"
      /\ heap' = heap - 3
      /\ UNCHANGED <<reading, listing, deep>>

Step == CallReader \/ FollowPointer \/ Fault \/ ReturnBlocks \/ ListDirectory \/ ListEntry \/ Leave

Next == (\E r \in FileReads : ReadFileBlocks(r[1], r[2], r[3])) \/ traverse_ext2_fs \/ Step

Spec == Init /\ [][Next]_vars

(* A call runs to its end.                                                 *)
FairSpec == Spec /\ WF_vars(Step)

----------------------------------------------------------------------------
(* What is on the disk.                                                    *)

(* Block x of those that a pointer block of a level leads to, when it      *)
(* holds the pointers P, and whether the way to it stays on the disk.      *)
Leaf1(P, blk, x) == P[blk][x]
Leaf2(P, blk, x) == Leaf1(P, P[blk][x \div Span(1)], x % Span(1))
Leaf3(P, blk, x) == Leaf2(P, P[blk][x \div Span(2)], x % Span(2))

OnDisk1(P, blk, x) == blk \in DOMAIN Disk /\ P[blk][x] \in DOMAIN Disk
OnDisk2(P, blk, x) == blk \in DOMAIN Disk /\ OnDisk1(P, P[blk][x \div Span(1)], x % Span(1))
OnDisk3(P, blk, x) == blk \in DOMAIN Disk /\ OnDisk2(P, P[blk][x \div Span(2)], x % Span(2))

(* Block q of a file, as ext2 numbers them: the direct ones, then those of *)
(* one level of pointer blocks, of two and of three.  With the Numbers in  *)
(* the pointer blocks it is the block of the file; with Wide it is what    *)
(* the reader of this file takes for it.                                   *)
FileBlock(P, inode, q) ==
  LET b(l) == inode.i_block[EXT2_NDIR_BLOCKS + l - 1]
  IN  IF q < pos[1] THEN inode.i_block[q]
      ELSE IF q < pos[2] THEN Leaf1(P, b(1), q - pos[1])
      ELSE IF q < pos[3] THEN Leaf2(P, b(2), q - pos[2])
      ELSE Leaf3(P, b(3), q - pos[3])
FileBlockOnDisk(P, inode, q) ==
  LET b(l) == inode.i_block[EXT2_NDIR_BLOCKS + l - 1]
  IN  IF q < pos[1] THEN inode.i_block[q] \in DOMAIN Disk
      ELSE IF q < pos[2] THEN OnDisk1(P, b(1), q - pos[1])
      ELSE IF q < pos[3] THEN OnDisk2(P, b(2), q - pos[2])
      ELSE OnDisk3(P, b(3), q - pos[3])

PointersOK(inode) == inode.i_block \in [0 .. EXT2_NDIR_BLOCKS + 2 -> DOMAIN Disk]

(* The ranges asked for are in what a file can have.                       *)
ASSUME RangesAssumption ==
  \A r \in FileReads :
    /\ r[2] \in Nat /\ r[3] \in Nat \ {0} /\ r[2] + r[3] <= pos[4]
    /\ PointersOK(read_ext2_inode(r[1]))

(* A directory has no holes.  It is a chain of entries from its first byte *)
(* to its last, and an entry that is to be visited leads to an inode in    *)
(* use.                                                                    *)
ChainOfEntries(inode, starts) ==
  /\ inode.i_size > 0 => 0 \in starts
  /\ \A s \in starts :
       LET blk == FileBlock(Numbers, inode, s \div EXT2_BLOCK_SIZE)
           e   == EntryAt(blk, s)
       IN  /\ s % EXT2_BLOCK_SIZE \in DOMAIN Disk[blk]
           /\ e.rec_len \in Nat \ {0}
           /\ s + e.rec_len \in starts \cup {inode.i_size}
           /\ Skipped(e) \/ e.inode \in InodesInUse
DirectoryOK(inode) ==
  LET blocks == BYTES_ALIGN_TO_BLOCKS(inode.i_size)
  IN  /\ blocks <= pos[4]
      /\ PointersOK(inode)
      /\ \A q \in 0 .. blocks - 1 : /\ FileBlockOnDisk(Numbers, inode, q)
                                    /\ FileBlock(Numbers, inode, q) # 0
      /\ \E starts \in SUBSET (0 .. inode.i_size - 1) : ChainOfEntries(inode, starts)

ASSUME TreeAssumption ==
  /\ EXT2_ROOT_INO \in InodesInUse /\ read_ext2_inode(EXT2_ROOT_INO).dir
  /\ \A ino \in InodesInUse :
       LET inode == read_ext2_inode(ino)
       IN  inode.i_size \in Nat /\ (inode.dir => DirectoryOK(inode))

(* The directories are a tree: from each place, a directory, its depth and *)
(* an offset into it, on there are finitely many lines, those of the entry *)
(* there, of the tree below it, and of the entries behind it.  An entry    *)
(* for the directory itself, one for that above it and a deleted one have  *)
(* nothing below them, nor has a file.                                     *)
Line == Nat \X STRING

LinesFrom(inode, depth, offset) ==
  LET lines == TreeLines[<<inode, depth, offset>>]
      e     == EntryAt(FileBlock(Numbers, inode, offset \div EXT2_BLOCK_SIZE), offset)
      line  == <<depth, e.name>>
      next  == <<inode, depth, offset + e.rec_len>>
      child == <<read_ext2_inode(e.inode), depth + 1, 0>>
      below == e.inode # 0 /\ e.name # "." /\ e.name # ".." /\ child[1].dir
  IN  /\ lines \in Seq(Line)
      /\ offset >= inode.i_size => lines = <<>>
      /\ offset < inode.i_size =>
           /\ line \in Line
           /\ next \in DOMAIN TreeLines
           /\ below => child \in DOMAIN TreeLines
           /\ lines = <<line>> \o (IF below THEN TreeLines[child] ELSE <<>>) \o TreeLines[next]

ASSUME LinesAssumption ==
  /\ <<read_ext2_inode(EXT2_ROOT_INO), 1, 0>> \in DOMAIN TreeLines
  /\ \A p \in DOMAIN TreeLines : p = <<p[1], p[2], p[3]>> /\ LinesFrom(p[1], p[2], p[3])

----------------------------------------------------------------------------
(* Properties.                                                             *)

(* The index of an activation is one of those that 32-bit pointers would   *)
(* have, of which only the first half are in the buffer (FaultsWhereLost   *)
(* says what becomes of the others); what is left of its range does not go *)
(* behind what so many pointers lead to; only blocks of the disk are read. *)
ActivationOK(c) ==
  LET pointers == IF c.level = 0 THEN EXT2_NDIR_BLOCKS ELSE BLK_NUM_PER_BLK
  IN  /\ c.level \in 0 .. 3
      /\ c.level > 0 => c.blk \in DOMAIN Disk
      /\ c.ptr \in 0 .. pointers - 1
      /\ c.offset \in 0 .. Unit(c.level) - 1
      /\ c.n \in 1 .. (pointers - c.ptr) * Unit(c.level) - c.offset
TypeOK ==
  /\ pc \in {"idle", "read", "list", "oops"}
  /\ \A j \in 1 .. Len(calls) : ActivationOK(calls[j])
  /\ \A j \in 1 .. Len(buf) : buf[j] \in DOMAIN Disk
  /\ Len(buf) <= want.n
  /\ heap \in Nat /\ deep \in Nat

(* What is read is, block by block, what the wide pointers make of the     *)
(* range asked for, of the file asked for: no gap and no repetition where  *)
(* one level ends and the next one begins, and all of it is there when the *)
(* call returns (read_ext2.c:331).  The blocks that the direct pointers    *)
(* lead to, and the first one behind them if it is the last of the file,   *)
(* are those of the file (read_ext2.c:143).                                *)
ReadRight(inode, q) ==
  \/ q < pos[1]
  \/ q = pos[1] /\ Numbers[inode.i_block[EXT2_NDIR_BLOCKS]][1] = 0
ReadsRange ==
  /\ \A j \in 1 .. Len(buf) :
       LET q == want.from + j - 1
       IN  /\ buf[j] = FileBlock(Wide, ip, q)
           /\ ReadRight(ip, q) => buf[j] = FileBlock(Numbers, ip, q)
  /\ pc \notin {"read", "oops"} => Len(buf) = want.n
  /\ pc \in {"read", "oops"} =>
       IF dirs = <<>> THEN <<ip, want.from, want.n>>
                             \in {<<read_ext2_inode(r[1]), r[2], r[3]>> : r \in FileReads}
                      ELSE ip = dirs[1].ip

(* A fault is at the first block of the range which the wide pointers do   *)
(* not lead to on the disk, and never at a direct pointer: what was cut    *)
(* off before it was read to its end (read_ext2.c:146, 181, 231).          *)
FaultsWhereLost ==
  LET q == want.from + Len(buf)
  IN  pc = "oops" => q >= EXT2_NDIR_BLOCKS /\ ~FileBlockOnDisk(Wide, ip, q)

(* The walk prints each entry of the tree once, in order and at its depth; *)
(* files with several links as often as they have links, and deleted       *)
(* entries too, which it only does not enter (read_ext2.c:410-459).  It    *)
(* stops in front of a directory with more blocks than direct pointers and *)
(* one, which it does not get to read; but it never prints what is not in  *)
(* the tree.                                                               *)
ListsTree ==
  LET tree == TreeLines[<<read_ext2_inode(EXT2_ROOT_INO), 1, 0>>]
  IN  /\ Len(listing) <= Len(tree) /\ listing = SubSeq(tree, 1, Len(listing))
      /\ pc = "idle" /\ listing # <<>> => listing = tree

(* When a call returns all it allocated has been freed, on every way out,  *)
(* but for one buffer per call of read_indirect2_blocks and                *)
(* read_indirect3_blocks: their FREE_MEM is behind a loop that they only   *)
(* ever leave by returning (read_ext2.c:189-201, 239-250).                 *)
MemoryReturned == pc = "idle" => heap = deep

(* Every call returns or faults: the pieces a range is cut into get        *)
(* smaller and the walk gets through each directory (read_ext2.c:189,      *)
(* 429).                                                                   *)
CallReturns == pc # "idle" ~> pc \in {"idle", "oops"}

=============================================================================
