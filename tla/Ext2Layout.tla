----------------------------- MODULE Ext2Layout -----------------------------
(***************************************************************************)
(* The detector on a disk that only ever holds one file system, of any     *)
(* size, as mke2fs lays it out: FsSuper is its super block, FsDescs the    *)
(* descriptors of its groups.  The host writes the blocks of it in any     *)
(* order and as often as it likes, and may wipe super block 0.             *)
(***************************************************************************)
EXTENDS Ext2Meta

CONSTANTS
  FsSuper,    \* the super block
  FsDescs     \* group -> its descriptor

(* How many blocks of per entries each hold n entries.                     *)
Needed(n, per) == CHOOSE m \in 1 .. n : (m - 1) * per < n /\ n <= m * per

FsGroups      == 0 .. Needed(FsSuper.s_blocks_count, BITS_PER_BITMAP) - 1
FsDescBlocks  == Needed(Cardinality(FsGroups), DESCS_PER_BLOCK)
FsTableBlocks == Needed(FsSuper.s_inodes_per_group, INODES_PER_BLOCK)

(* sparse_super: which groups have a copy of the super block.              *)
HasSuper(g) == g \in {0, 1} \/ \E b \in {3, 5, 7}, r \in 1 .. g : g = b ^ r
FsSupers    == {g * BITS_PER_BITMAP : g \in {h \in FsGroups : HasSuper(h)}}

(* What there is to find, by the vector it belongs in.                     *)
FsMeta ==
  [v \in Vectors |->
     CASE v = "SB_IDX"        -> FsSupers
       [] v = "BG_DESC_IDX"   -> {k + n : k \in FsSupers, n \in 1 .. FsDescBlocks}
       [] v = "BLK_BMP_IDX"   -> {FsDescs[g].bg_block_bitmap : g \in FsGroups}
       [] v = "INO_BMP_IDX"   -> {FsDescs[g].bg_inode_bitmap : g \in FsGroups}
       [] v = "INO_TABLE_IDX" -> {FsDescs[g].bg_inode_table + n :
                                    g \in FsGroups, n \in 0 .. FsTableBlocks - 1}
       [] OTHER               -> {}]

MetaBlocks == UNION {FsMeta[v] : v \in Vectors}

(* A layout: every block of metadata has one purpose, and the bitmaps lie  *)
(* in the order of their groups.  The last two conjuncts are limits of the *)
(* code on disks far larger than SMR_DISK_SIZE: detect_SB0_if_NO_SB0 stops *)
(* at the first power that is too large though another may not be (first   *)
(* with 28 groups), and get_number_of_BG_DESCs takes the last block of     *)
(* descriptors, if it is full and not the only one, for empty (256 groups).*)
ASSUME LayoutAssumption ==
  /\ FitsDisk(FsSuper)
  /\ FsSuper.s_blocks_count \in Nat \ {0}
  /\ FsSuper.s_first_data_block = 0
  /\ FsSuper.s_inodes_per_group \in Nat \ {0}
  /\ FsDescs \in [FsGroups -> [bg_block_bitmap : Blocks, bg_inode_bitmap : Blocks,
                               bg_inode_table : Blocks]]
  /\ \A g, h \in FsGroups : g < h => FsDescs[g].bg_block_bitmap < FsDescs[h].bg_block_bitmap
  /\ MetaBlocks \subseteq Blocks
  /\ \A v, u \in Vectors : v # u => FsMeta[v] \cap FsMeta[u] = {}
  /\ {h \in FsGroups : HasSuper(h)} = {0} \cup BackupGroups(Cardinality(FsGroups))
  /\ FsDescBlocks = 1 \/ Cardinality(FsGroups) % DESCS_PER_BLOCK # 0

(* What the host writes to the blocks of metadata belongs there; other     *)
(* super blocks in block 0 are of kinds that are to be refused.  A bitmap  *)
(* never says that a block of metadata is free.                            *)
ASSUME WritesAssumption ==
  \A w \in Writes :
    /\ w[1] = SB0_BLOCK_NO /\ w[2].kind = "sb0" /\ FitsDisk(w[2].sb) => w[2].sb = FsSuper
    /\ w[1] \in FsSupers \ {SB0_BLOCK_NO} => w[2].kind = "sb" /\ w[2].sb = FsSuper
    /\ w[1] \in 1 .. FsDescBlocks =>
         /\ w[2].kind = "gd"
         /\ \A n \in 0 .. DESCS_PER_BLOCK - 1 :
              LET g == (w[1] - 1) * DESCS_PER_BLOCK + n
              IN  g \in FsGroups => w[2].descs[n] = FsDescs[g]
    /\ \A g \in FsGroups :
         w[1] = FsDescs[g].bg_block_bitmap =>
           /\ w[2].kind = "bmp"
           /\ \A n \in w[2].free : g * BITS_PER_BITMAP + n \notin MetaBlocks

----------------------------------------------------------------------------
(* When the detector says EXT2_DETECTED it has found exactly the metadata, *)
(* each block in its vector and with its flag, and only then flags         *)
(* anything (ext2_meta.c:90-287, 402-423).                                 *)
DetectedExactly ==
  status = "EXT2_DETECTED" =>
    /\ meta_blks = FsMeta
    /\ \A k \in Blocks, v \in Vectors : meta_flag[k] = v <=> k \in FsMeta[v]
    /\ \A k \in Blocks : meta_flag[k] = "none" <=> k \notin MetaBlocks

(* A detector sees a block only when the next one is written; but then     *)
(* nothing is missed: with super block 0 seen and every metadata block on  *)
(* the disk, whichever came last, the next write finds the file system     *)
(* (stl.c:395, ext2_meta.c:73-86).                                         *)
DetectionNotLate ==
  (pc = "store" /\ status # "NO_SB0" /\ \A k \in MetaBlocks : has_mapping(k))
     => status = "EXT2_DETECTED"

(* A block loses its data only if the bitmap of its own group, as it is on *)
(* the disk, says that it is free; bitmaps are matched to groups by their  *)
(* order (ext2_meta.c:473-478).                                            *)
DroppedOnlyIfFree ==
  [][\A k \in Blocks :
        has_mapping(k) /\ ~has_mapping(k)' =>
          LET g == k \div BITS_PER_BITMAP
          IN  /\ g \in FsGroups
              /\ k % BITS_PER_BITMAP \in store[FsDescs[g].bg_block_bitmap].free]_vars

=============================================================================
