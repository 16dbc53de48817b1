------------------------------ MODULE Ext2Meta ------------------------------
(***************************************************************************)
(* The file system detector, ext2_meta.c.  It looks at every block that is *)
(* written, before the write takes effect: a super block in block 0 says   *)
(* where the other super blocks must be; when these are there, where the   *)
(* group descriptors must be; and so on to the inode tables.  When all are *)
(* there it flags them as metadata, and drops the blocks whose bits are    *)
(* clear in the block bitmaps; it drops them again at every power-on.      *)
(*                                                                         *)
(* The detector reads and drops blocks through stl.c, which is here the    *)
(* block device that Stl implements.  The queue lock is held throughout.   *)
(***************************************************************************)
EXTENDS Integers, FiniteSets, FiniteSetsExt, Functions

CONSTANTS
  TOTAL_SMR_BLOCKS_CNT,
  BITS_PER_BITMAP,    \* bits of a block, the blocks_per_group of a legal super block
  DESCS_PER_BLOCK,    \* EXT2_BLOCK_SIZE / sizeof(struct ext2_group_desc)
  INODES_PER_BLOCK,   \* EXT2_BLOCK_SIZE / sizeof(struct ext2_inode)
  Writes,             \* the pairs <<block, content>> the host may write
  NoData,             \* a block without mapping
  NoReq               \* no block is being written

(* The content of a block is a record.  Its kind is "sb0" (a super block   *)
(* at FIRST_SUPER_BLOCK_OFFSET), "sb" (one at the start, a backup), "gd"   *)
(* (group descriptors), "bmp" (a block bitmap; free is the set of its      *)
(* clear bits) or "zero"; what is in other blocks the detector never asks. *)
Blocks   == 0 .. TOTAL_SMR_BLOCKS_CNT - 1
Bits     == 0 .. BITS_PER_BITMAP - 1
Contents == {w[2] : w \in Writes}

ASSUME DetectorAssumption ==
  /\ TOTAL_SMR_BLOCKS_CNT \in Nat \ {0}
  /\ BITS_PER_BITMAP \in Nat \ {0}
  /\ DESCS_PER_BLOCK \in Nat \ {0}
  /\ INODES_PER_BLOCK \in Nat \ {0}
  /\ \A w \in Writes : w[1] \in Blocks /\ w[2] # NoData
  /\ NoReq \notin Writes

VARIABLES
  status,      \* meta_ctr.status
  sb0,         \* meta_ctr.sb0
  meta_blks,   \* meta_ctr.meta_blks, six sorted vectors
  meta_flag,   \* mapping_table[k].meta_flag, by the name of the vector
  blk_bmp,     \* the clear bits of the static buffer of mark_all_free_blks
  store,       \* block -> what read_smr_blocks finds there
  pc,          \* "idle", "detect", "free" (mark_all_free_blks), "store"
  pos,         \* the loop variable of mark_all_free_blks
  req          \* the block being written and its content

meta == <<status, sb0, meta_blks, meta_flag>>
vars == <<meta, blk_bmp, store, pc, pos, req>>

Disk == INSTANCE BlockDevice WITH Data <- Contents, aware <- TRUE, busy <- FALSE

SB0_BLOCK_NO == 0

(* meta_vect_index, in the order of idx_2_flag, and the scratch vector.    *)
idx_2_flag == <<"SB_IDX", "BG_DESC_IDX", "INO_TABLE_IDX", "INO_BMP_IDX", "BLK_BMP_IDX">>
Vectors == Range(idx_2_flag) \cup {"TMP_IDX"}

has_mapping(k) == store[k] # NoData
all_elements_mapped(S) == \A k \in S : has_mapping(k)

(* get_vect_element: the vector is sorted.                                 *)
get_vect_element(S, n) == CHOOSE k \in S : Cardinality({j \in S : j < k}) = n

Init ==
  /\ status = "NO_SB0"
  /\ sb0 = NoData
  /\ meta_blks = [v \in Vectors |-> {}]
  /\ meta_flag = [k \in Blocks |-> "none"]
  /\ blk_bmp = Bits
  /\ Disk!Init
  /\ pc = "idle"
  /\ pos = 0
  /\ req = NoReq

----------------------------------------------------------------------------
(* Super blocks and what follows from them.                                *)

(* A definition whose name ends in a capitalised word after an underscore  *)
(* is a slip that could be made in the next one; the runs must notice it.  *)

(* The magic number is where the code looks if the content is of kind at.  *)
is_legal_super_block_AnySize(c, at) ==
  /\ c.kind = at
  /\ c.sb.s_blocks_count >= c.sb.s_first_data_block
  /\ c.sb.s_log_block_size = 2
  /\ c.sb.s_blocks_per_group = BITS_PER_BITMAP
is_legal_super_block(c, at) ==
  /\ c.kind = at
  /\ c.sb.s_blocks_count >= c.sb.s_first_data_block
  /\ c.sb.s_log_block_size = 2
  /\ c.sb.s_blocks_per_group = BITS_PER_BITMAP
  /\ c.sb.s_blocks_count <= TOTAL_SMR_BLOCKS_CNT

is_compatible_fs(old_sb, new_sb) ==
  /\ old_sb.s_blocks_per_group = new_sb.s_blocks_per_group
  /\ old_sb.s_inodes_per_group = new_sb.s_inodes_per_group
  /\ old_sb.s_blocks_count = new_sb.s_blocks_count
  /\ old_sb.s_inodes_count = new_sb.s_inodes_count
  /\ old_sb.s_log_block_size = new_sb.s_log_block_size

gd_cnt_Floor(sb) == (sb.s_blocks_count - sb.s_first_data_block - 1) \div sb.s_blocks_per_group
gd_cnt(sb) == (sb.s_blocks_count - sb.s_first_data_block - 1) \div sb.s_blocks_per_group + 1

(* The groups with a copy of the super block: round r of the loop takes    *)
(* the powers 3^r, 5^r, 7^r in turn and all stops at the first that is not *)
(* below n.                                                                *)
BackupGroups(n) ==
  {g \in 1 .. n - 1 :
     \/ g = 1
     \/ \E r \in 1 .. n, b \in {3, 5, 7} :
          /\ g = b ^ r
          /\ \A s \in 1 .. r, c \in {3, 5, 7} : (s < r \/ c < b) => c ^ s < n}

BackupSuperBlocks(sb) ==
  {sb.s_first_data_block + g * sb.s_blocks_per_group : g \in BackupGroups(gd_cnt(sb))}

(* How many blocks the group descriptors fill.                             *)
desc_blks(sb) == (gd_cnt(sb) + DESCS_PER_BLOCK - 1) \div DESCS_PER_BLOCK

get_number_of_BG_DESCs(k) ==
  LET offset == CHOOSE o \in 1 .. k : /\ k - o \in meta_blks["SB_IDX"]
                                      /\ \A p \in 1 .. o - 1 : k - p \notin meta_blks["SB_IDX"]
  IN  IF desc_blks(sb0) <= 1 THEN gd_cnt(sb0)
      ELSE IF offset = desc_blks(sb0) THEN gd_cnt(sb0) % DESCS_PER_BLOCK
      ELSE DESCS_PER_BLOCK

(* The descriptors read from block k; a block of zeroes gives zeroes.      *)
group_descs(k) ==
  {IF store[k].kind = "gd" THEN store[k].descs[n]
   ELSE [bg_block_bitmap |-> 0, bg_inode_bitmap |-> 0, bg_inode_table |-> 0]
     : n \in 0 .. get_number_of_BG_DESCs(k) - 1}

itable_blks(sb) == (sb.s_inodes_per_group - 1) \div INODES_PER_BLOCK + 1

(* A file system for this disk, if its super block is to be believed.      *)
FitsDisk(sb) ==
  /\ sb.s_log_block_size = 2
  /\ sb.s_blocks_per_group = BITS_PER_BITMAP
  /\ sb.s_blocks_count <= TOTAL_SMR_BLOCKS_CNT

SupersWritten == {w[2].sb : w \in {v \in Writes : v[2].kind = "sb0" /\ FitsDisk(v[2].sb)}}
DescsWritten  == {w[2].descs[n] : w \in {v \in Writes : v[2].kind = "gd"},
                                  n \in 0 .. DESCS_PER_BLOCK - 1}

(* The detector takes super blocks and descriptors at their word: it reads *)
(* the blocks that they name and flags them in the mapping table without   *)
(* asking if the disk has these blocks.  So the host is relied on to write *)
(* only what can be there: what mke2fs and the kernel write.               *)
ASSUME HostAssumption ==
  /\ \A sb \in SupersWritten :
       /\ sb.s_blocks_count \in Nat /\ sb.s_first_data_block \in Nat
       /\ sb.s_first_data_block < sb.s_blocks_count
       /\ sb.s_inodes_per_group \in Nat \ {0}
       /\ itable_blks(sb) - 1 \in Blocks
       /\ \A k \in {SB0_BLOCK_NO} \cup BackupSuperBlocks(sb) : k + desc_blks(sb) \in Blocks
       /\ \A d \in DescsWritten : d.bg_inode_table + itable_blks(sb) - 1 \in Blocks
       /\ \A w \in Writes : w[1] \in 1 .. desc_blks(sb) => w[2].kind \in {"gd", "zero"}
  /\ \A d \in DescsWritten : {d.bg_block_bitmap, d.bg_inode_bitmap, d.bg_inode_table} \subseteq Blocks
  /\ \A w \in Writes : w[2].kind = "bmp" => w[2].free \subseteq Bits

(* mark_meta_blks: of several vectors that list a block the last one wins. *)
SetFlags ==
  [k \in Blocks |->
     LET S == {n \in DOMAIN idx_2_flag : k \in meta_blks[idx_2_flag[n]]}
     IN  IF S = {} THEN meta_flag[k] ELSE idx_2_flag[Max(S)]]

CleanedFlags_Kept == meta_flag
CleanedFlags ==
  [k \in Blocks |->
     IF \E v \in Range(idx_2_flag) : k \in meta_blks[v] THEN "none" ELSE meta_flag[k]]

----------------------------------------------------------------------------
(* detect_ext2_fs(buf, blk_no), called by write_smr_blocks.                *)

blk_no == req[1]
buf    == req[2]

(* The super block is rewritten when the file system is known.  If it is   *)
(* not the same file system, detection starts again.                       *)
HitSuperBlock(c) ==
  IF is_legal_super_block(c, "sb0") /\ is_compatible_fs(sb0, c.sb)
  THEN sb0' = c.sb /\ UNCHANGED <<status, meta_flag>>
  ELSE status' = "NO_SB0" /\ meta_flag' = CleanedFlags /\ UNCHANGED sb0

Call(w) ==
  /\ pc = "idle"
  /\ req' = w
  /\ IF status # "EXT2_DETECTED"
     THEN pc' = "detect" /\ UNCHANGED meta
     ELSE /\ pc' = "store"
          /\ IF w[1] = SB0_BLOCK_NO
             THEN HitSuperBlock(w[2]) /\ UNCHANGED meta_blks
             ELSE UNCHANGED meta
  /\ UNCHANGED <<blk_bmp, store, pos>>

(* A detector that has succeeded calls the next one.                       *)
Succeed_Returns(s) == status' = s /\ pc' = "store"
Succeed(s) == status' = s /\ pc' = "detect"

GiveUp == pc' = "store" /\ UNCHANGED meta

TmpMapped == all_elements_mapped(meta_blks["TMP_IDX"])

detect_SB0_if_NO_SB0 ==
  /\ status = "NO_SB0"
  /\ IF blk_no = SB0_BLOCK_NO /\ is_legal_super_block(buf, "sb0")
     THEN LET others == BackupSuperBlocks(buf.sb)
          IN  /\ Succeed("SB0_DETECTED")
              /\ sb0' = buf.sb
              /\ meta_blks' = [v \in Vectors |->
                    IF v = "SB_IDX" THEN {SB0_BLOCK_NO} \cup others
                    ELSE IF v = "TMP_IDX" THEN others
                    ELSE {}]
              /\ UNCHANGED meta_flag
     ELSE GiveUp

(* Only the descriptors behind super block 0 are waited for.               *)
detect_SBs_if_SB0 ==
  LET behind(k) == {k + 1 + n : n \in 0 .. desc_blks(sb0) - 1}
  IN  /\ status = "SB0_DETECTED"
      /\ \/ ~TmpMapped /\ GiveUp
         \/ /\ TmpMapped
            /\ \E k \in meta_blks["TMP_IDX"] : ~is_legal_super_block(store[k], "sb")
            /\ status' = "NO_SB0" /\ pc' = "store"
            /\ UNCHANGED <<sb0, meta_blks, meta_flag>>
         \/ /\ TmpMapped
            /\ \A k \in meta_blks["TMP_IDX"] : is_legal_super_block(store[k], "sb")
            /\ Succeed("SBs_DETECTED")
            /\ meta_blks' = [meta_blks EXCEPT
                  !["BG_DESC_IDX"] = @ \cup UNION {behind(k) : k \in meta_blks["SB_IDX"]},
                  !["TMP_IDX"]     = behind(SB0_BLOCK_NO)]
            /\ UNCHANGED <<sb0, meta_flag>>

(* do_group_descriptor, for each descriptor; then the bitmaps are next.    *)
detect_BG_DESCs_if_SBs ==
  LET D == UNION {group_descs(k) : k \in meta_blks["TMP_IDX"]}
      bitmaps == {d.bg_block_bitmap : d \in D}
  IN  /\ status = "SBs_DETECTED"
      /\ \/ ~TmpMapped /\ GiveUp
         \/ /\ TmpMapped
            /\ Succeed("BG_DESCs_DETECTED")
            /\ meta_blks' = [meta_blks EXCEPT
                  !["BLK_BMP_IDX"]   = @ \cup bitmaps,
                  !["INO_BMP_IDX"]   = @ \cup {d.bg_inode_bitmap : d \in D},
                  !["INO_TABLE_IDX"] = @ \cup
                     UNION {{d.bg_inode_table + n : n \in 0 .. itable_blks(sb0) - 1} : d \in D},
                  !["TMP_IDX"]       = meta_blks["BLK_BMP_IDX"] \cup bitmaps]
            /\ UNCHANGED <<sb0, meta_flag>>

(* The detectors of block bitmaps and of inode bitmaps only wait for the   *)
(* blocks and take the next vector.                                        *)
Await(from, to, next) ==
  /\ status = from
  /\ \/ ~TmpMapped /\ GiveUp
     \/ /\ TmpMapped
        /\ Succeed(to)
        /\ meta_blks' = [meta_blks EXCEPT !["TMP_IDX"] = meta_blks[next]]
        /\ UNCHANGED <<sb0, meta_flag>>

detect_BLK_BMP_if_BG_DESCs == Await("BG_DESCs_DETECTED", "BLK_BITMAP_DETECTED", "INO_BMP_IDX")
detect_INO_BMP_if_BLK_BMP  == Await("BLK_BITMAP_DETECTED", "INO_BITMAP_DETECTED", "INO_TABLE_IDX")

detect_INO_TABLE_if_INO_BMP ==
  /\ status = "INO_BITMAP_DETECTED"
  /\ \/ ~TmpMapped /\ GiveUp
     \/ /\ TmpMapped
        /\ status' = "EXT2_DETECTED"
        /\ meta_blks' = [meta_blks EXCEPT !["TMP_IDX"] = {}]
        /\ meta_flag' = SetFlags
        /\ pc' = "free"
        /\ UNCHANGED sb0

Detect ==
  /\ pc = "detect"
  /\ \/ detect_SB0_if_NO_SB0
     \/ detect_SBs_if_SB0
     \/ detect_BG_DESCs_if_SBs
     \/ detect_BLK_BMP_if_BG_DESCs
     \/ detect_INO_BMP_if_BLK_BMP
     \/ detect_INO_TABLE_if_INO_BMP
  /\ UNCHANGED <<blk_bmp, store, pos, req>>

----------------------------------------------------------------------------
(* mark_all_free_blks.                                                     *)

group_start_First(n) == sb0.s_first_data_block
group_start(n) == n * sb0.s_blocks_per_group + sb0.s_first_data_block

(* The clear bits of a block read as a bitmap; those of a super block or   *)
(* of descriptors can be any.                                              *)
ClearBits(c) ==
  IF c.kind = "bmp" THEN {c.free}
  ELSE IF c.kind = "zero" THEN {Bits}
  ELSE SUBSET Bits

NextPos_Stuck == pos
NextPos == pos + 1

(* One group: read_smr_blocks leaves blk_bmp alone if the bitmap has no    *)
(* mapping; mark_one_blk_bmp drops the blocks whose bits are clear.        *)
MarkOneGroup ==
  LET k == get_vect_element(meta_blks["BLK_BMP_IDX"], pos)
  IN  /\ pc = "free"
      /\ pos < Cardinality(meta_blks["BLK_BMP_IDX"])
      /\ \E b \in IF has_mapping(k) THEN ClearBits(store[k]) ELSE {blk_bmp} :
           /\ blk_bmp' = b
           /\ Disk!Discard({group_start(pos) + n : n \in b})
      /\ pos' = NextPos
      /\ UNCHANGED <<meta, pc, req>>

AllMarked ==
  /\ pc = "free"
  /\ pos = Cardinality(meta_blks["BLK_BMP_IDX"])
  /\ pos' = 0
  /\ pc' = IF req = NoReq THEN "idle" ELSE "store"
  /\ UNCHANGED <<meta, blk_bmp, store, req>>

(* write_smr_blocks goes on: now the block is written.                     *)
Store ==
  /\ pc = "store"
  /\ Disk!Write(blk_no, buf)
  /\ pc' = "idle"
  /\ req' = NoReq
  /\ UNCHANGED <<meta, blk_bmp, pos>>

(* The module is removed and inserted: the tables are saved and loaded,    *)
(* the static buffer is not, and mem_disk_init calls mark_all_free_blks if *)
(* there is a file system.                                                 *)
PowerOn ==
  /\ pc = "idle"
  /\ blk_bmp' = Bits
  /\ pc' = IF status = "EXT2_DETECTED" THEN "free" ELSE "idle"
  /\ UNCHANGED <<meta, store, pos, req>>

Step == Detect \/ MarkOneGroup \/ AllMarked \/ Store

Next == (\E w \in Writes : Call(w)) \/ PowerOn \/ Step

Spec == Init /\ [][Next]_vars

(* A write that has begun is served to its end: do_request does not stop.  *)
FairSpec == Spec /\ WF_vars(Step)

----------------------------------------------------------------------------
(* Properties that need no knowledge of what the host writes.              *)

Statuses == {"NO_SB0", "SB0_DETECTED", "SBs_DETECTED", "BG_DESCs_DETECTED",
             "BLK_BITMAP_DETECTED", "INO_BITMAP_DETECTED", "EXT2_DETECTED"}

TypeOK ==
  /\ status \in Statuses
  /\ meta_blks \in [Vectors -> SUBSET Blocks]
  /\ meta_flag \in [Blocks -> Range(idx_2_flag) \cup {"none"}]
  /\ blk_bmp \subseteq Bits
  /\ store \in [Blocks -> Contents \cup {NoData}]
  /\ pc \in {"idle", "detect", "free", "store"}
  /\ pos \in Nat
  /\ req \in Writes \cup {NoReq}
  /\ pc \in {"detect", "store"} => req # NoReq

(* Flags are there exactly while a file system is known, and exactly on    *)
(* the blocks of the vectors: mark_meta_blks(CLEAN_META_FLAG) goes by      *)
(* vectors that must still be those the flags were set from                *)
(* (ext2_meta.c:402-423, 520, 532).                                        *)
FlagsFollowStatus ==
  \A k \in Blocks :
    meta_flag[k] # "none" <=> /\ status = "EXT2_DETECTED"
                              /\ \E v \in Range(idx_2_flag) : k \in meta_blks[v]

(* "all block group descriptors detected" (ext2_meta.h:14): what was read  *)
(* as descriptors are descriptors.                                         *)
DescriptorsDetected ==
  status \in {"BG_DESCs_DETECTED", "BLK_BITMAP_DETECTED", "INO_BITMAP_DETECTED"} =>
    \A n \in 1 .. desc_blks(sb0) : store[SB0_BLOCK_NO + n].kind = "gd"

(* The detectors call each other at most once each and the loop over the   *)
(* groups ends: every write is answered.                                   *)
WriteAnswered == pc # "idle" ~> pc = "idle"

=============================================================================
