----------------------------- MODULE MCExt2Meta -----------------------------
(***************************************************************************)
(* A file system of two groups of six blocks for the detector to find:     *)
(*   0 super block   1 descriptors   2, 3 bitmaps   4 inode table   5 data *)
(*   6 super block   7 descriptors   8, 9 bitmaps  10 inode table  11 data *)
(* Super blocks of a larger disk and of a smaller block size are also      *)
(* written.                                                                *)
(***************************************************************************)
EXTENDS Ext2Layout

Super(blocks, log) ==
  [s_blocks_count |-> blocks, s_first_data_block |-> 0,
   s_blocks_per_group |-> BITS_PER_BITMAP, s_log_block_size |-> log,
   s_inodes_per_group |-> INODES_PER_BLOCK, s_inodes_count |-> 2 * INODES_PER_BLOCK]

Zero       == [kind |-> "zero"]
Bitmap(S)  == [kind |-> "bmp", free |-> S]
Sb0(sb)    == [kind |-> "sb0", sb |-> sb]
Sb(sb)     == [kind |-> "sb", sb |-> sb]

TwoGroups == Super(12, 2)
TwoDescs  ==
  [g \in {0, 1} |-> [bg_block_bitmap |-> 6 * g + 2, bg_inode_bitmap |-> 6 * g + 3,
                     bg_inode_table |-> 6 * g + 4]]
Gd        == [kind |-> "gd", descs |-> TwoDescs]

TwoGroupWrites ==
  {<<0, Sb0(TwoGroups)>>, <<0, Zero>>, <<0, Sb0(Super(24, 2))>>, <<0, Sb0(Super(12, 1))>>,
   <<1, Gd>>, <<2, Bitmap({})>>, <<2, Bitmap({5})>>, <<3, Zero>>, <<4, Zero>>, <<5, Zero>>,
   <<6, Sb(TwoGroups)>>, <<7, Gd>>, <<8, Bitmap({5})>>, <<9, Zero>>, <<10, Zero>>}

(* The loop of detect_SB0_if_NO_SB0 finds the groups with a super block on *)
(* every disk that a legal super block can describe (eight groups of 32768 *)
(* blocks fill SMR_DISK_SIZE), and on somewhat larger ones.                *)
ASSUME SparseSuper ==
  \A n \in 1 .. 11 : {g \in 0 .. n - 1 : HasSuper(g)} = {0} \cup BackupGroups(n)

=============================================================================
