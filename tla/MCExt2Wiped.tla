---------------------------- MODULE MCExt2Wiped ----------------------------
(***************************************************************************)
(* One group of six blocks, formatted with one block of inodes or with     *)
(* two, its super block wiped at times; and where the descriptors belong   *)
(* there may be zeroes from before the file system was made.               *)
(***************************************************************************)
EXTENDS Ext2Meta

Super(inodes) ==
  [s_blocks_count |-> 6, s_first_data_block |-> 0,
   s_blocks_per_group |-> BITS_PER_BITMAP, s_log_block_size |-> 2,
   s_inodes_per_group |-> inodes, s_inodes_count |-> inodes]

Zero      == [kind |-> "zero"]
Bitmap(S) == [kind |-> "bmp", free |-> S]
Sb0(sb)   == [kind |-> "sb0", sb |-> sb]
Desc(first) == [bg_block_bitmap |-> first, bg_inode_bitmap |-> first + 1,
                bg_inode_table |-> first + 2]
NoDesc    == [bg_block_bitmap |-> 0, bg_inode_bitmap |-> 0, bg_inode_table |-> 0]
Gd        == [kind |-> "gd", descs |-> [n \in {0, 1} |-> IF n = 0 THEN Desc(2) ELSE NoDesc]]

WipedGroupWrites ==
  {<<0, Sb0(Super(INODES_PER_BLOCK))>>, <<0, Sb0(Super(2 * INODES_PER_BLOCK))>>, <<0, Zero>>,
   <<1, Gd>>, <<1, Zero>>,
   <<2, Bitmap({})>>, <<2, Bitmap({5})>>, <<3, Zero>>, <<4, Zero>>, <<5, Zero>>}

============================================================================
