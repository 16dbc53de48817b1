----------------------------- MODULE MCMemDisk -----------------------------
(***************************************************************************)
(* Three contents of the memory for the life cycle: a disk with nothing on *)
(* it but one block, one whose buffer is in use and that has a band to     *)
(* collect, and one with a file system, whose metadata is flagged.  Their  *)
(* vectors have different lengths, so that saving one over another shifts  *)
(* what is behind.  A block has two units, and each unit of an image tells  *)
(* where it belongs.                                                       *)
(***************************************************************************)
EXTENDS MemDisk

MCMetaVectors == <<"SB_IDX", "TMP_IDX">>

MCContext(id, flag, cur, status, invalid, free, sb, tmp) ==
  [data |-> <<id, "low", id, "high">>,
   body |-> [s_ctr |-> [tables |-> id, meta_flag |-> flag, cur_paddr |-> cur],
             b_ctr |-> [hdd_buf |-> id],
             m_ctr |-> [status |-> status]],
   vect |-> [v \in Vectors |->
     CASE v = "fully_invalid_bands" -> invalid
       [] v = "free_hdd_bufs" -> free
       [] v = "SB_IDX" -> sb
       [] v = "TMP_IDX" -> tmp]]

MCContexts ==
  {MCContext("one block", "none", 1, "NO_SB0", {}, Slots, {}, {}),
   MCContext("buffered", "none", 3, "NO_SB0", {0}, {1}, {}, {}),
   MCContext("ext2", "META_SUPER_BLOCK", 2, "EXT2_DETECTED", {}, {}, {0}, {1, 2})}

============================================================================
