------------------------------- MODULE MCStl -------------------------------
(***************************************************************************)
(* Stl on small disks.  Blocks, bands and slots are numbers in the code,   *)
(* their order decides which slot or band is taken, and so they have no    *)
(* symmetry; the contents written have.                                    *)
(***************************************************************************)
EXTENDS Stl, TLC

(* Contents are copied and compared, nothing else.                         *)
DataSymmetry == Permutations(Data)

(* What of a state can matter from now on; the view of the runs that would *)
(* else tell states apart that no behaviour does: the content and the      *)
(* owner left in a free slot, which are overwritten when it is taken, and  *)
(* the buffers chosen last, which the next choice overwrites.  States that *)
(* look alike take the same steps, so that leads-to over pc is judged as   *)
(* it would be without the view.                                           *)
LiveState ==
  <<smr, free_hdd_bufs, meta_flag, pc, i, req, collected,
    [s \in Slots |-> IF s \in free_hdd_bufs THEN Blank ELSE hdd_buf[s]],
    [s \in Slots |-> IF s \in free_hdd_bufs THEN [reverse_table[s] EXCEPT !.blk_no = 0]
                     ELSE reverse_table[s]],
    IF pc \in {"cold", "swap"} THEN cold_bufs ELSE <<>>>>

(* The view of the run about the end of the disk, where every logical      *)
(* block is alike: none is metadata, all have one content.  Renaming the   *)
(* blocks then makes a behaviour of a behaviour, and which of them lies    *)
(* where is left out.                                                      *)
NamelessState ==
  <<[p \in Phys |-> smr_reverse_table[p].phy_status], phy_bands, cur_paddr, fully_invalid_bands,
    free_hdd_bufs, [s \in Slots |-> <<reverse_table[s].write_cnt, reverse_table[s].read_cnt>>],
    pc, i, collected, IF pc \in {"cold", "swap"} THEN cold_bufs ELSE <<>>>>

(* State constraint of the run that looks for the fault: it follows only   *)
(* the behaviours in which nothing in band 0 has been invalidated.         *)
BandZeroIntact == phy_bands[0].invalid_cnt = 0

============================================================================
