----------------------------- MODULE StlReload -----------------------------
(***************************************************************************)
(* The translation layer across a reload of the module that fails half     *)
(* way.  rmmod has saved everything; insmod reads the image and the        *)
(* structure s_ctr, and then a read fails, so that mem_disk_init calls     *)
(* init_smr_disk over what is loaded already.  (MemDisk has the calls that *)
(* lead there; a reload that succeeds changes nothing.)                    *)
(***************************************************************************)
EXTENDS Stl

(* init_smr_disk sets up the tables and the vectors.  It touches neither   *)
(* cur_paddr nor the metadata flags (stl.c:263), and of the buffer only    *)
(* the vector of free slots: the rest is what b_ctr brought, if that was   *)
(* read, or the zeroes of a module just loaded.                            *)
init_smr_disk ==
  /\ mapping_table' = [k \in Blocks |-> Unmapped]
  /\ smr_reverse_table' = [p \in Phys |-> FreeEntry]
  /\ phy_bands' = [b \in Bands |-> FreeBand]
  /\ fully_invalid_bands' = {}
  /\ free_hdd_bufs' = Slots
  /\ UNCHANGED <<data, cur_paddr, meta_flag>>

BufNotRead ==
  /\ hdd_buf' = [s \in Slots |-> Blank]
  /\ reverse_table' = [s \in Slots |-> [blk_no |-> 0, read_cnt |-> 0, write_cnt |-> 0]]
  /\ cold_bufs' = [j \in Colds |-> 0]

LoadFails ==
  /\ pc = "idle"
  /\ init_smr_disk
  /\ BufNotRead \/ UNCHANGED <<hdd_buf, reverse_table, cold_bufs>>
  /\ UNCHANGED <<pc, i, req, collected>>

ReloadSpec == Init /\ [][Next \/ LoadFails]_vars

(* "cur_paddr always points to free block" (stl.c:108): when a block is    *)
(* about to be appended within the disk, no block is where it will go.     *)
CursorAtFree ==
  pc \in {"append", "swap"} /\ CursorSettled /\ cur_paddr \in Phys =>
    smr_reverse_table[cur_paddr].phy_status = FREE_PHY_BLOCK

=============================================================================
