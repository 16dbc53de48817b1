-------------------------------- MODULE Stl --------------------------------
(***************************************************************************)
(* The translation layer of the simulated shingled (SMR) disk: stl.c and   *)
(* its random-write buffer, hdd_buf.c.                                     *)
(*                                                                         *)
(* A logical block with no mapping is appended to the SMR disk at          *)
(* cur_paddr; an update invalidates the block's place on the SMR disk and  *)
(* goes to the buffer; a full buffer first swaps SWAP_OUT_CNT blocks out   *)
(* by appending them.  When the cursor meets the end of a free run,        *)
(* get_free_smr_block collects one band.                                   *)
(*                                                                         *)
(* The block layer calls the driver with the queue lock held, so one       *)
(* request runs at a time; pc is the place the request in progress has     *)
(* reached.  A request of several blocks is several requests in a row.     *)
(***************************************************************************)
EXTENDS Integers, FiniteSets, FiniteSetsExt

CONSTANTS TOTAL_SMR_BANDS_CNT, BLOCKS_PER_BAND,   \* smr.h
          BLOCKS_OF_HDD_BUF, SWAP_OUT_CNT,        \* hdd_buf.h
          favor, aware,     \* module parameters
          HostBlocks,       \* the logical blocks the host uses
          MetaBlocks,       \* those the detector may flag as metadata
          Data,             \* contents the host writes
          Blank,            \* content of memory nothing has been written to
          MAX_ACCESS        \* bound on the access counters of a buffer

TOTAL_SMR_BLOCKS_CNT == TOTAL_SMR_BANDS_CNT * BLOCKS_PER_BAND

(* The logical and the physical blocks are numbered alike.                 *)
Blocks == 0 .. TOTAL_SMR_BLOCKS_CNT - 1
Phys   == 0 .. TOTAL_SMR_BLOCKS_CNT - 1
Bands  == 0 .. TOTAL_SMR_BANDS_CNT - 1
Slots  == 0 .. BLOCKS_OF_HDD_BUF - 1
Colds  == 0 .. SWAP_OUT_CNT - 1

ASSUME GeometryAssumption ==
  /\ TOTAL_SMR_BANDS_CNT \in Nat \ {0}
  /\ BLOCKS_PER_BAND \in Nat \ {0}

(* hdd_buf.h:12: "SWAP_OUT_CNT must be smaller than BLOCKS_OF_HDD_BUF".    *)
ASSUME BufferAssumption ==
  /\ SWAP_OUT_CNT \in Nat \ {0}
  /\ BLOCKS_OF_HDD_BUF \in Nat
  /\ SWAP_OUT_CNT < BLOCKS_OF_HDD_BUF

ASSUME ParameterAssumption ==
  /\ favor \in BOOLEAN
  /\ aware \in BOOLEAN
  /\ HostBlocks \subseteq Blocks
  /\ MetaBlocks \subseteq Blocks
  /\ MAX_ACCESS \in Nat

VARIABLES
  mapping_table,        \* logical block -> [flag, paddr]
  meta_flag,            \* logical block -> is it known to hold metadata
  smr_reverse_table,    \* physical block -> [blk_no, phy_status]
  phy_bands,            \* band -> [invalid_cnt, free_cnt, valid_cnt]
  cur_paddr,            \* the write cursor
  fully_invalid_bands,  \* the sorted vector of that name
  data,                 \* mdisk_dev->data, the SMR disk proper
  hdd_buf,              \* slot -> content
  reverse_table,        \* slot -> [blk_no, read_cnt, write_cnt]
  free_hdd_bufs,        \* the sorted vector of free slots
  cold_bufs,            \* the slots chosen for swapping out
  pc,                   \* where the request in progress is
  i,                    \* the loop variable of swap_out_coldest
  req,                  \* the block and the data being written
  collected             \* garbage_collecting has returned in get_free_smr_block

smr   == <<mapping_table, smr_reverse_table, phy_bands, cur_paddr,
           fully_invalid_bands, data>>
buf   == <<hdd_buf, reverse_table, free_hdd_bufs>>
local == <<cold_bufs, pc, i, req, collected>>
vars  == <<smr, buf, local, meta_flag>>

INVALID_PHY_BLOCK == 1
VALID_PHY_BLOCK   == 2
FREE_PHY_BLOCK    == 4

BandOf(p)    == p \div BLOCKS_PER_BAND
BandStart(b) == b * BLOCKS_PER_BAND
Band(b)      == BandStart(b) .. BandStart(b) + BLOCKS_PER_BAND - 1

NoReq == [blk |-> 0, d |-> Blank]

FreeEntry == [blk_no |-> 0, phy_status |-> FREE_PHY_BLOCK]
FreeBand  == [invalid_cnt |-> 0, free_cnt |-> BLOCKS_PER_BAND, valid_cnt |-> 0]
Unmapped  == [flag |-> "INVALID_MAPPING", paddr |-> 0]

in_smr_disk(k) == mapping_table[k].flag = "IN_SMR_DISK"
in_hdd_buf(k)  == mapping_table[k].flag = "IN_HDD_BUF"
has_mapping(k) == in_smr_disk(k) \/ in_hdd_buf(k)

(* How much one access heats a buffer: metadata counts twice.              *)
Weight(k) == IF favor /\ meta_flag[k] THEN 2 ELSE 1

get_access_cnt(s) == reverse_table[s].write_cnt + reverse_table[s].read_cnt

is_hdd_buf_full_Never == FALSE
is_hdd_buf_full == free_hdd_bufs = {}

Init ==
  /\ mapping_table = [k \in Blocks |-> Unmapped]
  /\ meta_flag = [k \in Blocks |-> FALSE]
  /\ smr_reverse_table = [p \in Phys |-> FreeEntry]
  /\ phy_bands = [b \in Bands |-> FreeBand]
  /\ cur_paddr = 0
  /\ fully_invalid_bands = {}
  /\ data = [p \in Phys |-> Blank]
  /\ hdd_buf = [s \in Slots |-> Blank]
  /\ reverse_table = [s \in Slots |-> [blk_no |-> 0, read_cnt |-> 0, write_cnt |-> 0]]
  /\ free_hdd_bufs = Slots
  /\ cold_bufs = [j \in Colds |-> 0]
  /\ pc = "idle"
  /\ i = 0
  /\ req = NoReq
  /\ collected = FALSE

----------------------------------------------------------------------------
(* The SMR disk: invalidation, appending, garbage collection.              *)
(* A definition whose name ends in a capitalised word after an underscore  *)
(* is a slip that could be made in the next one; the runs must notice it.  *)

InvalidEntry_Valid == [blk_no |-> 0, phy_status |-> VALID_PHY_BLOCK]
InvalidEntry == [blk_no |-> 0, phy_status |-> INVALID_PHY_BLOCK]

BandInvalidated_KeepsValid(c) ==
  [invalid_cnt |-> c.invalid_cnt + 1, free_cnt |-> c.free_cnt, valid_cnt |-> c.valid_cnt]
BandInvalidated(c) ==
  [invalid_cnt |-> c.invalid_cnt + 1, free_cnt |-> c.free_cnt, valid_cnt |-> c.valid_cnt - 1]

VectorInvalidated_TestsFirst(b) ==
  IF phy_bands[b].invalid_cnt = BLOCKS_PER_BAND
  THEN fully_invalid_bands \cup {b} ELSE fully_invalid_bands
VectorInvalidated(b) ==
  IF phy_bands[b].invalid_cnt + 1 = BLOCKS_PER_BAND
  THEN fully_invalid_bands \cup {b} ELSE fully_invalid_bands

invalidate_mapping_entry(k) ==
  LET p == mapping_table[k].paddr
      b == BandOf(p)
  IN  /\ phy_bands' = [phy_bands EXCEPT ![b] = BandInvalidated(@)]
      /\ smr_reverse_table' = [smr_reverse_table EXCEPT ![p] = InvalidEntry]
      /\ mapping_table' = [mapping_table EXCEPT ![k] = Unmapped]
      /\ fully_invalid_bands' = VectorInvalidated(b)
      /\ UNCHANGED <<cur_paddr, data>>

(* The status get_free_smr_block reads at the cursor.  One past the end of *)
(* smr_reverse_table lies phy_bands[0], and its valid_cnt is where the     *)
(* phy_status of the missing entry would be (both at offset 8).            *)
status_at_cursor ==
  IF cur_paddr \in Phys THEN smr_reverse_table[cur_paddr].phy_status
                        ELSE phy_bands[0].valid_cnt

gc_needed_Invalid == /\ cur_paddr % BLOCKS_PER_BAND = 0
                     /\ status_at_cursor = INVALID_PHY_BLOCK
gc_needed == /\ cur_paddr % BLOCKS_PER_BAND = 0
             /\ status_at_cursor # FREE_PHY_BLOCK

BandAppended(c) ==
  [invalid_cnt |-> c.invalid_cnt, free_cnt |-> c.free_cnt - 1, valid_cnt |-> c.valid_cnt + 1]

(* append_smr_blocks for one block, once the cursor is settled.            *)
Append(k, d) ==
  /\ mapping_table' = [mapping_table EXCEPT ![k] =
        [flag |-> "IN_SMR_DISK", paddr |-> cur_paddr]]
  /\ smr_reverse_table' = [smr_reverse_table EXCEPT ![cur_paddr] =
        [blk_no |-> k, phy_status |-> VALID_PHY_BLOCK]]
  /\ phy_bands' = [phy_bands EXCEPT ![BandOf(cur_paddr)] = BandAppended(@)]
  /\ data' = [data EXCEPT ![cur_paddr] = d]
  /\ cur_paddr' = cur_paddr + 1
  /\ UNCHANGED fully_invalid_bands

(* The band with the most invalid blocks, the first of them.               *)
Victim_First == CHOOSE b \in Bands : b = 0
Victim ==
  CHOOSE b \in Bands : \A c \in Bands :
     /\ phy_bands[c].invalid_cnt <= phy_bands[b].invalid_cnt
     /\ c < b => phy_bands[c].invalid_cnt < phy_bands[b].invalid_cnt

ValidIn(b) == {p \in Band(b) : smr_reverse_table[p].phy_status = VALID_PHY_BLOCK}

(* do_gc_in_band reads the valid blocks of band b, in order, and writes    *)
(* them back from its start.  Target(b, p) is where the block at p goes,   *)
(* Moved(b, q) the place of the one that comes to q.  The length of the    *)
(* valid prefix is taken from the band's counter.                          *)
Target(b, p) == BandStart(b) + Cardinality({q \in ValidIn(b) : q < p})
Moved(b, q)  == CHOOSE p \in ValidIn(b) : Target(b, p) = q
Filled(b, q) == q \in Band(b) /\ q < BandStart(b) + Cardinality(ValidIn(b))

PrefixEnd(b) == BandStart(b) + phy_bands[b].valid_cnt

CompactedMapping_Stale(b) == mapping_table
CompactedMapping(b) ==
  [k \in Blocks |->
     IF \E p \in ValidIn(b) : smr_reverse_table[p].blk_no = k
     THEN [flag |-> "IN_SMR_DISK",
           paddr |-> Target(b, CHOOSE p \in ValidIn(b) : smr_reverse_table[p].blk_no = k)]
     ELSE mapping_table[k]]

CompactedReverse(b) ==
  [q \in Phys |->
     IF q \in Band(b) /\ q >= PrefixEnd(b) THEN FreeEntry
     ELSE IF Filled(b, q) THEN [blk_no |-> smr_reverse_table[Moved(b, q)].blk_no,
                                phy_status |-> VALID_PHY_BLOCK]
     ELSE smr_reverse_table[q]]

CompactedData_Stale(b) == data
CompactedData(b) ==
  [q \in Phys |->
     IF Filled(b, q) /\ q < PrefixEnd(b) THEN data[Moved(b, q)] ELSE data[q]]

BandCompacted_KeepsFree(c) ==
  [invalid_cnt |-> 0, free_cnt |-> c.free_cnt, valid_cnt |-> c.valid_cnt]
BandCompacted(c) ==
  [invalid_cnt |-> 0, free_cnt |-> BLOCKS_PER_BAND - c.valid_cnt, valid_cnt |-> c.valid_cnt]

do_gc_in_band(b) ==
  /\ mapping_table' = CompactedMapping(b)
  /\ smr_reverse_table' = CompactedReverse(b)
  /\ data' = CompactedData(b)
  /\ phy_bands' = [phy_bands EXCEPT ![b] = BandCompacted(@)]
  /\ cur_paddr' = PrefixEnd(b)
  /\ UNCHANGED fully_invalid_bands

(* garbage_collecting, first branch: a band without valid blocks is freed. *)
reuse_invalid_band(b) ==
  /\ fully_invalid_bands' = fully_invalid_bands \ {b}
  /\ smr_reverse_table' = [q \in Phys |->
        IF q \in Band(b) THEN FreeEntry ELSE smr_reverse_table[q]]
  /\ phy_bands' = [phy_bands EXCEPT ![b] = FreeBand]
  /\ cur_paddr' = BandStart(b)
  /\ UNCHANGED <<mapping_table, data>>

garbage_collecting ==
  IF fully_invalid_bands # {} THEN reuse_invalid_band(Min(fully_invalid_bands))
                              ELSE do_gc_in_band(Victim)

----------------------------------------------------------------------------
(* The write buffer.                                                       *)

(* The counters of slot s after w writes and r reads more.                 *)
Heated(s, w, r) ==
  [blk_no |-> reverse_table[s].blk_no,
   read_cnt |-> reverse_table[s].read_cnt + r,
   write_cnt |-> reverse_table[s].write_cnt + w]
Reset(s) ==
  [blk_no |-> reverse_table[s].blk_no, read_cnt |-> 0, write_cnt |-> 0]

(* update_cold_buf(s): unless s is there already, it takes the place of    *)
(* the first of the most accessed buffers chosen so far, if it was written *)
(* less often than that one was accessed.                                  *)
HottestCold ==
  CHOOSE j \in Colds : \A l \in Colds :
     /\ get_access_cnt(cold_bufs[l]) <= get_access_cnt(cold_bufs[j])
     /\ l < j => get_access_cnt(cold_bufs[l]) < get_access_cnt(cold_bufs[j])

update_cold_buf_Each(s) ==
  [j \in Colds |-> IF /\ \A l \in Colds : cold_bufs[l] # s
                      /\ reverse_table[s].write_cnt < get_access_cnt(cold_bufs[j])
                   THEN s ELSE cold_bufs[j]]
update_cold_buf_Reversed(s) ==
  IF /\ \A j \in Colds : cold_bufs[j] # s
     /\ reverse_table[s].write_cnt > get_access_cnt(cold_bufs[HottestCold])
  THEN [cold_bufs EXCEPT ![HottestCold] = s]
  ELSE cold_bufs
update_cold_buf(s) ==
  IF /\ \A j \in Colds : cold_bufs[j] # s
     /\ reverse_table[s].write_cnt < get_access_cnt(cold_bufs[HottestCold])
  THEN [cold_bufs EXCEPT ![HottestCold] = s]
  ELSE cold_bufs

NextColdBufs(s) ==
  IF s < SWAP_OUT_CNT THEN [cold_bufs EXCEPT ![s] = s] ELSE update_cold_buf(s)

(* The loop variable after an iteration of a loop of n iterations.         *)
NextIndex_Stuck(n) == i
NextIndex(n) == IF i + 1 < n THEN i + 1 ELSE 0

----------------------------------------------------------------------------
(* Requests: each starts when none is in progress.                         *)

(* write_smr_blocks, the block is in the buffer.                           *)
WriteHit(k, d) ==
  LET s == mapping_table[k].paddr
  IN  /\ pc = "idle"
      /\ in_hdd_buf(k)
      /\ get_access_cnt(s) + Weight(k) <= MAX_ACCESS
      /\ hdd_buf' = [hdd_buf EXCEPT ![s] = d]
      /\ reverse_table' = [reverse_table EXCEPT ![s] = Heated(s, Weight(k), 0)]
      /\ UNCHANGED <<smr, free_hdd_bufs, local, meta_flag>>

(* write_smr_blocks, the block is on the SMR disk: its place is given up,  *)
(* then write_block_into_hdd_buf looks for a slot.                         *)
WriteUpdate(k, d) ==
  /\ pc = "idle"
  /\ in_smr_disk(k)
  /\ invalidate_mapping_entry(k)
  /\ pc' = IF is_hdd_buf_full THEN "cold" ELSE "take"
  /\ i' = 0
  /\ req' = [blk |-> k, d |-> d]
  /\ UNCHANGED <<buf, cold_bufs, collected, meta_flag>>

(* write_smr_blocks, the block has no mapping: it will be appended.        *)
WriteNew(k, d) ==
  /\ pc = "idle"
  /\ ~has_mapping(k)
  /\ pc' = "append"
  /\ req' = [blk |-> k, d |-> d]
  /\ UNCHANGED <<smr, buf, cold_bufs, i, collected, meta_flag>>

(* read_smr_blocks of a buffered block; other reads change nothing.        *)
ReadBuf(k) ==
  LET s == mapping_table[k].paddr
  IN  /\ pc = "idle"
      /\ in_hdd_buf(k)
      /\ get_access_cnt(s) + Weight(k) <= MAX_ACCESS
      /\ reverse_table' = [reverse_table EXCEPT ![s] = Heated(s, 0, Weight(k))]
      /\ UNCHANGED <<smr, hdd_buf, free_hdd_bufs, local, meta_flag>>

(* mark_one_blk_bmp on a block whose bit is clear: its slot is reclaimed   *)
(* (reclaim_free_hdd_buf) or its place on the SMR disk invalidated.        *)
FreeSlot_KeepsMapping(k) ==
  LET s == mapping_table[k].paddr
  IN  /\ in_hdd_buf(k)
      /\ reverse_table' = [reverse_table EXCEPT ![s] = Reset(s)]
      /\ free_hdd_bufs' = free_hdd_bufs \cup {s}
      /\ UNCHANGED <<smr, hdd_buf>>
FreeSlot(k) ==
  LET s == mapping_table[k].paddr
  IN  /\ in_hdd_buf(k)
      /\ reverse_table' = [reverse_table EXCEPT ![s] = Reset(s)]
      /\ free_hdd_bufs' = free_hdd_bufs \cup {s}
      /\ mapping_table' = [mapping_table EXCEPT ![k] = Unmapped]
      /\ UNCHANGED <<smr_reverse_table, phy_bands, cur_paddr,
                     fully_invalid_bands, data, hdd_buf>>

MarkFree(k) ==
  /\ pc = "idle"
  /\ aware
  /\ \/ FreeSlot(k)
     \/ in_smr_disk(k) /\ invalidate_mapping_entry(k) /\ UNCHANGED buf
  /\ UNCHANGED <<local, meta_flag>>

(* mark_meta_blks sets and cleans the flags.                               *)
SetMetaFlag(k) ==
  /\ pc = "idle"
  /\ aware
  /\ meta_flag' = [meta_flag EXCEPT ![k] = ~@]
  /\ UNCHANGED <<smr, buf, local>>

----------------------------------------------------------------------------
(* The rest of a request.                                                  *)

(* One iteration of the loop of swap_out_coldest that chooses buffers.     *)
ScanColdBuf ==
  /\ pc = "cold"
  /\ cold_bufs' = NextColdBufs(i)
  /\ i' = NextIndex(BLOCKS_OF_HDD_BUF)
  /\ pc' = IF i + 1 < BLOCKS_OF_HDD_BUF THEN "cold" ELSE "swap"
  /\ UNCHANGED <<smr, buf, req, collected, meta_flag>>

(* get_free_smr_block, called by append_smr_blocks: collect, if the cursor *)
(* is at the end of a free run.                                            *)
GarbageCollect ==
  /\ pc \in {"append", "swap"}
  /\ ~collected
  /\ gc_needed
  /\ garbage_collecting
  /\ collected' = TRUE
  /\ UNCHANGED <<buf, cold_bufs, pc, i, req, meta_flag>>

CursorSettled == collected \/ ~gc_needed

(* append_smr_blocks writes the request's block.                           *)
AppendNew ==
  /\ pc = "append"
  /\ CursorSettled
  /\ cur_paddr \in Phys
  /\ Append(req.blk, req.d)
  /\ pc' = "idle"
  /\ req' = NoReq
  /\ collected' = FALSE
  /\ UNCHANGED <<buf, cold_bufs, i, meta_flag>>

(* One iteration of the loop of swap_out_coldest that writes buffers.  The *)
(* counters are reset before append_smr_blocks, which does not look at     *)
(* them.                                                                   *)
SwapOut ==
  LET s == cold_bufs[i]
  IN  /\ pc = "swap"
      /\ CursorSettled
      /\ cur_paddr \in Phys
      /\ Append(reverse_table[s].blk_no, hdd_buf[s])
      /\ reverse_table' = [reverse_table EXCEPT ![s] = Reset(s)]
      /\ free_hdd_bufs' = free_hdd_bufs \cup {s}
      /\ i' = NextIndex(SWAP_OUT_CNT)
      /\ pc' = IF i + 1 < SWAP_OUT_CNT THEN "swap" ELSE "take"
      /\ collected' = FALSE
      /\ UNCHANGED <<hdd_buf, cold_bufs, req, meta_flag>>

(* write_block_into_hdd_buf once a slot is free.                           *)
TakeFreeBuf ==
  LET s == Min(free_hdd_bufs)
  IN  /\ pc = "take"
      /\ free_hdd_bufs' = free_hdd_bufs \ {s}
      /\ hdd_buf' = [hdd_buf EXCEPT ![s] = req.d]
      /\ mapping_table' = [mapping_table EXCEPT ![req.blk] =
            [flag |-> "IN_HDD_BUF", paddr |-> s]]
      /\ reverse_table' = [reverse_table EXCEPT ![s] =
            [blk_no |-> req.blk, read_cnt |-> @.read_cnt,
             write_cnt |-> @.write_cnt + Weight(req.blk)]]
      /\ pc' = "idle"
      /\ req' = NoReq
      /\ UNCHANGED <<smr_reverse_table, phy_bands, cur_paddr, fully_invalid_bands,
                     data, cold_bufs, i, collected, meta_flag>>

(* The cursor is past the end of the disk and no band was collected: the   *)
(* block is copied behind the vmalloc'ed image, and the kernel stops the   *)
(* driver.  What happens to the tables on the way there is not modelled.   *)
Fault ==
  /\ pc \in {"append", "swap"}
  /\ CursorSettled
  /\ cur_paddr \notin Phys
  /\ pc' = "oops"
  /\ UNCHANGED <<smr, buf, cold_bufs, i, req, collected, meta_flag>>

Request ==
  \/ \E k \in HostBlocks, d \in Data : WriteHit(k, d) \/ WriteUpdate(k, d) \/ WriteNew(k, d)
  \/ \E k \in HostBlocks : ReadBuf(k) \/ MarkFree(k)
  \/ \E k \in MetaBlocks : SetMetaFlag(k)

Serve == ScanColdBuf \/ GarbageCollect \/ AppendNew \/ SwapOut \/ TakeFreeBuf \/ Fault

Next == Request \/ Serve

Spec == Init /\ [][Next]_vars

(* do_request runs to its end with the queue lock held: nothing blocks a   *)
(* request that has begun.                                                 *)
FairSpec == Spec /\ WF_vars(Serve)

----------------------------------------------------------------------------
(* Properties.                                                             *)

MappingEntry == [flag : {"INVALID_MAPPING", "IN_SMR_DISK", "IN_HDD_BUF"},
                 paddr : Nat]

PhyStatus   == {INVALID_PHY_BLOCK, VALID_PHY_BLOCK, FREE_PHY_BLOCK}
ReverseEntry == [blk_no : Blocks, phy_status : PhyStatus]
BandInfo == [invalid_cnt : 0 .. BLOCKS_PER_BAND, free_cnt : 0 .. BLOCKS_PER_BAND,
             valid_cnt : 0 .. BLOCKS_PER_BAND]

SmrTypeOK ==
  /\ mapping_table \in [Blocks -> MappingEntry]
  /\ smr_reverse_table \in [Phys -> ReverseEntry]
  /\ phy_bands \in [Bands -> BandInfo]
  /\ cur_paddr \in 0 .. TOTAL_SMR_BLOCKS_CNT
  /\ fully_invalid_bands \subseteq Bands
  /\ data \in [Phys -> Data \cup {Blank}]

BufTypeOK ==
  /\ hdd_buf \in [Slots -> Data \cup {Blank}]
  /\ reverse_table \in [Slots -> [blk_no : Blocks, read_cnt : Nat, write_cnt : Nat]]
  /\ free_hdd_bufs \subseteq Slots

LocalTypeOK ==
  /\ meta_flag \in [Blocks -> BOOLEAN]
  /\ cold_bufs \in [Colds -> Slots]
  /\ pc \in {"idle", "cold", "swap", "take", "append", "oops"}
  /\ i \in 0 .. BLOCKS_OF_HDD_BUF - 1
  /\ req \in [blk : Blocks, d : Data \cup {Blank}]
  /\ collected \in BOOLEAN

(* Every variable holds what its C type and its use allow; the cursor may  *)
(* stand one past the last block.                                          *)
TypeOK == SmrTypeOK /\ BufTypeOK /\ LocalTypeOK

(* The mapping table and the reverse table of the SMR disk are inverse to  *)
(* each other: no two logical blocks share a place, and no place holds     *)
(* data of a block that lives elsewhere (stl.c, every caller of            *)
(* setup_global_mapping_entry and setup_smr_reverse_mapping).              *)
MappingBijection ==
  /\ \A k \in Blocks : in_smr_disk(k) =>
       /\ mapping_table[k].paddr \in Phys
       /\ smr_reverse_table[mapping_table[k].paddr] =
            [blk_no |-> k, phy_status |-> VALID_PHY_BLOCK]
  /\ \A p \in Phys : smr_reverse_table[p].phy_status = VALID_PHY_BLOCK =>
       mapping_table[smr_reverse_table[p].blk_no] =
            [flag |-> "IN_SMR_DISK", paddr |-> p]

(* A slot of the buffer is in the free vector, or exactly one block is     *)
(* mapped to it and its reverse entry names that block: no slot leaks, and *)
(* none is handed out twice (hdd_buf.c).                                   *)
BufferOwnership ==
  /\ \A k \in Blocks : in_hdd_buf(k) =>
       /\ mapping_table[k].paddr \in Slots \ free_hdd_bufs
       /\ reverse_table[mapping_table[k].paddr].blk_no = k
  /\ \A s \in Slots \ free_hdd_bufs :
       mapping_table[reverse_table[s].blk_no] = [flag |-> "IN_HDD_BUF", paddr |-> s]

(* How many blocks of band b have status st in the reverse table T.        *)
StatusCount(T, b, st) == Cardinality({p \in Band(b) : T[p].phy_status = st})
Counted(T, b) == [invalid_cnt |-> StatusCount(T, b, INVALID_PHY_BLOCK),
                  free_cnt    |-> StatusCount(T, b, FREE_PHY_BLOCK),
                  valid_cnt   |-> StatusCount(T, b, VALID_PHY_BLOCK)]

(* The counters of a band, incremented and decremented one by one, are     *)
(* what counting its blocks gives; GC trusts them for the victim and for   *)
(* the length of the compacted prefix (stl.c:134, 187).                    *)
BandCounters == \A b \in Bands : phy_bands[b] = Counted(smr_reverse_table, b)

(* The vector of fully invalid bands is exact, so that GC frees no band    *)
(* with data in it and misses none that costs nothing to free.             *)
FullyInvalidExact ==
  fully_invalid_bands =
    {b \in Bands : \A p \in Band(b) : smr_reverse_table[p].phy_status = INVALID_PHY_BLOCK}

(* The free blocks are one run, from the cursor to the end of a band.      *)
(* get_free_smr_block relies on it: it tests the cursor's block only at    *)
(* the start of a band (stl.c:109).                                        *)
FreeRun ==
  \E e \in Phys \cup {TOTAL_SMR_BLOCKS_CNT} :
    /\ e % BLOCKS_PER_BAND = 0
    /\ cur_paddr <= e
    /\ \A p \in Phys : smr_reverse_table[p].phy_status = FREE_PHY_BLOCK
                         <=> p \in cur_paddr .. e - 1

(* After a collection the cursor is at a free block, although              *)
(* get_free_smr_block does not look again: the disk is never so full that  *)
(* the victim has nothing to give (stl.c:112-115).                         *)
GcFindsRoom ==
  collected => /\ cur_paddr \in Phys
               /\ smr_reverse_table[cur_paddr].phy_status = FREE_PHY_BLOCK

(* The buffers chosen for swapping out are different ones, and all of them *)
(* hold a block, until each is swapped out (hdd_buf.c:121-129).            *)
ColdBufsDistinct ==
  pc = "swap" => /\ \A j, l \in Colds : cold_bufs[j] = cold_bufs[l] => j = l
                 /\ free_hdd_bufs = {cold_bufs[j] : j \in 0 .. i - 1}

(* With nothing read since they were filled, the buffers swapped out are   *)
(* those written least: the one pass over the slots, which puts a colder   *)
(* one in the place of the hottest chosen so far, misses none              *)
(* (hdd_buf.c:87-107).                                                     *)
ColdestChosen ==
  (pc = "swap" /\ free_hdd_bufs = {} /\ \A s \in Slots : reverse_table[s].read_cnt = 0) =>
    \A j \in Colds : \A s \in Slots \ {cold_bufs[l] : l \in Colds} :
      get_access_cnt(cold_bufs[j]) <= get_access_cnt(s)

(* What the program counter promises: a block being written has no mapping *)
(* until its data is placed, so it takes up no room; the buffers chosen so *)
(* far are different ones; a slot is free when it is asked for.            *)
Phases ==
  /\ collected => pc \in {"append", "swap"}
  /\ pc \in {"append", "cold", "swap", "take"} => ~has_mapping(req.blk)
  /\ pc = "cold" =>
       /\ free_hdd_bufs = {}
       /\ \A j \in Colds : j < i => cold_bufs[j] < i
       /\ \A j, l \in Colds : j < i /\ l < i /\ cold_bufs[j] = cold_bufs[l] => j = l
  /\ pc = "swap" => i < SWAP_OUT_CNT
  /\ pc = "take" => free_hdd_bufs # {}

(* The inductive invariant: everything above holds in every state.         *)
IInv ==
  /\ TypeOK
  /\ MappingBijection
  /\ BufferOwnership
  /\ BandCounters
  /\ FullyInvalidExact
  /\ FreeRun
  /\ GcFindsRoom
  /\ ColdBufsDistinct
  /\ Phases

(* A shingled write destroys the tracks behind it in its band.  When the   *)
(* content of a place changes, no place behind it in the band is valid,    *)
(* unless the band as a whole is being rewritten up to the new cursor      *)
(* (append_smr_blocks, do_gc_in_band).                                     *)
ShingledStep ==
  \A p \in Phys : data'[p] # data[p] =>
     \A q \in Band(BandOf(p)) :
       /\ q > p
       /\ smr_reverse_table'[q].phy_status = VALID_PHY_BLOCK
       => collected' /\ ~collected /\ q < cur_paddr'

ShingledWrite == [][ShingledStep]_vars

(* A request that has begun is answered, unless the driver faults: the     *)
(* loops of swap_out_coldest end, each turn of them finds a place to       *)
(* append to, and a slot is free then (hdd_buf.c:110-130, 164-194).        *)
RequestAnswered == (pc # "idle") ~> (pc \in {"idle", "oops"})

(* "cur_paddr always points to free block" (stl.c:108), so that what is    *)
(* written goes inside the disk.                                           *)
NoOops == pc # "oops"

(* When the driver writes past the end it is not for want of room: some    *)
(* block was invalid, and a collection would have found it (stl.c:109).    *)
FaultHadRoom ==
  pc = "oops" => \E p \in Phys : smr_reverse_table[p].phy_status = INVALID_PHY_BLOCK

(* "In order to keep the meta data in HDD BUF, we double the write_cnt for *)
(* META data to favor it by making it HOT" (hdd_buf.c:186): with favor, a  *)
(* metadata block is not chosen for swapping out when a buffer of ordinary *)
(* data, accessed less (doubling included), stays.                         *)
FavoredMetaKept ==
  (favor /\ pc = "swap" /\ free_hdd_bufs = {}) =>
    \A j \in Colds : \A s \in Slots \ {cold_bufs[l] : l \in Colds} :
      /\ meta_flag[reverse_table[cold_bufs[j]].blk_no]
      /\ ~meta_flag[reverse_table[s].blk_no]
      => get_access_cnt(cold_bufs[j]) <= get_access_cnt(s)

----------------------------------------------------------------------------
(* The promise of the disk.                                                *)

(* What a read of block k returns; Blank stands for a buffer left alone.   *)
Visible(k) ==
  IF in_hdd_buf(k) THEN hdd_buf[mapping_table[k].paddr]
  ELSE IF in_smr_disk(k) THEN data[mapping_table[k].paddr]
  ELSE Blank

(* A write takes effect when its request begins: no read comes between.    *)
Store == [k \in Blocks |->
            IF pc # "idle" /\ k = req.blk THEN req.d ELSE Visible(k)]

Device == INSTANCE BlockDevice WITH
            NoData <- Blank, store <- Store, busy <- pc # "idle"

(* Whatever is swapped out, collected or moved, the layer implements the   *)
(* block device: a request changes the block it names when it begins, and  *)
(* serving it changes no other (stl.c, hdd_buf.c).                         *)
ImplementsDevice == Device!Spec

============================================================================
