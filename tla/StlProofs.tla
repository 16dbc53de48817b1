----------------------------- MODULE StlProofs -----------------------------
(***************************************************************************)
(* The translation layer is consistent in every reachable state, for every *)
(* geometry of the disk, every size of the buffer and every set of blocks  *)
(* and contents.  The invariant is proved action by action; what an action *)
(* does to the SMR disk is left to the lemmas of SmrDiskProofs.            *)
(***************************************************************************)
EXTENDS SmrDiskProofs

(* What is invariant of the buffer and of the request in progress.         *)
BufInv == /\ BufTypeOK
          /\ LocalTypeOK
          /\ BufferOwnership
          /\ GcFindsRoom
          /\ ColdBufsDistinct
          /\ Phases

LEMMA IInvParts == IInv <=> SmrInv /\ BufInv
  BY DEF IInv, TypeOK, SmrInv, BufInv

LEMMA InitIInv == Init => IInv
<1>. SUFFICES ASSUME Init PROVE IInv
  OBVIOUS
<1>. USE DEF Init
<1>1. FreeEntry \in ReverseEntry /\ FreeEntry.phy_status = FREE_PHY_BLOCK
  BY ZeroBlock DEF FreeEntry, ReverseEntry, PhyStatus
<1>2. \A p \in Phys : smr_reverse_table[p].phy_status = FREE_PHY_BLOCK
  BY <1>1
<1>3. \A k \in Blocks : ~has_mapping(k)
  BY DEF has_mapping, in_smr_disk, in_hdd_buf, Unmapped
<1>4. BandCounters
  <2>1. ASSUME NEW b \in Bands
        PROVE  phy_bands[b] = Counted(smr_reverse_table, b)
    <3>1. \A p \in Band(b) : smr_reverse_table[p].phy_status = FREE_PHY_BLOCK
      BY <1>2, BandBlocks
    <3>2. StatusCount(smr_reverse_table, b, FREE_PHY_BLOCK) = BLOCKS_PER_BAND
      BY <3>1, FullCount
    <3>3. /\ StatusCount(smr_reverse_table, b, VALID_PHY_BLOCK) = 0
          /\ StatusCount(smr_reverse_table, b, INVALID_PHY_BLOCK) = 0
      BY <3>1, NoneCounted DEF INVALID_PHY_BLOCK, VALID_PHY_BLOCK, FREE_PHY_BLOCK
    <3>4. phy_bands[b] = FreeBand
      OBVIOUS
    <3>. QED
      BY <3>2, <3>3, <3>4 DEF Counted, FreeBand
  <2>. QED
    BY <2>1 DEF BandCounters
<1>5. SmrTypeOK
  <2>1. Unmapped \in MappingEntry
    BY DEF Unmapped, MappingEntry
  <2>2. FreeBand \in BandInfo
    BY GeometryAssumption DEF FreeBand, BandInfo
  <2>3. 0 \in 0 .. TOTAL_SMR_BLOCKS_CNT
    BY GeometryAssumption DEF TOTAL_SMR_BLOCKS_CNT
  <2>. QED
    BY <1>1, <2>1, <2>2, <2>3 DEF SmrTypeOK
<1>6. MappingBijection
  BY <1>2, <1>3 DEF MappingBijection, has_mapping, VALID_PHY_BLOCK, FREE_PHY_BLOCK
<1>7. FullyInvalidExact
  <2>1. \A b \in Bands : BandStart(b) \in Band(b) /\ BandStart(b) \in Phys
    BY BandBlocks, GeometryAssumption DEF Band, Phys
  <2>. QED
    BY <1>2, <2>1 DEF FullyInvalidExact, INVALID_PHY_BLOCK, FREE_PHY_BLOCK
<1>8. FreeRun
  <2>1. TOTAL_SMR_BLOCKS_CNT % BLOCKS_PER_BAND = 0 /\ 0 <= TOTAL_SMR_BLOCKS_CNT
    BY StartOfBand, GeometryAssumption DEF TOTAL_SMR_BLOCKS_CNT, BandStart
  <2>2. \A p \in Phys : p \in 0 .. TOTAL_SMR_BLOCKS_CNT - 1
    BY DEF Phys
  <2>. QED
    BY <1>2, <2>1, <2>2 DEF FreeRun
<1>9. BufTypeOK
  BY ZeroBlock DEF BufTypeOK
<1>10. LocalTypeOK
  <2>1. meta_flag \in [Blocks -> BOOLEAN]
    BY Zenon
  <2>2. cold_bufs \in [Colds -> Slots]
    BY BufferAssumption DEF Slots
  <2>3. i \in 0 .. BLOCKS_OF_HDD_BUF - 1
    BY BufferAssumption
  <2>4. req \in [blk : Blocks, d : Data \cup {Blank}]
    BY ZeroBlock DEF NoReq
  <2>5. pc = "idle" /\ collected \in BOOLEAN
    OBVIOUS
  <2>. HIDE DEF Init
  <2>. QED
    BY <2>1, <2>2, <2>3, <2>4, <2>5 DEF LocalTypeOK
<1>11. BufferOwnership
  BY <1>3 DEF BufferOwnership, has_mapping
<1>12. GcFindsRoom /\ ColdBufsDistinct /\ Phases
  BY DEF GcFindsRoom, ColdBufsDistinct, Phases
<1>. QED
  BY <1>4, <1>5, <1>6, <1>7, <1>8, <1>9, <1>10, <1>11, <1>12 DEF IInv, TypeOK

----------------------------------------------------------------------------
(* Actions that leave the disk alone or touch only entries of blocks that  *)
(* are not on it.                                                          *)

LEMMA OffDiskChange ==
  ASSUME SmrInv, NEW k \in Blocks, ~in_smr_disk(k),
         NEW m \in MappingEntry, m.flag # "IN_SMR_DISK",
         mapping_table' = [mapping_table EXCEPT ![k] = m],
         UNCHANGED <<smr_reverse_table, phy_bands, cur_paddr, fully_invalid_bands, data>>
  PROVE  SmrInv'
<1>0. SmrTypeOK /\ MappingBijection /\ BandCounters /\ FullyInvalidExact /\ FreeRun
  BY DEF SmrInv
<1>1. SmrTypeOK'
  BY <1>0 DEF SmrTypeOK
<1>2. \A l \in Blocks : l # k => mapping_table'[l] = mapping_table[l]
  BY <1>0 DEF SmrTypeOK
<1>3. mapping_table'[k].flag # "IN_SMR_DISK"
  BY <1>0 DEF SmrTypeOK
<1>4. MappingBijection'
  <2>1. ASSUME NEW l \in Blocks, in_smr_disk(l)'
        PROVE  /\ mapping_table'[l].paddr \in Phys
               /\ smr_reverse_table'[mapping_table'[l].paddr] =
                    [blk_no |-> l, phy_status |-> VALID_PHY_BLOCK]
    <3>1. mapping_table'[l] = mapping_table[l] /\ in_smr_disk(l)
      BY <1>2, <1>3, <2>1 DEF in_smr_disk
    <3>. QED
      BY <1>0, <3>1 DEF MappingBijection
  <2>2. ASSUME NEW q \in Phys, smr_reverse_table'[q].phy_status = VALID_PHY_BLOCK
        PROVE  mapping_table'[smr_reverse_table'[q].blk_no] =
                 [flag |-> "IN_SMR_DISK", paddr |-> q]
    <3>1. smr_reverse_table[q].blk_no \in Blocks
      BY <1>0 DEF SmrTypeOK, ReverseEntry
    <3>2. mapping_table[smr_reverse_table[q].blk_no] = [flag |-> "IN_SMR_DISK", paddr |-> q]
      BY <1>0, <2>2 DEF MappingBijection
    <3>3. smr_reverse_table[q].blk_no # k
      BY <3>2 DEF in_smr_disk
    <3>. QED
      BY <1>2, <3>1, <3>2, <3>3
  <2>. QED
    BY <2>1, <2>2 DEF MappingBijection, in_smr_disk
<1>5. BandCounters' /\ FullyInvalidExact' /\ FreeRun'
  BY <1>0 DEF BandCounters, StatusCount, FullyInvalidExact, FreeRun
<1>. QED
  BY <1>1, <1>4, <1>5 DEF SmrInv

LEMMA WeightType ==
  ASSUME LocalTypeOK, NEW k \in Blocks
  PROVE  Weight(k) \in Nat
  BY DEF Weight

(* Heating or resetting a buffer keeps the block it holds.                 *)
LEMMA CountersOnly ==
  ASSUME BufInv, NEW s \in Slots, NEW w \in Nat, NEW r \in Nat
  PROVE  /\ Heated(s, w, r) \in [blk_no : Blocks, read_cnt : Nat, write_cnt : Nat]
         /\ Heated(s, w, r).blk_no = reverse_table[s].blk_no
         /\ Reset(s) \in [blk_no : Blocks, read_cnt : Nat, write_cnt : Nat]
         /\ Reset(s).blk_no = reverse_table[s].blk_no
<1>1. reverse_table[s] \in [blk_no : Blocks, read_cnt : Nat, write_cnt : Nat]
  BY DEF BufInv, BufTypeOK
<1>. QED
  BY <1>1 DEF Heated, Reset

(* An access to a buffered block: only the counters and the content of its *)
(* slot change.                                                            *)
LEMMA AccessKeeps ==
  ASSUME IInv, pc = "idle", NEW s \in Slots, NEW w \in Nat, NEW r \in Nat,
         NEW c \in Data \cup {Blank},
         reverse_table' = [reverse_table EXCEPT ![s] = Heated(s, w, r)],
         hdd_buf' \in {hdd_buf, [hdd_buf EXCEPT ![s] = c]},
         UNCHANGED <<smr, free_hdd_bufs, local, meta_flag>>
  PROVE  IInv'
<1>0. SmrInv /\ BufInv
  BY IInvParts
<1>1. SmrInv'
  BY <1>0, SmrUnchanged
<1>2. BufTypeOK'
  BY <1>0, CountersOnly DEF BufInv, BufTypeOK
<1>3. LocalTypeOK'
  BY <1>0 DEF BufInv, LocalTypeOK, local
<1>4. BufferOwnership'
  <2>1. \A t \in Slots : reverse_table'[t].blk_no = reverse_table[t].blk_no
    BY <1>0, CountersOnly DEF BufInv, BufTypeOK
  <2>2. mapping_table' = mapping_table /\ free_hdd_bufs' = free_hdd_bufs
    BY DEF smr
  <2>3. \A k \in Blocks : in_hdd_buf(k)' <=> in_hdd_buf(k)
    BY <2>2 DEF in_hdd_buf
  <2>. QED
    BY <1>0, <2>1, <2>2, <2>3 DEF BufInv, BufferOwnership
<1>5. GcFindsRoom' /\ ColdBufsDistinct' /\ Phases'
  BY <1>0 DEF BufInv, GcFindsRoom, ColdBufsDistinct, Phases, local
<1>. QED
  BY <1>1, <1>2, <1>3, <1>4, <1>5, IInvParts DEF IInv, TypeOK, SmrInv

(* A buffered block has a slot.                                            *)
LEMMA SlotOf ==
  ASSUME BufInv, NEW k \in Blocks, in_hdd_buf(k)
  PROVE  /\ mapping_table[k].paddr \in Slots \ free_hdd_bufs
         /\ reverse_table[mapping_table[k].paddr].blk_no = k
  BY DEF BufInv, BufferOwnership

LEMMA WriteHitKeeps ==
  ASSUME IInv, NEW k \in HostBlocks, NEW d \in Data, WriteHit(k, d)
  PROVE  IInv'
<1>1. k \in Blocks /\ BufInv /\ LocalTypeOK
  BY ParameterAssumption, IInvParts DEF BufInv
<1>2. mapping_table[k].paddr \in Slots /\ Weight(k) \in Nat
  BY <1>1, SlotOf, WeightType DEF WriteHit
<1>. QED
  BY <1>2, AccessKeeps DEF WriteHit

LEMMA ReadBufKeeps ==
  ASSUME IInv, NEW k \in HostBlocks, ReadBuf(k)
  PROVE  IInv'
<1>1. k \in Blocks /\ BufInv /\ LocalTypeOK
  BY ParameterAssumption, IInvParts DEF BufInv
<1>2. mapping_table[k].paddr \in Slots /\ Weight(k) \in Nat
  BY <1>1, SlotOf, WeightType DEF ReadBuf
<1>. QED
  BY <1>2, AccessKeeps DEF ReadBuf

LEMMA SetMetaFlagKeeps ==
  ASSUME IInv, NEW k \in MetaBlocks, SetMetaFlag(k)
  PROVE  IInv'
<1>0. SmrInv /\ BufInv
  BY IInvParts
<1>1. /\ UNCHANGED <<smr, buf, local>>
      /\ meta_flag' = [meta_flag EXCEPT ![k] = ~@]
  BY DEF SetMetaFlag
<1>2. SmrInv'
  BY <1>0, <1>1, SmrUnchanged
<1>3. BufTypeOK' /\ BufferOwnership'
  BY <1>0, <1>1 DEF BufInv, BufTypeOK, BufferOwnership, in_hdd_buf, buf, smr
<1>4. LocalTypeOK'
  BY <1>0, <1>1, Zenon DEF BufInv, LocalTypeOK, local
<1>5. GcFindsRoom' /\ ColdBufsDistinct' /\ Phases'
  BY <1>0, <1>1 DEF BufInv, GcFindsRoom, ColdBufsDistinct, Phases, local, buf, smr,
     has_mapping, in_hdd_buf, in_smr_disk
<1>. QED
  BY <1>2, <1>3, <1>4, <1>5, IInvParts DEF IInv, TypeOK, SmrInv

----------------------------------------------------------------------------
(* A request begins, or a block is freed.                                  *)

(* The buffer does not notice what happens to the mappings of blocks that  *)
(* are not in it.                                                          *)
LEMMA OwnershipKept ==
  ASSUME BufTypeOK, BufferOwnership, UNCHANGED <<reverse_table, free_hdd_bufs>>,
         \A k \in Blocks : in_hdd_buf(k)' <=> in_hdd_buf(k),
         \A k \in Blocks : in_hdd_buf(k) => mapping_table'[k] = mapping_table[k]
  PROVE  BufferOwnership'
<1>1. ASSUME NEW k \in Blocks, in_hdd_buf(k)'
      PROVE  /\ mapping_table'[k].paddr \in Slots \ free_hdd_bufs
             /\ reverse_table[mapping_table'[k].paddr].blk_no = k
  BY <1>1 DEF BufferOwnership
<1>2. ASSUME NEW s \in Slots \ free_hdd_bufs
      PROVE  mapping_table'[reverse_table[s].blk_no] = [flag |-> "IN_HDD_BUF", paddr |-> s]
  <2>1. reverse_table[s].blk_no \in Blocks
    BY DEF BufTypeOK
  <2>2. mapping_table[reverse_table[s].blk_no] = [flag |-> "IN_HDD_BUF", paddr |-> s]
    BY DEF BufferOwnership
  <2>3. in_hdd_buf(reverse_table[s].blk_no)
    BY <2>2 DEF in_hdd_buf
  <2>. QED
    BY <2>1, <2>2, <2>3
<1>. QED
  BY <1>1, <1>2 DEF BufferOwnership

(* Giving up a block's place on the disk.                                  *)
LEMMA InvalidateUnmaps ==
  ASSUME SmrInv, NEW k \in Blocks, in_smr_disk(k), invalidate_mapping_entry(k)
  PROVE  /\ \A l \in Blocks : in_hdd_buf(l)' <=> in_hdd_buf(l)
         /\ \A l \in Blocks : in_hdd_buf(l) => mapping_table'[l] = mapping_table[l]
         /\ ~has_mapping(k)'
<1>1. mapping_table \in [Blocks -> MappingEntry]
  BY DEF SmrInv, SmrTypeOK
<1>2. mapping_table' = [mapping_table EXCEPT ![k] = Unmapped]
  BY DEF invalidate_mapping_entry
<1>3. ~in_hdd_buf(k)
  BY DEF in_smr_disk, in_hdd_buf
<1>4. \A l \in Blocks : l # k => mapping_table'[l] = mapping_table[l]
  BY <1>1, <1>2
<1>5. mapping_table'[k].flag = "INVALID_MAPPING"
  BY <1>1, <1>2 DEF Unmapped
<1>. QED
  BY <1>3, <1>4, <1>5 DEF in_hdd_buf, in_smr_disk, has_mapping

LEMMA WriteUpdateKeeps ==
  ASSUME IInv, NEW k \in HostBlocks, NEW d \in Data, WriteUpdate(k, d)
  PROVE  IInv'
<1>0. SmrInv /\ BufInv /\ k \in Blocks
  BY IInvParts, ParameterAssumption
<1>1. /\ pc = "idle" /\ in_smr_disk(k) /\ invalidate_mapping_entry(k)
      /\ pc' = IF is_hdd_buf_full THEN "cold" ELSE "take"
      /\ i' = 0
      /\ req' = [blk |-> k, d |-> d]
      /\ UNCHANGED <<buf, cold_bufs, collected, meta_flag>>
  BY DEF WriteUpdate
<1>2. SmrInv'
  BY <1>0, <1>1, InvalidateKeeps
<1>3. BufTypeOK'
  BY <1>0, <1>1 DEF BufInv, BufTypeOK, buf
<1>4. LocalTypeOK'
  <2>1. i' \in 0 .. BLOCKS_OF_HDD_BUF - 1
    BY <1>1, BufferAssumption
  <2>2. pc' \in {"idle", "cold", "swap", "take", "append", "oops"}
    BY <1>1
  <2>3. req' \in [blk : Blocks, d : Data \cup {Blank}]
    BY <1>0, <1>1
  <2>. QED
    BY <1>0, <1>1, <2>1, <2>2, <2>3 DEF BufInv, LocalTypeOK
<1>5. BufferOwnership'
  BY <1>0, <1>1, InvalidateUnmaps, OwnershipKept DEF BufInv, buf
<1>6. ~collected /\ ~collected'
  BY <1>0, <1>1 DEF BufInv, Phases
<1>7. GcFindsRoom' /\ ColdBufsDistinct'
  BY <1>1, <1>6 DEF GcFindsRoom, ColdBufsDistinct
<1>8. Phases'
  <2>1. ~has_mapping(req.blk)'
    <3>1. ~has_mapping(k)'
      BY <1>0, <1>1, InvalidateUnmaps
    <3>2. req'.blk = k
      BY <1>1
    <3>. QED
      BY <3>1, <3>2 DEF has_mapping, in_smr_disk, in_hdd_buf
  <2>2. free_hdd_bufs' = {} <=> is_hdd_buf_full
    BY <1>1 DEF buf, is_hdd_buf_full
  <2>3. \A j \in Colds : ~ (j < i')
    BY <1>1, BufferAssumption DEF Colds
  <2>. QED
    BY <1>1, <1>6, <2>1, <2>2, <2>3 DEF Phases
<1>. QED
  BY <1>2, <1>3, <1>4, <1>5, <1>7, <1>8 DEF IInv, TypeOK, SmrInv

LEMMA WriteNewKeeps ==
  ASSUME IInv, NEW k \in HostBlocks, NEW d \in Data, WriteNew(k, d)
  PROVE  IInv'
<1>0. SmrInv /\ BufInv /\ k \in Blocks
  BY IInvParts, ParameterAssumption
<1>1. /\ pc = "idle" /\ ~has_mapping(k)
      /\ pc' = "append"
      /\ req' = [blk |-> k, d |-> d]
      /\ UNCHANGED <<smr, buf, cold_bufs, i, collected, meta_flag>>
  BY DEF WriteNew
<1>2. SmrInv'
  BY <1>0, <1>1, SmrUnchanged
<1>3. BufTypeOK'
  BY <1>0, <1>1 DEF BufInv, BufTypeOK, buf
<1>4. LocalTypeOK'
  BY <1>0, <1>1 DEF BufInv, LocalTypeOK
<1>5. BufferOwnership'
  BY <1>0, <1>1 DEF BufInv, BufferOwnership, in_hdd_buf, buf, smr
<1>6. ~collected /\ ~collected'
  BY <1>0, <1>1 DEF BufInv, Phases
<1>7. GcFindsRoom' /\ ColdBufsDistinct'
  BY <1>1, <1>6 DEF GcFindsRoom, ColdBufsDistinct
<1>8. Phases'
  BY <1>1, <1>6 DEF Phases, has_mapping, in_smr_disk, in_hdd_buf, smr
<1>. QED
  BY <1>2, <1>3, <1>4, <1>5, <1>7, <1>8 DEF IInv, TypeOK, SmrInv

LEMMA FreeSlotKeeps ==
  ASSUME IInv, NEW k \in Blocks, pc = "idle", FreeSlot(k), UNCHANGED <<local, meta_flag>>
  PROVE  IInv'
<1>. DEFINE s == mapping_table[k].paddr
<1>0. SmrInv /\ BufInv
  BY IInvParts
<1>1. /\ in_hdd_buf(k)
      /\ reverse_table' = [reverse_table EXCEPT ![s] = Reset(s)]
      /\ free_hdd_bufs' = free_hdd_bufs \cup {s}
      /\ mapping_table' = [mapping_table EXCEPT ![k] = Unmapped]
      /\ UNCHANGED <<smr_reverse_table, phy_bands, cur_paddr,
                     fully_invalid_bands, data, hdd_buf>>
  BY DEF FreeSlot
<1>2. s \in Slots \ free_hdd_bufs /\ reverse_table[s].blk_no = k
  BY <1>0, <1>1, SlotOf
<1>3. mapping_table \in [Blocks -> MappingEntry]
  BY <1>0 DEF SmrInv, SmrTypeOK
<1>. HIDE DEF s
<1>4. SmrInv'
  <2>1. ~in_smr_disk(k)
    BY <1>1 DEF in_smr_disk, in_hdd_buf
  <2>2. Unmapped \in MappingEntry /\ Unmapped.flag # "IN_SMR_DISK"
    BY DEF Unmapped, MappingEntry
  <2>. QED
    BY <1>0, <1>1, <2>1, <2>2, OffDiskChange
<1>5. \A t \in Slots : reverse_table'[t].blk_no = reverse_table[t].blk_no
  BY <1>0, <1>1, <1>2, CountersOnly DEF BufInv, BufTypeOK
<1>6. BufTypeOK'
  BY <1>0, <1>1, <1>2, CountersOnly DEF BufInv, BufTypeOK
<1>7. LocalTypeOK'
  BY <1>0 DEF BufInv, LocalTypeOK, local
<1>8. \A l \in Blocks : l # k => mapping_table'[l] = mapping_table[l]
  BY <1>1, <1>3
<1>9. mapping_table'[k].flag = "INVALID_MAPPING"
  BY <1>1, <1>3 DEF Unmapped
<1>10. BufferOwnership'
  <2>1. ASSUME NEW l \in Blocks, in_hdd_buf(l)'
        PROVE  /\ mapping_table'[l].paddr \in Slots \ free_hdd_bufs'
               /\ reverse_table'[mapping_table'[l].paddr].blk_no = l
    <3>1. l # k /\ mapping_table'[l] = mapping_table[l] /\ in_hdd_buf(l)
      BY <1>8, <1>9, <2>1 DEF in_hdd_buf
    <3>2. /\ mapping_table[l].paddr \in Slots \ free_hdd_bufs
          /\ reverse_table[mapping_table[l].paddr].blk_no = l
      BY <1>0, <3>1, SlotOf
    <3>3. mapping_table[l].paddr # s
      BY <1>2, <3>1, <3>2
    <3>. QED
      BY <1>1, <1>5, <3>1, <3>2, <3>3
  <2>2. ASSUME NEW t \in Slots \ free_hdd_bufs'
        PROVE  mapping_table'[reverse_table'[t].blk_no] = [flag |-> "IN_HDD_BUF", paddr |-> t]
    <3>1. t \in Slots \ free_hdd_bufs /\ t # s
      BY <1>1, <2>2
    <3>2. mapping_table[reverse_table[t].blk_no] = [flag |-> "IN_HDD_BUF", paddr |-> t]
      BY <1>0, <3>1 DEF BufInv, BufferOwnership
    <3>3. reverse_table[t].blk_no \in Blocks
      BY <1>0, <3>1 DEF BufInv, BufTypeOK
    <3>4. reverse_table[t].blk_no # k
      BY <3>1, <3>2 DEF s
    <3>. QED
      BY <1>5, <1>8, <3>1, <3>2, <3>3, <3>4
  <2>. QED
    BY <2>1, <2>2 DEF BufferOwnership, in_hdd_buf
<1>11. GcFindsRoom' /\ ColdBufsDistinct' /\ Phases'
  BY <1>0 DEF BufInv, GcFindsRoom, ColdBufsDistinct, Phases, local
<1>. QED
  BY <1>4, <1>6, <1>7, <1>10, <1>11 DEF IInv, TypeOK, SmrInv

LEMMA MarkFreeKeeps ==
  ASSUME IInv, NEW k \in HostBlocks, MarkFree(k)
  PROVE  IInv'
<1>0. SmrInv /\ BufInv /\ k \in Blocks
  BY IInvParts, ParameterAssumption
<1>1. CASE FreeSlot(k)
  BY <1>0, <1>1, FreeSlotKeeps DEF MarkFree
<1>2. CASE in_smr_disk(k) /\ invalidate_mapping_entry(k) /\ UNCHANGED buf
  <2>1. pc = "idle" /\ UNCHANGED <<local, meta_flag>>
    BY DEF MarkFree
  <2>2. SmrInv'
    BY <1>0, <1>2, InvalidateKeeps
  <2>3. BufTypeOK' /\ LocalTypeOK'
    BY <1>0, <1>2, <2>1 DEF BufInv, BufTypeOK, LocalTypeOK, buf, local
  <2>4. BufferOwnership'
    BY <1>0, <1>2, InvalidateUnmaps, OwnershipKept DEF BufInv, buf
  <2>5. GcFindsRoom' /\ ColdBufsDistinct' /\ Phases'
    BY <1>0, <2>1 DEF BufInv, GcFindsRoom, ColdBufsDistinct, Phases, local
  <2>. QED
    BY <2>2, <2>3, <2>4, <2>5 DEF IInv, TypeOK, SmrInv
<1>. QED
  BY <1>1, <1>2 DEF MarkFree

----------------------------------------------------------------------------
(* The rest of a request.                                                  *)

(* Choosing the buffers to swap out: those chosen so far are different     *)
(* ones, and were met before the one being looked at.                      *)
LEMMA ScanColdBufKeeps ==
  ASSUME IInv, ScanColdBuf
  PROVE  IInv'
<1>0. SmrInv /\ BufInv
  BY IInvParts
<1>1. /\ pc = "cold"
      /\ cold_bufs' = NextColdBufs(i)
      /\ i' = NextIndex(BLOCKS_OF_HDD_BUF)
      /\ pc' = IF i + 1 < BLOCKS_OF_HDD_BUF THEN "cold" ELSE "swap"
      /\ UNCHANGED <<smr, buf, req, collected, meta_flag>>
  BY DEF ScanColdBuf
<1>2. /\ i \in Slots /\ i \in Int /\ cold_bufs \in [Colds -> Slots]
      /\ BLOCKS_OF_HDD_BUF \in Nat /\ SWAP_OUT_CNT \in Nat
      /\ 0 < SWAP_OUT_CNT /\ SWAP_OUT_CNT < BLOCKS_OF_HDD_BUF
  BY <1>0, BufferAssumption DEF BufInv, LocalTypeOK, Slots
<1>3. /\ free_hdd_bufs = {} /\ free_hdd_bufs' = {}
      /\ \A j \in Colds : j < i => cold_bufs[j] < i
      /\ \A j, l \in Colds : j < i /\ l < i /\ cold_bufs[j] = cold_bufs[l] => j = l
      /\ ~collected /\ ~collected'
      /\ ~has_mapping(req.blk)
  BY <1>0, <1>1 DEF BufInv, Phases, buf
(* One of the buffers may be replaced by the one being looked at.          *)
<1>4. /\ cold_bufs' \in [Colds -> Slots]
      /\ \A j \in Colds : j <= i => cold_bufs'[j] <= i
      /\ \A j, l \in Colds : j <= i /\ l <= i /\ cold_bufs'[j] = cold_bufs'[l] => j = l
  <2>1. CASE i < SWAP_OUT_CNT
    <3>1. cold_bufs' = [cold_bufs EXCEPT ![i] = i] /\ i \in Colds
      BY <1>1, <1>2, <2>1 DEF NextColdBufs, Colds, Slots
    <3>2. \A j \in Colds : cold_bufs'[j] = IF j = i THEN i ELSE cold_bufs[j]
      BY <1>2, <3>1
    <3>3. \A j \in Colds : j \in Int /\ cold_bufs[j] \in Int
      BY <1>2 DEF Colds, Slots
    <3>4. ASSUME NEW j \in Colds, j <= i
          PROVE  cold_bufs'[j] <= i /\ (j # i => cold_bufs'[j] < i)
      BY <1>2, <1>3, <3>2, <3>3, <3>4
    <3>5. ASSUME NEW j \in Colds, NEW l \in Colds, j <= i, l <= i,
                 cold_bufs'[j] = cold_bufs'[l]
          PROVE  j = l
      <4>1. CASE j = i \/ l = i
        <5>1. cold_bufs'[j] = i /\ cold_bufs'[l] = i
          BY <3>2, <3>5, <4>1
        <5>. QED
          BY <1>2, <3>4, <3>5, <5>1
      <4>2. CASE j # i /\ l # i
        <5>1. j < i /\ l < i
          BY <1>2, <3>3, <3>5, <4>2
        <5>. QED
          BY <1>3, <3>2, <3>5, <4>2, <5>1
      <4>. QED
        BY <4>1, <4>2
    <3>6. cold_bufs' \in [Colds -> Slots]
      BY <1>2, <3>1
    <3>. QED
      BY <3>4, <3>5, <3>6
  <2>2. CASE ~ (i < SWAP_OUT_CNT)
    <3>1. \A j \in Colds : j \in Int /\ j < i /\ cold_bufs[j] \in Int
      BY <1>2, <2>2 DEF Colds, Slots
    <3>2. /\ \A j \in Colds : cold_bufs[j] < i
          /\ \A j, l \in Colds : cold_bufs[j] = cold_bufs[l] => j = l
      BY <1>3, <3>1
    <3>3. CASE cold_bufs' = cold_bufs
      BY <1>2, <3>1, <3>2, <3>3
    <3>4. CASE cold_bufs' = [cold_bufs EXCEPT ![HottestCold] = i]
      <4>1. \A j \in Colds : cold_bufs'[j] = IF j = HottestCold THEN i ELSE cold_bufs[j]
        BY <1>2, <3>4
      <4>2. \A j \in Colds : cold_bufs[j] # i
        BY <1>2, <3>1, <3>2
      <4>3. \A j \in Colds : cold_bufs'[j] <= i
        BY <1>2, <3>1, <3>2, <4>1
      <4>4. \A j, l \in Colds : cold_bufs'[j] = cold_bufs'[l] => j = l
        BY <3>2, <4>1, <4>2
      <4>5. cold_bufs' \in [Colds -> Slots]
        BY <1>2, <3>4
      <4>. QED
        BY <4>3, <4>4, <4>5
    <3>5. cold_bufs' = update_cold_buf(i)
      BY <1>1, <2>2 DEF NextColdBufs
    <3>. QED
      BY <3>3, <3>4, <3>5 DEF update_cold_buf
  <2>. QED
    BY <2>1, <2>2
<1>5. i' = (IF i + 1 < BLOCKS_OF_HDD_BUF THEN i + 1 ELSE 0) /\ i' \in 0 .. BLOCKS_OF_HDD_BUF - 1
  BY <1>1, <1>2 DEF NextIndex, Slots
<1>6. SmrInv'
  BY <1>0, <1>1, SmrUnchanged
<1>7. BufTypeOK' /\ BufferOwnership'
  BY <1>0, <1>1 DEF BufInv, BufTypeOK, BufferOwnership, in_hdd_buf, buf, smr
<1>8. LocalTypeOK'
  BY <1>0, <1>1, <1>4, <1>5 DEF BufInv, LocalTypeOK
<1>9. GcFindsRoom'
  BY <1>3 DEF GcFindsRoom
<1>10. ColdBufsDistinct'
  <2>1. SUFFICES ASSUME pc' = "swap" PROVE ColdBufsDistinct'
    BY DEF ColdBufsDistinct
  <2>2. i' = 0 /\ ~ (i + 1 < BLOCKS_OF_HDD_BUF)
    BY <1>1, <1>5, <2>1
  <2>3. \A j \in Colds : j <= i
    BY <1>2, <2>2 DEF Colds
  <2>4. {cold_bufs'[j] : j \in 0 .. i' - 1} = {}
    BY <2>2
  <2>. QED
    BY <1>3, <1>4, <2>3, <2>4 DEF ColdBufsDistinct
<1>11. Phases'
  <2>1. ~has_mapping(req.blk)'
    BY <1>1, <1>3 DEF has_mapping, in_smr_disk, in_hdd_buf, smr
  <2>2. pc' = "cold" => i' = i + 1
    BY <1>1, <1>5
  <2>3. pc' = "swap" => i' < SWAP_OUT_CNT
    BY <1>1, <1>2, <1>5
  <2>4. pc' = "cold" => /\ \A j \in Colds : j < i' => cold_bufs'[j] < i'
                        /\ \A j, l \in Colds : j < i' /\ l < i' /\ cold_bufs'[j] = cold_bufs'[l]
                                              => j = l
    <3>1. SUFFICES ASSUME i' = i + 1
                   PROVE  /\ \A j \in Colds : j < i' => cold_bufs'[j] < i'
                          /\ \A j, l \in Colds : j < i' /\ l < i' /\ cold_bufs'[j] = cold_bufs'[l]
                                                => j = l
      BY <2>2
    <3>2. \A j \in Colds : j \in Int /\ cold_bufs'[j] \in Int
      BY <1>4 DEF Colds, Slots
    <3>3. \A j \in Colds : (j < i' <=> j <= i) /\ (cold_bufs'[j] < i' <=> cold_bufs'[j] <= i)
      BY <1>2, <3>1, <3>2
    <3>. QED
      BY <1>4, <3>3
  <2>. QED
    BY <1>1, <1>3, <2>1, <2>3, <2>4 DEF Phases
<1>. QED
  BY <1>6, <1>7, <1>8, <1>9, <1>10, <1>11 DEF IInv, TypeOK, SmrInv

LEMMA GarbageCollectKeeps ==
  ASSUME IInv, GarbageCollect
  PROVE  IInv'
<1>0. SmrInv /\ BufInv
  BY IInvParts
<1>1. /\ pc \in {"append", "swap"} /\ gc_needed /\ garbage_collecting
      /\ collected' = TRUE
      /\ UNCHANGED <<buf, cold_bufs, pc, i, req, meta_flag>>
  BY DEF GarbageCollect
<1>2. req.blk \in Blocks /\ ~has_mapping(req.blk)
  BY <1>0, <1>1 DEF BufInv, LocalTypeOK, Phases
<1>3. /\ SmrInv'
      /\ cur_paddr' \in Phys
      /\ smr_reverse_table'[cur_paddr'].phy_status = FREE_PHY_BLOCK
      /\ ElsewhereKept
  BY <1>0, <1>1, <1>2, CollectKeeps DEF has_mapping
<1>4. /\ \A l \in Blocks : in_hdd_buf(l)' <=> in_hdd_buf(l)
      /\ \A l \in Blocks : in_hdd_buf(l) => mapping_table'[l] = mapping_table[l]
      /\ ~has_mapping(req.blk)'
  <2>1. \A l \in Blocks : in_smr_disk(l) => in_smr_disk(l)'
    BY <1>3 DEF ElsewhereKept
  <2>2. \A l \in Blocks : ~in_smr_disk(l) => mapping_table'[l] = mapping_table[l]
    BY <1>3 DEF ElsewhereKept
  <2>. QED
    BY <1>1, <1>2, <2>1, <2>2 DEF in_hdd_buf, in_smr_disk, has_mapping
<1>5. BufTypeOK' /\ LocalTypeOK'
  BY <1>0, <1>1 DEF BufInv, BufTypeOK, LocalTypeOK, buf
<1>6. BufferOwnership'
  BY <1>0, <1>1, <1>4, OwnershipKept DEF BufInv, buf
<1>7. GcFindsRoom'
  BY <1>3 DEF GcFindsRoom
<1>8. ColdBufsDistinct'
  BY <1>0, <1>1 DEF BufInv, ColdBufsDistinct, buf
<1>9. Phases'
  BY <1>0, <1>1, <1>4 DEF BufInv, Phases, buf
<1>. QED
  BY <1>3, <1>5, <1>6, <1>7, <1>8, <1>9 DEF IInv, TypeOK, SmrInv

(* Only the mapping of the appended block changes.                         *)
LEMMA AppendMaps ==
  ASSUME SmrInv, NEW k \in Blocks, NEW d, Append(k, d)
  PROVE  /\ mapping_table'[k].flag = "IN_SMR_DISK"
         /\ \A l \in Blocks : l # k => mapping_table'[l] = mapping_table[l]
<1>1. mapping_table \in [Blocks -> MappingEntry]
  BY DEF SmrInv, SmrTypeOK
<1>2. mapping_table' = [mapping_table EXCEPT ![k] =
        [flag |-> "IN_SMR_DISK", paddr |-> cur_paddr]]
  BY DEF Append
<1>. QED
  BY <1>1, <1>2

LEMMA AppendNewKeeps ==
  ASSUME IInv, AppendNew
  PROVE  IInv'
<1>0. SmrInv /\ BufInv
  BY IInvParts
<1>1. /\ pc = "append" /\ CursorSettled /\ cur_paddr \in Phys
      /\ Append(req.blk, req.d)
      /\ pc' = "idle" /\ req' = NoReq /\ collected' = FALSE
      /\ UNCHANGED <<buf, cold_bufs, i, meta_flag>>
  BY DEF AppendNew
<1>2. /\ req.blk \in Blocks /\ req.d \in Data \cup {Blank}
      /\ ~in_smr_disk(req.blk) /\ ~in_hdd_buf(req.blk)
  BY <1>0, <1>1 DEF BufInv, LocalTypeOK, Phases, has_mapping
<1>3. SmrInv'
  BY <1>0, <1>1, <1>2, AppendKeeps DEF BufInv
<1>4. BufTypeOK'
  BY <1>0, <1>1 DEF BufInv, BufTypeOK, buf
<1>5. LocalTypeOK'
  <2>1. NoReq \in [blk : Blocks, d : Data \cup {Blank}]
    BY ZeroBlock DEF NoReq
  <2>. QED
    BY <1>0, <1>1, <2>1 DEF BufInv, LocalTypeOK
<1>6. BufferOwnership'
  <2>1. /\ mapping_table'[req.blk].flag = "IN_SMR_DISK"
        /\ \A l \in Blocks : l # req.blk => mapping_table'[l] = mapping_table[l]
    BY <1>0, <1>1, <1>2, AppendMaps
  <2>2. \A l \in Blocks : in_hdd_buf(l)' <=> in_hdd_buf(l)
    BY <1>2, <2>1 DEF in_hdd_buf
  <2>3. \A l \in Blocks : in_hdd_buf(l) => mapping_table'[l] = mapping_table[l]
    BY <1>2, <2>1
  <2>. QED
    BY <1>0, <1>1, <2>2, <2>3, OwnershipKept DEF BufInv, buf
<1>7. GcFindsRoom' /\ ColdBufsDistinct' /\ Phases'
  BY <1>1 DEF GcFindsRoom, ColdBufsDistinct, Phases
<1>. QED
  BY <1>3, <1>4, <1>5, <1>6, <1>7 DEF IInv, TypeOK, SmrInv

LEMMA SwapOutKeeps ==
  ASSUME IInv, SwapOut
  PROVE  IInv'
<1>. DEFINE s == cold_bufs[i]
            k == reverse_table[s].blk_no
<1>0. SmrInv /\ BufInv
  BY IInvParts
<1>1. /\ pc = "swap" /\ CursorSettled /\ cur_paddr \in Phys
      /\ Append(k, hdd_buf[s])
      /\ reverse_table' = [reverse_table EXCEPT ![s] = Reset(s)]
      /\ free_hdd_bufs' = free_hdd_bufs \cup {s}
      /\ i' = NextIndex(SWAP_OUT_CNT)
      /\ pc' = (IF i + 1 < SWAP_OUT_CNT THEN "swap" ELSE "take")
      /\ collected' = FALSE
      /\ UNCHANGED <<hdd_buf, cold_bufs, req, meta_flag>>
  BY DEF SwapOut
<1>2. /\ i \in Colds /\ i \in Int /\ s \in Slots
      /\ SWAP_OUT_CNT \in Nat /\ 0 < SWAP_OUT_CNT /\ SWAP_OUT_CNT < BLOCKS_OF_HDD_BUF
      /\ BLOCKS_OF_HDD_BUF \in Nat
  <2>1. i < SWAP_OUT_CNT /\ i \in 0 .. BLOCKS_OF_HDD_BUF - 1 /\ cold_bufs \in [Colds -> Slots]
    BY <1>0, <1>1 DEF BufInv, Phases, LocalTypeOK
  <2>. QED
    BY <2>1, BufferAssumption DEF Colds
<1>3. /\ \A j, l \in Colds : cold_bufs[j] = cold_bufs[l] => j = l
      /\ free_hdd_bufs = {cold_bufs[j] : j \in 0 .. i - 1}
  BY <1>0, <1>1 DEF BufInv, ColdBufsDistinct
<1>4. s \notin free_hdd_bufs
  <2>1. \A j \in 0 .. i - 1 : j \in Colds /\ j # i
    BY <1>2 DEF Colds
  <2>2. \A j \in 0 .. i - 1 : cold_bufs[j] # s
    BY <1>2, <1>3, <2>1
  <2>. QED
    BY <1>3, <2>2
<1>5. /\ k \in Blocks /\ hdd_buf[s] \in Data \cup {Blank}
      /\ mapping_table[k] = [flag |-> "IN_HDD_BUF", paddr |-> s]
  BY <1>0, <1>2, <1>4 DEF BufInv, BufTypeOK, BufferOwnership
<1>6. in_hdd_buf(k) /\ ~in_smr_disk(k) /\ mapping_table[k].paddr = s
  BY <1>5 DEF in_hdd_buf, in_smr_disk
<1>7. req.blk \in Blocks /\ ~has_mapping(req.blk) /\ req.blk # k
  BY <1>0, <1>1, <1>6 DEF BufInv, LocalTypeOK, Phases, has_mapping
<1>. HIDE DEF s, k
<1>8. SmrInv'
  BY <1>0, <1>1, <1>5, <1>6, AppendKeeps DEF BufInv
<1>9. /\ mapping_table'[k].flag = "IN_SMR_DISK"
      /\ \A l \in Blocks : l # k => mapping_table'[l] = mapping_table[l]
  BY <1>0, <1>1, <1>5, AppendMaps
<1>10. \A t \in Slots : reverse_table'[t].blk_no = reverse_table[t].blk_no
  BY <1>0, <1>1, <1>2, CountersOnly DEF BufInv, BufTypeOK
<1>11. BufTypeOK'
  BY <1>0, <1>1, <1>2, CountersOnly DEF BufInv, BufTypeOK
<1>12. i' = (IF i + 1 < SWAP_OUT_CNT THEN i + 1 ELSE 0) /\ i' \in 0 .. BLOCKS_OF_HDD_BUF - 1
  BY <1>1, <1>2 DEF NextIndex, Colds
<1>13. LocalTypeOK'
  BY <1>0, <1>1, <1>12 DEF BufInv, LocalTypeOK
<1>14. BufferOwnership'
  <2>1. ASSUME NEW l \in Blocks, in_hdd_buf(l)'
        PROVE  /\ mapping_table'[l].paddr \in Slots \ free_hdd_bufs'
               /\ reverse_table'[mapping_table'[l].paddr].blk_no = l
    <3>1. l # k /\ mapping_table'[l] = mapping_table[l] /\ in_hdd_buf(l)
      BY <1>9, <2>1 DEF in_hdd_buf
    <3>2. /\ mapping_table[l].paddr \in Slots \ free_hdd_bufs
          /\ reverse_table[mapping_table[l].paddr].blk_no = l
      BY <1>0, <3>1, SlotOf
    <3>3. mapping_table[l].paddr # s
      BY <3>1, <3>2 DEF k
    <3>. QED
      BY <1>1, <1>10, <3>1, <3>2, <3>3
  <2>2. ASSUME NEW t \in Slots \ free_hdd_bufs'
        PROVE  mapping_table'[reverse_table'[t].blk_no] = [flag |-> "IN_HDD_BUF", paddr |-> t]
    <3>1. t \in Slots \ free_hdd_bufs /\ t # s
      BY <1>1, <2>2
    <3>2. mapping_table[reverse_table[t].blk_no] = [flag |-> "IN_HDD_BUF", paddr |-> t]
      BY <1>0, <3>1 DEF BufInv, BufferOwnership
    <3>3. reverse_table[t].blk_no \in Blocks
      BY <1>0, <3>1 DEF BufInv, BufTypeOK
    <3>4. reverse_table[t].blk_no # k
      BY <1>6, <3>1, <3>2
    <3>. QED
      BY <1>9, <1>10, <3>1, <3>2, <3>3, <3>4
  <2>. QED
    BY <2>1, <2>2 DEF BufferOwnership, in_hdd_buf
<1>15. GcFindsRoom'
  BY <1>1 DEF GcFindsRoom
<1>16. ColdBufsDistinct'
  <2>1. SUFFICES ASSUME pc' = "swap" PROVE ColdBufsDistinct'
    BY DEF ColdBufsDistinct
  <2>2. i' = i + 1
    BY <1>1, <1>12, <2>1
  <2>3. 0 .. i' - 1 = (0 .. i - 1) \cup {i}
    BY <1>2, <2>2 DEF Colds
  <2>4. {cold_bufs[j] : j \in 0 .. i' - 1} = free_hdd_bufs \cup {s}
    BY <1>3, <2>3 DEF s
  <2>. QED
    BY <1>1, <1>3, <2>4 DEF ColdBufsDistinct
<1>17. Phases'
  <2>1. ~has_mapping(req.blk)'
    BY <1>1, <1>7, <1>9 DEF has_mapping, in_smr_disk, in_hdd_buf
  <2>2. pc' = "swap" => i' < SWAP_OUT_CNT
    BY <1>1, <1>12
  <2>3. free_hdd_bufs' # {}
    BY <1>1
  <2>. QED
    BY <1>1, <2>1, <2>2, <2>3 DEF Phases
<1>. QED
  BY <1>8, <1>11, <1>13, <1>14, <1>15, <1>16, <1>17 DEF IInv, TypeOK, SmrInv

LEMMA TakeFreeBufKeeps ==
  ASSUME IInv, TakeFreeBuf
  PROVE  IInv'
<1>. DEFINE s == Min(free_hdd_bufs)
            k == req.blk
            e == [blk_no |-> k, read_cnt |-> reverse_table[s].read_cnt,
                  write_cnt |-> reverse_table[s].write_cnt + Weight(k)]
            m == [flag |-> "IN_HDD_BUF", paddr |-> s]
<1>0. SmrInv /\ BufInv
  BY IInvParts
<1>1. /\ pc = "take"
      /\ free_hdd_bufs' = free_hdd_bufs \ {s}
      /\ hdd_buf' = [hdd_buf EXCEPT ![s] = req.d]
      /\ mapping_table' = [mapping_table EXCEPT ![k] = m]
      /\ reverse_table' = [reverse_table EXCEPT ![s] = e]
      /\ pc' = "idle" /\ req' = NoReq
      /\ UNCHANGED <<smr_reverse_table, phy_bands, cur_paddr, fully_invalid_bands,
                     data, cold_bufs, i, collected, meta_flag>>
  BY DEF TakeFreeBuf
<1>2. /\ k \in Blocks /\ req.d \in Data \cup {Blank}
      /\ ~in_smr_disk(k) /\ ~in_hdd_buf(k) /\ free_hdd_bufs # {}
      /\ ~collected
  BY <1>0, <1>1 DEF BufInv, LocalTypeOK, Phases, has_mapping
<1>3. s \in free_hdd_bufs /\ s \in Slots /\ s \in Nat
  <2>1. free_hdd_bufs \subseteq Slots
    BY <1>0 DEF BufInv, BufTypeOK
  <2>2. free_hdd_bufs \subseteq Nat
    BY <2>1 DEF Slots
  <2>3. s \in free_hdd_bufs
    BY <1>2, <2>2, MinOfNats
  <2>. QED
    BY <2>1, <2>2, <2>3
<1>4. e \in [blk_no : Blocks, read_cnt : Nat, write_cnt : Nat] /\ e.blk_no = k
  <2>1. reverse_table[s] \in [blk_no : Blocks, read_cnt : Nat, write_cnt : Nat]
    BY <1>0, <1>3 DEF BufInv, BufTypeOK
  <2>2. Weight(k) \in Nat
    BY <1>0, <1>2, WeightType DEF BufInv
  <2>. QED
    BY <1>2, <2>1, <2>2
<1>5. m \in MappingEntry /\ m.flag = "IN_HDD_BUF" /\ m.paddr = s
  BY <1>3 DEF MappingEntry
<1>6. mapping_table \in [Blocks -> MappingEntry]
  BY <1>0 DEF SmrInv, SmrTypeOK
<1>. HIDE DEF s, k, e
<1>7. SmrInv'
  <2>. HIDE DEF m
  <2>. QED
    BY <1>0, <1>1, <1>2, <1>5, OffDiskChange
<1>8. BufTypeOK'
  BY <1>0, <1>1, <1>2, <1>3, <1>4 DEF BufInv, BufTypeOK
<1>9. LocalTypeOK'
  <2>1. NoReq \in [blk : Blocks, d : Data \cup {Blank}]
    BY ZeroBlock DEF NoReq
  <2>. QED
    BY <1>0, <1>1, <2>1 DEF BufInv, LocalTypeOK
<1>10. /\ mapping_table'[k] = m
       /\ \A l \in Blocks : l # k => mapping_table'[l] = mapping_table[l]
       /\ reverse_table'[s] = e
       /\ \A t \in Slots : t # s => reverse_table'[t] = reverse_table[t]
  <2>. HIDE DEF m
  <2>1. reverse_table \in [Slots -> [blk_no : Blocks, read_cnt : Nat, write_cnt : Nat]]
    BY <1>0 DEF BufInv, BufTypeOK
  <2>. QED
    BY <1>1, <1>2, <1>3, <1>6, <2>1
<1>11. BufferOwnership'
  <2>1. ASSUME NEW l \in Blocks, in_hdd_buf(l)'
        PROVE  /\ mapping_table'[l].paddr \in Slots \ free_hdd_bufs'
               /\ reverse_table'[mapping_table'[l].paddr].blk_no = l
    <3>1. CASE l = k
      BY <1>1, <1>3, <1>4, <1>10, <3>1
    <3>2. CASE l # k
      <4>1. mapping_table'[l] = mapping_table[l] /\ in_hdd_buf(l)
        BY <1>10, <2>1, <3>2 DEF in_hdd_buf
      <4>2. /\ mapping_table[l].paddr \in Slots \ free_hdd_bufs
            /\ reverse_table[mapping_table[l].paddr].blk_no = l
        BY <1>0, <4>1, SlotOf
      <4>. QED
        BY <1>1, <1>3, <1>10, <4>1, <4>2
    <3>. QED
      BY <3>1, <3>2
  <2>2. ASSUME NEW t \in Slots \ free_hdd_bufs'
        PROVE  mapping_table'[reverse_table'[t].blk_no] = [flag |-> "IN_HDD_BUF", paddr |-> t]
    <3>1. CASE t = s
      BY <1>4, <1>10, <3>1
    <3>2. CASE t # s
      <4>1. t \in Slots \ free_hdd_bufs /\ reverse_table'[t] = reverse_table[t]
        BY <1>1, <1>10, <2>2, <3>2
      <4>2. mapping_table[reverse_table[t].blk_no] = [flag |-> "IN_HDD_BUF", paddr |-> t]
        BY <1>0, <4>1 DEF BufInv, BufferOwnership
      <4>3. reverse_table[t].blk_no \in Blocks
        BY <1>0, <4>1 DEF BufInv, BufTypeOK
      <4>4. reverse_table[t].blk_no # k
        BY <1>2, <4>2 DEF in_hdd_buf
      <4>. QED
        BY <1>10, <4>1, <4>2, <4>3, <4>4
    <3>. QED
      BY <3>1, <3>2
  <2>. QED
    BY <2>1, <2>2 DEF BufferOwnership, in_hdd_buf
<1>12. GcFindsRoom' /\ ColdBufsDistinct' /\ Phases'
  BY <1>1, <1>2 DEF GcFindsRoom, ColdBufsDistinct, Phases
<1>. QED
  BY <1>7, <1>8, <1>9, <1>11, <1>12 DEF IInv, TypeOK, SmrInv

LEMMA FaultKeeps ==
  ASSUME IInv, Fault
  PROVE  IInv'
<1>0. SmrInv /\ BufInv
  BY IInvParts
<1>1. /\ CursorSettled /\ cur_paddr \notin Phys /\ pc' = "oops"
      /\ UNCHANGED <<smr, buf, cold_bufs, i, req, collected, meta_flag>>
  BY DEF Fault
<1>2. ~collected
  BY <1>0, <1>1 DEF BufInv, GcFindsRoom
<1>3. SmrInv'
  BY <1>0, <1>1, SmrUnchanged
<1>4. BufTypeOK' /\ LocalTypeOK' /\ BufferOwnership'
  BY <1>0, <1>1 DEF BufInv, BufTypeOK, LocalTypeOK, BufferOwnership, in_hdd_buf, buf, smr
<1>5. GcFindsRoom' /\ ColdBufsDistinct' /\ Phases'
  BY <1>1, <1>2 DEF GcFindsRoom, ColdBufsDistinct, Phases
<1>. QED
  BY <1>3, <1>4, <1>5 DEF IInv, TypeOK, SmrInv

----------------------------------------------------------------------------
(* The invariant.                                                          *)

LEMMA StutterKeeps ==
  ASSUME IInv, UNCHANGED vars
  PROVE  IInv'
<1>0. SmrInv /\ BufInv
  BY IInvParts
<1>1. SmrInv'
  BY <1>0, SmrUnchanged DEF vars
<1>2. BufTypeOK' /\ LocalTypeOK' /\ BufferOwnership'
  BY <1>0 DEF BufInv, BufTypeOK, LocalTypeOK, BufferOwnership, in_hdd_buf, vars, buf, smr, local
<1>3. GcFindsRoom' /\ ColdBufsDistinct' /\ Phases'
  BY <1>0 DEF BufInv, GcFindsRoom, ColdBufsDistinct, Phases, vars, buf, smr, local,
     has_mapping, in_hdd_buf, in_smr_disk
<1>. QED
  BY <1>1, <1>2, <1>3 DEF IInv, TypeOK, SmrInv

LEMMA NextKeepsIInv == IInv /\ [Next]_vars => IInv'
<1>. SUFFICES ASSUME IInv, [Next]_vars PROVE IInv'
  OBVIOUS
<1>1. ASSUME NEW k \in HostBlocks, NEW d \in Data, WriteHit(k, d) PROVE IInv'
  BY <1>1, WriteHitKeeps
<1>2. ASSUME NEW k \in HostBlocks, NEW d \in Data, WriteUpdate(k, d) PROVE IInv'
  BY <1>2, WriteUpdateKeeps
<1>3. ASSUME NEW k \in HostBlocks, NEW d \in Data, WriteNew(k, d) PROVE IInv'
  BY <1>3, WriteNewKeeps
<1>4. ASSUME NEW k \in HostBlocks, ReadBuf(k) PROVE IInv'
  BY <1>4, ReadBufKeeps
<1>5. ASSUME NEW k \in HostBlocks, MarkFree(k) PROVE IInv'
  BY <1>5, MarkFreeKeeps
<1>6. ASSUME NEW k \in MetaBlocks, SetMetaFlag(k) PROVE IInv'
  BY <1>6, SetMetaFlagKeeps
<1>7. CASE ScanColdBuf
  BY <1>7, ScanColdBufKeeps
<1>8. CASE GarbageCollect
  BY <1>8, GarbageCollectKeeps
<1>9. CASE AppendNew
  BY <1>9, AppendNewKeeps
<1>10. CASE SwapOut
  BY <1>10, SwapOutKeeps
<1>11. CASE TakeFreeBuf
  BY <1>11, TakeFreeBufKeeps
<1>12. CASE Fault
  BY <1>12, FaultKeeps
<1>13. CASE UNCHANGED vars
  BY <1>13, StutterKeeps
<1>. QED
  BY <1>1, <1>2, <1>3, <1>4, <1>5, <1>6, <1>7, <1>8, <1>9, <1>10, <1>11, <1>12, <1>13
     DEF Next, Request, Serve

(* The tables of stl.c and hdd_buf.c are consistent with each other in     *)
(* every state of every run, between requests and in the middle of one.    *)
THEOREM Invariance == Spec => []IInv
<1>1. Init => IInv
  BY InitIInv
<1>2. IInv /\ [Next]_vars => IInv'
  BY NextKeepsIInv
<1>. QED
  BY <1>1, <1>2, PTL DEF Spec

(* Every table entry, counter, index and cursor stays in its range.        *)
THEOREM TypeCorrect == Spec => []TypeOK
<1>1. IInv => TypeOK
  BY DEF IInv
<1>. QED
  BY <1>1, Invariance, PTL

(* A block is mapped to the place that names it, and to no other's place,  *)
(* whatever has been appended, invalidated, reused and compacted (stl.c).  *)
THEOREM MappingCorrect == Spec => []MappingBijection
<1>1. IInv => MappingBijection
  BY DEF IInv
<1>. QED
  BY <1>1, Invariance, PTL

(* No slot of the buffer is lost or has two owners (hdd_buf.c).            *)
THEOREM BufferCorrect == Spec => []BufferOwnership
<1>1. IInv => BufferOwnership
  BY DEF IInv
<1>. QED
  BY <1>1, Invariance, PTL

(* The counters of every band are exact (stl.c, phy_bands).                *)
THEOREM CountersCorrect == Spec => []BandCounters
<1>1. IInv => BandCounters
  BY DEF IInv
<1>. QED
  BY <1>1, Invariance, PTL

(* A collection always finds room: the disk has as many places as there    *)
(* are blocks, and the block being written has none.                       *)
THEOREM CollectorFindsRoom == Spec => []GcFindsRoom
<1>1. IInv => GcFindsRoom
  BY DEF IInv
<1>. QED
  BY <1>1, Invariance, PTL

(* The vector of fully invalid bands lists those bands and no other, so    *)
(* that a band is freed only when nothing in it is valid (stl.c).          *)
THEOREM FullyInvalidCorrect == Spec => []FullyInvalidExact
<1>1. IInv => FullyInvalidExact
  BY DEF IInv
<1>. QED
  BY <1>1, Invariance, PTL

(* The free blocks are a run from the cursor to the end of a band, which   *)
(* is why the cursor's status is looked at only there (stl.c:109).         *)
THEOREM FreeBlocksOneRun == Spec => []FreeRun
<1>1. IInv => FreeRun
  BY DEF IInv
<1>. QED
  BY <1>1, Invariance, PTL

(* The buffers being swapped out are different ones, and those swapped out *)
(* so far are the free ones (hdd_buf.c:121-129).                           *)
THEOREM ColdBufsDiffer == Spec => []ColdBufsDistinct
<1>1. IInv => ColdBufsDistinct
  BY DEF IInv
<1>. QED
  BY <1>1, Invariance, PTL

----------------------------------------------------------------------------
(* The end of the disk.                                                    *)

LEMMA FaultHasRoom ==
  ASSUME IInv, Fault
  PROVE  FaultHadRoom'
<1>0. SmrInv /\ BufInv
  BY IInvParts
<1>1. /\ pc \in {"append", "swap"} /\ cur_paddr \notin Phys /\ UNCHANGED smr
  BY DEF Fault
<1>2. req.blk \in Blocks /\ ~in_smr_disk(req.blk)
  BY <1>0, <1>1 DEF BufInv, LocalTypeOK, Phases, has_mapping
<1>3. \A p \in Phys : smr_reverse_table[p].phy_status # FREE_PHY_BLOCK
  <2>1. cur_paddr = TOTAL_SMR_BLOCKS_CNT /\ TOTAL_SMR_BLOCKS_CNT \in Nat
    BY <1>0, <1>1, GeometryAssumption DEF SmrInv, SmrTypeOK, Phys, TOTAL_SMR_BLOCKS_CNT
  <2>2. PICK e \in Phys \cup {TOTAL_SMR_BLOCKS_CNT} :
          \A p \in Phys : smr_reverse_table[p].phy_status = FREE_PHY_BLOCK
                           <=> p \in cur_paddr .. e - 1
    BY <1>0 DEF SmrInv, FreeRun
  <2>3. \A p \in Phys : p \notin cur_paddr .. e - 1
    BY <2>1 DEF Phys
  <2>. QED
    BY <2>2, <2>3
<1>4. \E p \in Phys : smr_reverse_table[p].phy_status = INVALID_PHY_BLOCK
  BY <1>0, <1>2, <1>3, SomeInvalid
<1>. QED
  BY <1>1, <1>4 DEF FaultHadRoom, smr

(* A write past the end of the disk is never for want of room (stl.c:109). *)
THEOREM FaultNotForWantOfRoom == Spec => []FaultHadRoom
<1>1. Init => FaultHadRoom
  BY DEF Init, FaultHadRoom
<1>2. IInv /\ FaultHadRoom /\ [Next]_vars => FaultHadRoom'
  <2>. SUFFICES ASSUME IInv, FaultHadRoom, [Next]_vars PROVE FaultHadRoom'
    OBVIOUS
  <2>1. CASE Fault
    BY <2>1, FaultHasRoom
  <2>2. CASE UNCHANGED vars
    BY <2>2 DEF FaultHadRoom, vars, smr, local
  <2>3. CASE Next /\ ~Fault
    <3>1. pc # "oops"
      BY <2>3 DEF Next, Request, Serve, WriteHit, WriteUpdate, WriteNew, ReadBuf, MarkFree,
         SetMetaFlag, ScanColdBuf, GarbageCollect, AppendNew, SwapOut, TakeFreeBuf
    <3>2. pc' # "oops"
      BY <2>3, <3>1 DEF Next, Request, Serve, WriteHit, WriteUpdate, WriteNew, ReadBuf, MarkFree,
         SetMetaFlag, ScanColdBuf, GarbageCollect, AppendNew, SwapOut, TakeFreeBuf, local
    <3>. QED
      BY <3>2 DEF FaultHadRoom
  <2>. QED
    BY <2>1, <2>2, <2>3
<1>. QED
  BY <1>1, <1>2, Invariance, PTL DEF Spec

----------------------------------------------------------------------------
(* Writing to a shingled disk.                                             *)

LEMMA AppendIsShingled ==
  ASSUME SmrInv, GcFindsRoom, CursorSettled, cur_paddr \in Phys, NEW k, NEW d, Append(k, d)
  PROVE  ShingledStep
<1>0. smr_reverse_table \in [Phys -> ReverseEntry] /\ data \in [Phys -> Data \cup {Blank}]
  BY DEF SmrInv, SmrTypeOK
<1>1. /\ smr_reverse_table' = [smr_reverse_table EXCEPT ![cur_paddr] =
            [blk_no |-> k, phy_status |-> VALID_PHY_BLOCK]]
      /\ data' = [data EXCEPT ![cur_paddr] = d]
  BY DEF Append
<1>2. PICK e \in Phys \cup {TOTAL_SMR_BLOCKS_CNT} :
        /\ e % BLOCKS_PER_BAND = 0
        /\ \A p \in Phys : smr_reverse_table[p].phy_status = FREE_PHY_BLOCK
                             <=> p \in cur_paddr .. e - 1
  BY DEF SmrInv, FreeRun
<1>3. cur_paddr < e /\ e \in Int /\ cur_paddr \in Int
  <2>1. cur_paddr \in cur_paddr .. e - 1
    BY <1>2, CursorFree
  <2>. QED
    BY <2>1, <1>2, GeometryAssumption DEF Phys, TOTAL_SMR_BLOCKS_CNT
<1>4. ASSUME NEW q \in Band(BandOf(cur_paddr)), q > cur_paddr
      PROVE  smr_reverse_table'[q].phy_status # VALID_PHY_BLOCK
  <2>1. BandOf(cur_paddr) \in Bands /\ cur_paddr \in Band(BandOf(cur_paddr))
    BY BandOfBlock
  <2>2. q \in Phys /\ q \in Int
    BY <2>1, BandBlocks DEF Band
  <2>3. q < e
    <3>1. e = BandStart(BandOf(e))
      BY <1>2, <1>3, AtStart
    <3>2. BandOf(cur_paddr) + 1 <= BandOf(e)
      <4>. DEFINE x == BandOf(cur_paddr)
                  y == BandOf(e)
      <4>1. x \in Int /\ y \in Int /\ BandStart(x) <= cur_paddr /\ cur_paddr < BandStart(y)
        BY <1>3, <2>1, <3>1, GeometryAssumption DEF Band, Bands, BandOf
      <4>2. x < y
        <5>1. BandStart(x) \in Int /\ BandStart(y) \in Int
          BY <4>1, GeometryAssumption DEF BandStart
        <5>2. ~ (y <= x)
          BY <1>3, <4>1, <5>1, BandOrder
        <5>. HIDE DEF x, y
        <5>. QED
          BY <4>1, <5>2
      <4>. QED
        BY <4>1, <4>2
    <3>3. BandStart(BandOf(cur_paddr)) + BLOCKS_PER_BAND <= BandStart(BandOf(e))
      BY <1>3, <2>1, <3>2, GeometryAssumption DEF BandStart, Bands, BandOf
    <3>4. q < BandStart(BandOf(cur_paddr)) + BLOCKS_PER_BAND
      BY <2>1, GeometryAssumption DEF Band, BandStart, Bands
    <3>. QED
      BY <1>3, <2>1, <2>2, <3>1, <3>3, <3>4, GeometryAssumption DEF Bands, BandStart
  <2>4. smr_reverse_table[q].phy_status = FREE_PHY_BLOCK
    BY <1>2, <1>3, <1>4, <2>2, <2>3
  <2>5. smr_reverse_table'[q] = smr_reverse_table[q]
    BY <1>0, <1>1, <1>3, <1>4, <2>2
  <2>. QED
    BY <2>4, <2>5 DEF FREE_PHY_BLOCK, VALID_PHY_BLOCK
<1>5. \A p \in Phys : data'[p] # data[p] => p = cur_paddr
  BY <1>0, <1>1
<1>. QED
  BY <1>4, <1>5 DEF ShingledStep

LEMMA CollectIsShingled ==
  ASSUME IInv, GarbageCollect
  PROVE  ShingledStep
<1>0. SmrInv /\ SmrInv'
  BY IInvParts, GarbageCollectKeeps DEF IInv, TypeOK, SmrInv
<1>1. ~collected /\ collected'
  BY DEF GarbageCollect
<1>2. CASE fully_invalid_bands # {}
  BY <1>2 DEF GarbageCollect, garbage_collecting, reuse_invalid_band, ShingledStep
<1>3. CASE fully_invalid_bands = {}
  <2>. DEFINE b == Victim
  <2>1. b \in Bands
    <3>1. req.blk \in Blocks /\ ~in_smr_disk(req.blk)
      BY IInvParts DEF BufInv, LocalTypeOK, Phases, has_mapping, GarbageCollect
    <3>. QED
      BY <1>0, <3>1, VictimHasInvalid DEF GarbageCollect
  <2>2. do_gc_in_band(b)
    BY <1>3 DEF GarbageCollect, garbage_collecting
  <2>3. /\ data' = CompactedData(b)
        /\ smr_reverse_table' = CompactedReverse(b)
        /\ cur_paddr' = PrefixEnd(b)
    BY <2>2 DEF do_gc_in_band
  <2>. HIDE DEF b
  <2>4. ASSUME NEW p \in Phys, data'[p] # data[p]
        PROVE  p \in Band(b)
    BY <2>3, <2>4 DEF CompactedData, Filled
  <2>5. ASSUME NEW q \in Band(b), smr_reverse_table'[q].phy_status = VALID_PHY_BLOCK
        PROVE  q < cur_paddr'
    <3>1. q \in Phys /\ q \in Int
      BY <2>1, BandBlocks DEF Band
    <3>2. q >= PrefixEnd(b) => smr_reverse_table'[q] = FreeEntry
      BY <2>3, <3>1 DEF CompactedReverse
    <3>3. ~ (q >= PrefixEnd(b))
      BY <2>5, <3>2 DEF FreeEntry, FREE_PHY_BLOCK, VALID_PHY_BLOCK
    <3>4. PrefixEnd(b) \in Int
      BY <1>0, <2>3 DEF SmrInv, SmrTypeOK
    <3>. QED
      BY <2>3, <3>1, <3>3, <3>4
  <2>6. ASSUME NEW p \in Phys, data'[p] # data[p]
        PROVE  BandOf(p) = b
    BY <2>1, <2>4, <2>6, BandOfBlock, BandUnique
  <2>. QED
    BY <1>1, <2>5, <2>6 DEF ShingledStep
<1>. QED
  BY <1>2, <1>3

(* Whatever is written to the SMR disk destroys no valid block behind it   *)
(* in its band (append_smr_blocks, do_gc_in_band).                         *)
THEOREM Shingled == Spec => ShingledWrite
<1>1. IInv /\ [Next]_vars => [ShingledStep]_vars
  <2>. SUFFICES ASSUME IInv, Next PROVE ShingledStep
    OBVIOUS
  <2>0. SmrInv /\ BufInv
    BY IInvParts
  <2>1. CASE GarbageCollect
    BY <2>1, CollectIsShingled
  <2>2. CASE AppendNew
    BY <2>0, <2>2, AppendIsShingled DEF AppendNew, BufInv
  <2>3. CASE SwapOut
    BY <2>0, <2>3, AppendIsShingled DEF SwapOut, BufInv
  <2>4. CASE Request \/ ScanColdBuf \/ TakeFreeBuf \/ Fault
    <3>1. data' = data
      BY <2>4 DEF Request, WriteHit, WriteUpdate, WriteNew, ReadBuf, MarkFree, FreeSlot,
         SetMetaFlag, ScanColdBuf, TakeFreeBuf, Fault, invalidate_mapping_entry, smr
    <3>. QED
      BY <3>1 DEF ShingledStep
  <2>. QED
    BY <2>1, <2>2, <2>3, <2>4 DEF Next, Serve
<1>. QED
  BY <1>1, Invariance, PTL DEF Spec, ShingledWrite

============================================================================
