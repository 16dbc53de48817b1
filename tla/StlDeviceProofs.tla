-------------------------- MODULE StlDeviceProofs --------------------------
(***************************************************************************)
(* The translation layer and its buffer implement the block device: every  *)
(* step is a step of BlockDevice, or one that no reader can notice.  Each  *)
(* action has a lemma that says what a read of each block returns after    *)
(* it; the invariant of StlProofs says that no two blocks share a place.   *)
(***************************************************************************)
EXTENDS StlProofs

(* What the device holds of block l, pointwise.                            *)
StoreAt(l) == IF pc # "idle" /\ l = req.blk THEN req.d ELSE Visible(l)

(* The steps of the device.                                                *)
Busy == pc # "idle"
DeviceStep == Device!Next \/ UNCHANGED <<Store, Busy>>

LEMMA WriteStep ==
  ASSUME NEW k \in Blocks, NEW d \in Data, pc = "idle",
         \A l \in Blocks : StoreAt(l)' = IF l = k THEN d ELSE StoreAt(l)
  PROVE  DeviceStep
<1>1. Store' = [Store EXCEPT ![k] = d]
  BY DEF Store, StoreAt
<1>2. (pc # "idle")' \in BOOLEAN /\ ~ (pc # "idle")
  OBVIOUS
<1>3. Device!Write(k, d)
  BY <1>1, <1>2 DEF Device!Write
<1>. QED
  BY <1>3 DEF DeviceStep, Device!Next

LEMMA DiscardStep ==
  ASSUME NEW k \in Blocks, pc = "idle", pc' = "idle", aware,
         \A l \in Blocks : StoreAt(l)' = IF l = k THEN Blank ELSE StoreAt(l)
  PROVE  DeviceStep
<1>1. Store' = [l \in Blocks |-> IF l \in {k} THEN Blank ELSE Store[l]]
  BY DEF Store, StoreAt
<1>2. Device!Discard({k})
  BY <1>1 DEF Device!Discard
<1>. QED
  BY <1>2 DEF DeviceStep, Device!Next

LEMMA StoreKept ==
  ASSUME \A l \in Blocks : StoreAt(l)' = StoreAt(l)
  PROVE  Store' = Store
  BY DEF Store, StoreAt

LEMMA DoneStep ==
  ASSUME pc # "idle", pc' = "idle", \A l \in Blocks : StoreAt(l)' = StoreAt(l)
  PROVE  DeviceStep
<1>1. Device!Done
  BY StoreKept DEF Device!Done
<1>. QED
  BY <1>1 DEF DeviceStep, Device!Next

LEMMA HiddenStep ==
  ASSUME (pc = "idle") <=> (pc' = "idle"), \A l \in Blocks : StoreAt(l)' = StoreAt(l)
  PROVE  DeviceStep
  BY StoreKept DEF DeviceStep, Busy

----------------------------------------------------------------------------
(* What a read of a block returns.                                         *)

(* A block that stays where it is, at a place that is not written to,      *)
(* reads as before.                                                        *)
LEMMA VisibleSame ==
  ASSUME NEW l \in Blocks, mapping_table'[l] = mapping_table[l],
         in_hdd_buf(l) => hdd_buf'[mapping_table[l].paddr] = hdd_buf[mapping_table[l].paddr],
         in_smr_disk(l) => data'[mapping_table[l].paddr] = data[mapping_table[l].paddr]
  PROVE  Visible(l)' = Visible(l)
  BY DEF Visible, in_hdd_buf, in_smr_disk

(* Appending leaves the place of every block on the disk alone.            *)
LEMMA PlacesNotAtCursor ==
  ASSUME IInv, CursorSettled, cur_paddr \in Phys, NEW l \in Blocks, in_smr_disk(l)
  PROVE  mapping_table[l].paddr # cur_paddr /\ mapping_table[l].paddr \in Phys
<1>0. SmrInv /\ BufInv
  BY IInvParts
<1>1. smr_reverse_table[cur_paddr].phy_status = FREE_PHY_BLOCK
  BY <1>0, CursorFree DEF BufInv
<1>2. /\ mapping_table[l].paddr \in Phys
      /\ smr_reverse_table[mapping_table[l].paddr] =
           [blk_no |-> l, phy_status |-> VALID_PHY_BLOCK]
  BY <1>0 DEF SmrInv, MappingBijection
<1>. QED
  BY <1>1, <1>2 DEF FREE_PHY_BLOCK, VALID_PHY_BLOCK

(* What an append makes of every block: the one appended reads as the data *)
(* appended, the others as before.                                         *)
LEMMA AppendVisible ==
  ASSUME IInv, CursorSettled, cur_paddr \in Phys, NEW k \in Blocks,
         NEW d \in Data \cup {Blank}, Append(k, d), hdd_buf' = hdd_buf
  PROVE  /\ Visible(k)' = d
         /\ \A l \in Blocks : l # k => Visible(l)' = Visible(l)
<1>0. SmrInv /\ BufInv
  BY IInvParts
<1>1. mapping_table \in [Blocks -> MappingEntry] /\ data \in [Phys -> Data \cup {Blank}]
  BY <1>0 DEF SmrInv, SmrTypeOK
<1>2. /\ mapping_table' = [mapping_table EXCEPT ![k] =
            [flag |-> "IN_SMR_DISK", paddr |-> cur_paddr]]
      /\ data' = [data EXCEPT ![cur_paddr] = d]
  BY DEF Append
<1>3. Visible(k)' = d
  <2>1. /\ mapping_table'[k].flag = "IN_SMR_DISK"
        /\ mapping_table'[k].paddr = cur_paddr
        /\ data'[cur_paddr] = d
    BY <1>1, <1>2
  <2>. QED
    BY <2>1 DEF Visible, in_hdd_buf, in_smr_disk
<1>4. ASSUME NEW l \in Blocks, l # k
      PROVE  Visible(l)' = Visible(l)
  <2>1. mapping_table'[l] = mapping_table[l]
    BY <1>1, <1>2, <1>4
  <2>2. in_smr_disk(l) => data'[mapping_table[l].paddr] = data[mapping_table[l].paddr]
    BY <1>1, <1>2, PlacesNotAtCursor
  <2>. QED
    BY <2>1, <2>2, VisibleSame
<1>. QED
  BY <1>3, <1>4

(* Two buffered blocks have different slots.                               *)
LEMMA SlotsDiffer ==
  ASSUME BufInv, NEW k \in Blocks, NEW l \in Blocks, in_hdd_buf(k), in_hdd_buf(l), k # l
  PROVE  mapping_table[k].paddr # mapping_table[l].paddr
  BY SlotOf

----------------------------------------------------------------------------
(* A request begins, or a block is freed.                                  *)

LEMMA WriteHitWrites ==
  ASSUME IInv, NEW k \in HostBlocks, NEW d \in Data, WriteHit(k, d)
  PROVE  DeviceStep
<1>. DEFINE s == mapping_table[k].paddr
<1>0. BufInv /\ k \in Blocks
  BY IInvParts, ParameterAssumption
<1>1. /\ pc = "idle" /\ in_hdd_buf(k)
      /\ hdd_buf' = [hdd_buf EXCEPT ![s] = d]
      /\ UNCHANGED <<smr, local>>
  BY DEF WriteHit
<1>2. s \in Slots /\ hdd_buf \in [Slots -> Data \cup {Blank}]
  BY <1>0, <1>1, SlotOf DEF BufInv, BufTypeOK
<1>3. mapping_table' = mapping_table /\ data' = data /\ pc' = "idle"
  BY <1>1 DEF smr, local
<1>4. ASSUME NEW l \in Blocks
      PROVE  Visible(l)' = IF l = k THEN d ELSE Visible(l)
  <2>1. CASE l = k
    BY <1>1, <1>2, <1>3, <2>1 DEF Visible, in_hdd_buf
  <2>2. CASE l # k
    <3>1. in_hdd_buf(l) => hdd_buf'[mapping_table[l].paddr] = hdd_buf[mapping_table[l].paddr]
      BY <1>0, <1>1, <1>2, <2>2, SlotsDiffer
    <3>. QED
      BY <1>3, <2>2, <3>1, VisibleSame
  <2>. QED
    BY <2>1, <2>2
<1>. QED
  BY <1>0, <1>1, <1>3, <1>4, WriteStep DEF StoreAt

LEMMA WriteUpdateWrites ==
  ASSUME IInv, NEW k \in HostBlocks, NEW d \in Data, WriteUpdate(k, d)
  PROVE  DeviceStep
<1>0. SmrInv /\ BufInv /\ k \in Blocks
  BY IInvParts, ParameterAssumption
<1>1. /\ pc = "idle" /\ pc' # "idle" /\ in_smr_disk(k)
      /\ invalidate_mapping_entry(k)
      /\ req' = [blk |-> k, d |-> d]
      /\ hdd_buf' = hdd_buf
  BY DEF WriteUpdate, buf
<1>2. data' = data /\ \A l \in Blocks : l # k => mapping_table'[l] = mapping_table[l]
  BY <1>0, <1>1 DEF invalidate_mapping_entry, SmrInv, SmrTypeOK
<1>3. \A l \in Blocks : l # k => Visible(l)' = Visible(l)
  BY <1>1, <1>2, VisibleSame
<1>4. req'.blk = k /\ req'.d = d
  BY <1>1
<1>. QED
  BY <1>0, <1>1, <1>3, <1>4, WriteStep DEF StoreAt

LEMMA WriteNewWrites ==
  ASSUME IInv, NEW k \in HostBlocks, NEW d \in Data, WriteNew(k, d)
  PROVE  DeviceStep
<1>0. k \in Blocks
  BY ParameterAssumption
<1>1. /\ pc = "idle" /\ pc' # "idle"
      /\ req' = [blk |-> k, d |-> d]
      /\ mapping_table' = mapping_table /\ data' = data /\ hdd_buf' = hdd_buf
  BY DEF WriteNew, smr, buf
<1>2. \A l \in Blocks : Visible(l)' = Visible(l)
  BY <1>1, VisibleSame
<1>3. req'.blk = k /\ req'.d = d
  BY <1>1
<1>. QED
  BY <1>0, <1>1, <1>2, <1>3, WriteStep DEF StoreAt

LEMMA MarkFreeDiscards ==
  ASSUME IInv, NEW k \in HostBlocks, MarkFree(k)
  PROVE  DeviceStep
<1>0. SmrInv /\ k \in Blocks
  BY IInvParts, ParameterAssumption
<1>1. /\ pc = "idle" /\ pc' = "idle" /\ aware
      /\ mapping_table' = [mapping_table EXCEPT ![k] = Unmapped]
      /\ data' = data /\ hdd_buf' = hdd_buf
  BY DEF MarkFree, FreeSlot, invalidate_mapping_entry, local, buf
<1>2. mapping_table \in [Blocks -> MappingEntry]
  BY <1>0 DEF SmrInv, SmrTypeOK
<1>3. Visible(k)' = Blank
  <2>1. mapping_table'[k].flag = "INVALID_MAPPING"
    BY <1>0, <1>1, <1>2 DEF Unmapped
  <2>. QED
    BY <2>1 DEF Visible, in_hdd_buf, in_smr_disk
<1>4. \A l \in Blocks : l # k => Visible(l)' = Visible(l)
  BY <1>1, <1>2, VisibleSame
<1>. QED
  BY <1>0, <1>1, <1>3, <1>4, DiscardStep DEF StoreAt

(* Steps that move nothing: reading, flagging, choosing, faulting.         *)
LEMMA NothingMoves ==
  ASSUME UNCHANGED <<mapping_table, data, hdd_buf, req>>, (pc = "idle") <=> (pc' = "idle")
  PROVE  DeviceStep
<1>1. \A l \in Blocks : Visible(l)' = Visible(l)
  BY VisibleSame
<1>. QED
  BY <1>1, HiddenStep DEF StoreAt

----------------------------------------------------------------------------
(* The rest of a request.                                                  *)

(* A collection brings every block of the band to its new place before     *)
(* anything else can look.                                                 *)
LEMMA CollectionHidden ==
  ASSUME IInv, GarbageCollect
  PROVE  DeviceStep
<1>0. SmrInv
  BY IInvParts
<1>1. hdd_buf' = hdd_buf /\ req' = req /\ pc' = pc /\ gc_needed /\ garbage_collecting
  BY DEF GarbageCollect, buf
<1>2. mapping_table \in [Blocks -> MappingEntry] /\ data \in [Phys -> Data \cup {Blank}]
  BY <1>0 DEF SmrInv, SmrTypeOK
<1>3. CASE fully_invalid_bands # {}
  <2>1. mapping_table' = mapping_table /\ data' = data
    BY <1>1, <1>3 DEF garbage_collecting, reuse_invalid_band
  <2>. QED
    BY <1>1, <2>1, NothingMoves
<1>4. CASE fully_invalid_bands = {}
  <2>. DEFINE b == Victim
  <2>1. b \in Bands
    <3>1. req.blk \in Blocks /\ ~in_smr_disk(req.blk)
      BY IInvParts DEF BufInv, LocalTypeOK, Phases, has_mapping, GarbageCollect
    <3>. QED
      BY <1>0, <1>1, <3>1, VictimHasInvalid
  <2>2. mapping_table' = CompactedMapping(b) /\ data' = CompactedData(b)
    BY <1>1, <1>4 DEF garbage_collecting, do_gc_in_band
  <2>. HIDE DEF b
  <2>3. /\ \A p \in ValidIn(b) : Target(b, p) \in BandStart(b) .. PrefixEnd(b) - 1
        /\ \A p, q \in ValidIn(b) : Target(b, p) = Target(b, q) => p = q
        /\ \A q \in BandStart(b) .. PrefixEnd(b) - 1 :
             Moved(b, q) \in ValidIn(b) /\ Target(b, Moved(b, q)) = q
        /\ \A q \in Phys : Filled(b, q) <=> q \in BandStart(b) .. PrefixEnd(b) - 1
        /\ PrefixEnd(b) \in BandStart(b) .. BandStart(b) + BLOCKS_PER_BAND
    BY <1>0, <2>1, CompactionMoves
  <2>4. \A q \in Phys : data'[q] =
          IF Filled(b, q) /\ q < PrefixEnd(b) THEN data[Moved(b, q)] ELSE data[q]
    BY <2>2 DEF CompactedData
  <2>5. ASSUME NEW l \in Blocks
        PROVE  Visible(l)' = Visible(l)
    <3>1. CASE \E p \in ValidIn(b) : smr_reverse_table[p].blk_no = l
      <4>1. PICK p \in ValidIn(b) : smr_reverse_table[p].blk_no = l
        BY <3>1
      <4>2. p \in Phys /\ smr_reverse_table[p].phy_status = VALID_PHY_BLOCK
        BY <2>1, <4>1, BandBlocks DEF ValidIn
      <4>3. mapping_table[l] = [flag |-> "IN_SMR_DISK", paddr |-> p]
        BY <1>0, <4>1, <4>2 DEF SmrInv, MappingBijection
      <4>4. ASSUME NEW q \in ValidIn(b), smr_reverse_table[q].blk_no = l
            PROVE  q = p
        <5>1. q \in Phys /\ smr_reverse_table[q].phy_status = VALID_PHY_BLOCK
          BY <2>1, BandBlocks DEF ValidIn
        <5>2. mapping_table[l] = [flag |-> "IN_SMR_DISK", paddr |-> q]
          BY <1>0, <4>4, <5>1 DEF SmrInv, MappingBijection
        <5>. QED
          BY <4>3, <5>2
      <4>5. mapping_table'[l] = [flag |-> "IN_SMR_DISK", paddr |-> Target(b, p)]
        <5>1. (CHOOSE q \in ValidIn(b) : smr_reverse_table[q].blk_no = l) = p
          BY <4>1, <4>4
        <5>2. mapping_table'[l] =
                [flag |-> "IN_SMR_DISK",
                 paddr |-> Target(b, CHOOSE q \in ValidIn(b) : smr_reverse_table[q].blk_no = l)]
          BY <2>2, <3>1 DEF CompactedMapping
        <5>. QED
          BY <5>1, <5>2
      <4>. DEFINE t == Target(b, p)
      <4>6. t \in BandStart(b) .. PrefixEnd(b) - 1
        BY <2>3
      <4>7. t \in Phys /\ Filled(b, t) /\ t < PrefixEnd(b)
        <5>1. /\ BandStart(b) \in Int /\ BandStart(b) >= 0
              /\ BandStart(b) + BLOCKS_PER_BAND <= TOTAL_SMR_BLOCKS_CNT
              /\ TOTAL_SMR_BLOCKS_CNT \in Int /\ BLOCKS_PER_BAND \in Int
          BY <2>1, BandBlocks, GeometryAssumption DEF Phys, TOTAL_SMR_BLOCKS_CNT
        <5>. HIDE DEF t
        <5>2. t \in Phys /\ t < PrefixEnd(b)
          BY <2>3, <4>6, <5>1 DEF Phys
        <5>. QED
          BY <2>3, <4>6, <5>2
      <4>8. Moved(b, t) = p
        BY <2>3, <4>6
      <4>9. data'[t] = data[p]
        BY <2>4, <4>7, <4>8
      <4>. QED
        BY <4>3, <4>5, <4>9 DEF Visible, in_hdd_buf, in_smr_disk
    <3>2. CASE \A p \in ValidIn(b) : smr_reverse_table[p].blk_no # l
      <4>1. mapping_table'[l] = mapping_table[l]
        BY <2>2, <3>2 DEF CompactedMapping
      <4>2. ASSUME in_smr_disk(l)
            PROVE  data'[mapping_table[l].paddr] = data[mapping_table[l].paddr]
        <5>. DEFINE p == mapping_table[l].paddr
        <5>1. p \in Phys /\ smr_reverse_table[p] = [blk_no |-> l, phy_status |-> VALID_PHY_BLOCK]
          BY <1>0, <4>2 DEF SmrInv, MappingBijection
        <5>2. p \notin Band(b)
          BY <3>2, <5>1 DEF ValidIn
        <5>. QED
          BY <2>4, <5>1, <5>2 DEF Filled
      <4>. QED
        BY <1>1, <4>1, <4>2, VisibleSame
    <3>. QED
      BY <3>1, <3>2
  <2>. QED
    BY <1>1, <2>5, HiddenStep DEF StoreAt
<1>. QED
  BY <1>3, <1>4

LEMMA AppendNewEnds ==
  ASSUME IInv, AppendNew
  PROVE  DeviceStep
<1>1. PICK k \in Blocks, d \in Data \cup {Blank} : req.blk = k /\ req.d = d
  BY IInvParts DEF BufInv, LocalTypeOK
<1>2. /\ pc = "append" /\ CursorSettled /\ cur_paddr \in Phys
      /\ Append(k, d)
      /\ pc' = "idle" /\ hdd_buf' = hdd_buf
  BY <1>1 DEF AppendNew, buf
<1>3. /\ Visible(k)' = d
      /\ \A l \in Blocks : l # k => Visible(l)' = Visible(l)
  BY <1>2, AppendVisible
<1>. QED
  BY <1>1, <1>2, <1>3, DoneStep DEF StoreAt

(* A block that is swapped out reads as before, although it has moved.     *)
LEMMA SwapOutHidden ==
  ASSUME IInv, SwapOut
  PROVE  DeviceStep
<1>0. SmrInv /\ BufInv
  BY IInvParts
<1>1. PICK s \in Slots : s = cold_bufs[i] /\ s \notin free_hdd_bufs
  <2>1. i < SWAP_OUT_CNT /\ i \in 0 .. BLOCKS_OF_HDD_BUF - 1 /\ cold_bufs \in [Colds -> Slots]
    BY <1>0 DEF BufInv, Phases, LocalTypeOK, SwapOut
  <2>2. /\ \A j, l \in Colds : cold_bufs[j] = cold_bufs[l] => j = l
        /\ free_hdd_bufs = {cold_bufs[j] : j \in 0 .. i - 1}
    BY <1>0 DEF BufInv, ColdBufsDistinct, SwapOut
  <2>3. i \in Colds /\ \A j \in 0 .. i - 1 : j \in Colds /\ j # i
    BY <2>1, BufferAssumption DEF Colds
  <2>. QED
    BY <2>1, <2>2, <2>3
<1>2. PICK k \in Blocks, d \in Data \cup {Blank} :
         /\ reverse_table[s].blk_no = k /\ hdd_buf[s] = d
         /\ mapping_table[k] = [flag |-> "IN_HDD_BUF", paddr |-> s]
  BY <1>0, <1>1 DEF BufInv, BufTypeOK, BufferOwnership
<1>3. /\ pc = "swap" /\ CursorSettled /\ cur_paddr \in Phys
      /\ Append(k, d)
      /\ pc' \in {"swap", "take"} /\ hdd_buf' = hdd_buf /\ req' = req
  BY <1>1, <1>2 DEF SwapOut
<1>4. /\ Visible(k)' = d
      /\ \A l \in Blocks : l # k => Visible(l)' = Visible(l)
  BY <1>3, AppendVisible
<1>5. Visible(k) = d
  BY <1>2 DEF Visible, in_hdd_buf
<1>. QED
  BY <1>3, <1>4, <1>5, HiddenStep DEF StoreAt

LEMMA TakeFreeBufEnds ==
  ASSUME IInv, TakeFreeBuf
  PROVE  DeviceStep
<1>0. SmrInv /\ BufInv
  BY IInvParts
<1>1. PICK k \in Blocks, d \in Data \cup {Blank} : req.blk = k /\ req.d = d
  BY <1>0 DEF BufInv, LocalTypeOK
<1>2. PICK s \in free_hdd_bufs : s = Min(free_hdd_bufs) /\ s \in Slots
  <2>1. free_hdd_bufs # {} /\ free_hdd_bufs \subseteq Slots
    BY <1>0 DEF BufInv, Phases, BufTypeOK, TakeFreeBuf
  <2>2. free_hdd_bufs \subseteq Nat
    BY <2>1 DEF Slots
  <2>. QED
    BY <2>1, <2>2, MinOfNats
<1>3. /\ pc = "take" /\ pc' = "idle" /\ data' = data
      /\ hdd_buf' = [hdd_buf EXCEPT ![s] = d]
      /\ mapping_table' = [mapping_table EXCEPT ![k] = [flag |-> "IN_HDD_BUF", paddr |-> s]]
  BY <1>1, <1>2 DEF TakeFreeBuf
<1>4. mapping_table \in [Blocks -> MappingEntry] /\ hdd_buf \in [Slots -> Data \cup {Blank}]
  BY <1>0 DEF SmrInv, SmrTypeOK, BufInv, BufTypeOK
<1>5. Visible(k)' = d
  <2>1. mapping_table'[k].flag = "IN_HDD_BUF" /\ mapping_table'[k].paddr = s
    BY <1>3, <1>4
  <2>2. hdd_buf'[s] = d
    BY <1>2, <1>3, <1>4
  <2>. QED
    BY <2>1, <2>2 DEF Visible, in_hdd_buf
<1>6. ASSUME NEW l \in Blocks, l # k
      PROVE  Visible(l)' = Visible(l)
  <2>1. mapping_table'[l] = mapping_table[l]
    BY <1>3, <1>4, <1>6
  <2>2. ASSUME in_hdd_buf(l)
        PROVE  hdd_buf'[mapping_table[l].paddr] = hdd_buf[mapping_table[l].paddr]
    <3>1. mapping_table[l].paddr \in Slots \ free_hdd_bufs
      BY <1>0, <2>2, SlotOf
    <3>. QED
      BY <1>2, <1>3, <1>4, <3>1
  <2>. QED
    BY <1>3, <2>1, <2>2, VisibleSame
<1>. QED
  BY <1>1, <1>3, <1>5, <1>6, DoneStep DEF StoreAt

----------------------------------------------------------------------------
(* The refinement.                                                         *)

LEMMA InitRefines == Init => Device!Init
<1>. SUFFICES ASSUME Init PROVE Device!Init
  OBVIOUS
<1>1. pc = "idle" /\ \A k \in Blocks : Visible(k) = Blank
  BY DEF Init, Visible, in_hdd_buf, in_smr_disk, Unmapped
<1>2. Store = [k \in Blocks |-> Blank]
  BY <1>1 DEF Store
<1>. QED
  BY <1>1, <1>2 DEF Device!Init

LEMMA NextRefines == IInv /\ [Next]_vars => DeviceStep
<1>. SUFFICES ASSUME IInv, [Next]_vars PROVE DeviceStep
  OBVIOUS
<1>1. ASSUME NEW k \in HostBlocks, NEW d \in Data, WriteHit(k, d) PROVE DeviceStep
  BY <1>1, WriteHitWrites
<1>2. ASSUME NEW k \in HostBlocks, NEW d \in Data, WriteUpdate(k, d) PROVE DeviceStep
  BY <1>2, WriteUpdateWrites
<1>3. ASSUME NEW k \in HostBlocks, NEW d \in Data, WriteNew(k, d) PROVE DeviceStep
  BY <1>3, WriteNewWrites
<1>4. ASSUME NEW k \in HostBlocks, ReadBuf(k) PROVE DeviceStep
  BY <1>4, NothingMoves DEF ReadBuf, smr, local
<1>5. ASSUME NEW k \in HostBlocks, MarkFree(k) PROVE DeviceStep
  BY <1>5, MarkFreeDiscards
<1>6. ASSUME NEW k \in MetaBlocks, SetMetaFlag(k) PROVE DeviceStep
  BY <1>6, NothingMoves DEF SetMetaFlag, smr, buf, local
<1>7. CASE ScanColdBuf
  BY <1>7, NothingMoves DEF ScanColdBuf, smr, buf
<1>8. CASE GarbageCollect
  BY <1>8, CollectionHidden
<1>9. CASE AppendNew
  BY <1>9, AppendNewEnds
<1>10. CASE SwapOut
  BY <1>10, SwapOutHidden
<1>11. CASE TakeFreeBuf
  BY <1>11, TakeFreeBufEnds
<1>12. CASE Fault
  BY <1>12, NothingMoves DEF Fault, smr, buf
<1>13. CASE UNCHANGED vars
  BY <1>13, NothingMoves DEF vars, smr, buf, local
<1>. QED
  BY <1>1, <1>2, <1>3, <1>4, <1>5, <1>6, <1>7, <1>8, <1>9, <1>10, <1>11, <1>12, <1>13
     DEF Next, Request, Serve

(* The layer implements the device, whatever is swapped out, collected or  *)
(* moved below, for every geometry of the disk and size of the buffer      *)
(* (stl.c, hdd_buf.c).                                                     *)
THEOREM DeviceImplemented == Spec => ImplementsDevice
<1>1. Init => Device!Init
  BY InitRefines
<1>2. IInv /\ [Next]_vars => [Device!Next]_<<Store, pc # "idle">>
  BY NextRefines DEF DeviceStep, Busy
<1>. QED
  BY <1>1, <1>2, Invariance, PTL DEF Spec, ImplementsDevice, Device!Spec

============================================================================
