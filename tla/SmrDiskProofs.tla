--------------------------- MODULE SmrDiskProofs ---------------------------
(***************************************************************************)
(* What stl.c does to the tables of the SMR disk keeps them consistent:    *)
(* invalidating a block, appending one, reusing a band, compacting one.    *)
(* The lemmas hold for every geometry of the disk; StlProofs puts them     *)
(* together.                                                               *)
(***************************************************************************)
EXTENDS Stl, TLAPS, FiniteSetTheorems, WellFoundedInduction

----------------------------------------------------------------------------
(* Bands partition the physical blocks.                                    *)

LEMMA BandBlocks ==
  ASSUME NEW b \in Bands
  PROVE  /\ BandStart(b) \in Phys
         /\ Band(b) \subseteq Phys
         /\ BandStart(b) + BLOCKS_PER_BAND <= TOTAL_SMR_BLOCKS_CNT
  BY GeometryAssumption DEF Bands, BandStart, Band, Phys, TOTAL_SMR_BLOCKS_CNT

LEMMA BandOfBlock ==
  ASSUME NEW p \in Phys
  PROVE  /\ BandOf(p) \in Bands
         /\ p \in Band(BandOf(p))
  BY GeometryAssumption DEF Bands, BandStart, Band, Phys, TOTAL_SMR_BLOCKS_CNT, BandOf

LEMMA BandUnique ==
  ASSUME NEW b \in Bands, NEW c \in Bands, NEW p \in Band(b), p \in Band(c)
  PROVE  b = c
  BY GeometryAssumption DEF Bands, BandStart, Band

LEMMA StartOfBand ==
  ASSUME NEW b \in Int
  PROVE  BandStart(b) % BLOCKS_PER_BAND = 0
  BY GeometryAssumption DEF BandStart

LEMMA BandOrder ==
  ASSUME NEW b \in Int, NEW c \in Int, b <= c
  PROVE  BandStart(b) <= BandStart(c)
<1>. DEFINE n == c - b
<1>1. n \in Nat /\ c = b + n
  OBVIOUS
<1>. HIDE DEF n
<1>2. n * BLOCKS_PER_BAND \in Nat /\ b * BLOCKS_PER_BAND \in Int
  BY <1>1, GeometryAssumption
<1>3. c * BLOCKS_PER_BAND = b * BLOCKS_PER_BAND + n * BLOCKS_PER_BAND
  BY <1>1, GeometryAssumption
<1>. QED
  BY <1>2, <1>3 DEF BandStart

LEMMA AtStart ==
  ASSUME NEW p \in Int, p % BLOCKS_PER_BAND = 0
  PROVE  p = BandStart(BandOf(p))
  BY GeometryAssumption DEF BandStart, BandOf

----------------------------------------------------------------------------
(* Least elements and greatest values.                                     *)

LEMMA NatLeast ==
  ASSUME NEW S \in SUBSET Nat, S # {}
  PROVE  \E x \in S : \A y \in S : x <= y
<1>. DEFINE R == {ss \in Nat \X Nat : ss[1] < ss[2]}
<1>1. IsWellFoundedOn(R, Nat)
  BY NatLessThanWellFounded, Zenon DEF OpToRel
<1>2. \E x \in S : \A y \in S : ~ (<<y, x>> \in R)
  <2>. HIDE DEF R
  <2>. QED  BY <1>1, WFMin
<1>3. \A x, y \in Nat : <<y, x>> \notin R => x <= y
  OBVIOUS
<1>. HIDE DEF R
<1>. QED
  BY <1>2, <1>3

LEMMA MinOfNats ==
  ASSUME NEW S \in SUBSET Nat, S # {}
  PROVE  Min(S) \in S
  BY NatLeast DEF Min

(* Among the bands there is a first one whose value is greatest.           *)
LEMMA FirstGreatest ==
  ASSUME NEW f \in [Bands -> 0 .. BLOCKS_PER_BAND]
  PROVE  \E b \in Bands : \A c \in Bands :
            f[c] <= f[b] /\ (c < b => f[c] < f[b])
<1>. DEFINE Room == {BLOCKS_PER_BAND - f[b] : b \in Bands}
<1>1. Room \in SUBSET Nat /\ Room # {}
  BY GeometryAssumption DEF Bands
<1>2. PICK r \in Room : \A x \in Room : r <= x
  BY <1>1, NatLeast
<1>. DEFINE Best == {b \in Bands : BLOCKS_PER_BAND - f[b] = r}
<1>3. Best \in SUBSET Nat /\ Best # {}
  BY <1>2 DEF Bands
<1>4. PICK b \in Best : \A c \in Best : b <= c
  BY <1>3, NatLeast
<1>5. ASSUME NEW c \in Bands
      PROVE  f[c] <= f[b] /\ (c < b => f[c] < f[b])
  <2>1. f[b] \in 0 .. BLOCKS_PER_BAND /\ f[c] \in 0 .. BLOCKS_PER_BAND
    OBVIOUS
  <2>2. BLOCKS_PER_BAND - f[b] <= BLOCKS_PER_BAND - f[c]
    BY <1>2
  <2>3. c < b => c \notin Best
    BY <1>4, GeometryAssumption DEF Bands
  <2>. QED
    BY <2>1, <2>2, <2>3, GeometryAssumption
<1>. QED
  BY <1>5

----------------------------------------------------------------------------
(* Counting the blocks of a band.                                          *)

LEMMA BandSize ==
  ASSUME NEW b \in Bands
  PROVE  /\ IsFiniteSet(Band(b))
         /\ Cardinality(Band(b)) = BLOCKS_PER_BAND
<1>1. BandStart(b) \in Int
  BY GeometryAssumption DEF Bands, BandStart
<1>. QED
  BY <1>1, FS_Interval, GeometryAssumption DEF Band

LEMMA PartOfBand ==
  ASSUME NEW b \in Bands, NEW S \in SUBSET Band(b)
  PROVE  /\ IsFiniteSet(S)
         /\ Cardinality(S) \in 0 .. BLOCKS_PER_BAND
         /\ Cardinality(S) = BLOCKS_PER_BAND => S = Band(b)
         /\ Cardinality(S) = 0 <=> S = {}
  BY BandSize, FS_Subset, FS_CardinalityType, FS_EmptySet

(* The blocks of a set in increasing order: the one at p has as many       *)
(* before it as Rank says, and every number below the size is a rank.      *)
Rank(V, p) == Cardinality({q \in V : q < p})

LEMMA RankStrict ==
  ASSUME NEW V \in SUBSET Int, IsFiniteSet(V), NEW p \in V, NEW q \in V, p < q
  PROVE  Rank(V, p) < Rank(V, q)
<1>. DEFINE P == {x \in V : x < p}
            Q == {x \in V : x < q}
<1>1. IsFiniteSet(P) /\ IsFiniteSet(Q)
  BY FS_Subset
<1>2. Cardinality(P \cup {p}) = Cardinality(P) + 1 /\ IsFiniteSet(P \cup {p})
  BY <1>1, FS_AddElement
<1>3. P \cup {p} \subseteq Q
  <2>1. \A x \in Int : x < p /\ p \in Int /\ q \in Int => x < q
    BY p < q
  <2>. QED
    BY <2>1
<1>4. Cardinality(P \cup {p}) <= Cardinality(Q)
  BY <1>1, <1>3, FS_Subset
<1>5. Cardinality(P) \in Nat /\ Cardinality(Q) \in Nat
  BY <1>1, FS_CardinalityType
<1>. QED
  BY <1>2, <1>4, <1>5 DEF Rank

LEMMA RankBijection ==
  ASSUME NEW V \in SUBSET Int, IsFiniteSet(V)
  PROVE  /\ \A p \in V : Rank(V, p) \in 0 .. Cardinality(V) - 1
         /\ \A p, q \in V : Rank(V, p) = Rank(V, q) => p = q
         /\ \A n \in 0 .. Cardinality(V) - 1 : \E p \in V : Rank(V, p) = n
<1>. DEFINE N == Cardinality(V)
            f == [p \in V |-> Rank(V, p)]
<1>1. N \in Nat
  BY FS_CardinalityType
<1>2. ASSUME NEW p \in V PROVE Rank(V, p) \in 0 .. N - 1
  <2>. DEFINE P == {x \in V : x < p}
  <2>1. P \subseteq V \ {p}
    OBVIOUS
  <2>2. IsFiniteSet(V \ {p}) /\ Cardinality(V \ {p}) = N - 1
    BY FS_RemoveElement
  <2>3. IsFiniteSet(P) /\ Cardinality(P) <= N - 1
    BY <2>1, <2>2, FS_Subset
  <2>4. Cardinality(P) \in Nat
    BY <2>3, FS_CardinalityType
  <2>. QED
    BY <2>3, <2>4, <1>1 DEF Rank
<1>3. ASSUME NEW p \in V, NEW q \in V, Rank(V, p) = Rank(V, q) PROVE p = q
  <2>1. Rank(V, p) \in Int /\ Rank(V, q) \in Int
    BY <1>2
  <2>2. ~ (p < q) /\ ~ (q < p)
    BY <1>3, <2>1, RankStrict
  <2>. QED
    BY <2>2
<1>4. f \in Injection(V, 0 .. N - 1)
  BY <1>2, <1>3 DEF Injection, IsInjective
<1>5. IsFiniteSet(0 .. N - 1) /\ Cardinality(0 .. N - 1) = N
  BY <1>1, FS_Interval
<1>6. f \in Surjection(V, 0 .. N - 1)
  BY <1>4, <1>5, FS_Injection
<1>7. \A n \in 0 .. N - 1 : \E p \in V : Rank(V, p) = n
  BY <1>6 DEF Surjection
<1>. QED
  BY <1>2, <1>3, <1>7

(* What replacing the entry at p by e adds to the count of status st.      *)
Diff(T, p, e, st) ==
  IF e.phy_status = st THEN 1 ELSE IF T[p].phy_status = st THEN -1 ELSE 0

LEMMA CountOneChange ==
  ASSUME NEW T \in [Phys -> ReverseEntry], NEW p \in Phys, NEW e \in ReverseEntry,
         e.phy_status # T[p].phy_status, NEW c \in Bands, NEW st
  PROVE  StatusCount([T EXCEPT ![p] = e], c, st) = StatusCount(T, c, st)
           + (IF c = BandOf(p) THEN Diff(T, p, e, st) ELSE 0)
<1>. DEFINE U == [T EXCEPT ![p] = e]
            Old == {q \in Band(c) : T[q].phy_status = st}
            New == {q \in Band(c) : U[q].phy_status = st}
<1>0. StatusCount(T, c, st) = Cardinality(Old) /\ StatusCount(U, c, st) = Cardinality(New)
  BY DEF StatusCount
<1>1. IsFiniteSet(Old) /\ Cardinality(Old) \in Nat
  BY PartOfBand
<1>2. p \in Band(c) <=> c = BandOf(p)
  BY BandOfBlock, BandUnique
<1>3. Band(c) \subseteq Phys
  BY BandBlocks
<1>4. CASE c # BandOf(p)
  <2>1. New = Old
    BY <1>2, <1>3, <1>4
  <2>2. Cardinality(New) = Cardinality(Old)
    BY <2>1
  <2>. HIDE DEF Old, New
  <2>. QED
    BY <1>0, <2>2, <1>1, <1>4
<1>5. CASE c = BandOf(p) /\ e.phy_status = st
  <2>1. New = Old \cup {p} /\ p \notin Old
    BY <1>2, <1>3, <1>5
  <2>2. Cardinality(New) = Cardinality(Old) + 1
    BY <2>1, <1>1, FS_AddElement
  <2>. HIDE DEF Old, New
  <2>. QED
    BY <1>0, <2>2, <1>1, <1>5 DEF Diff
<1>6. CASE c = BandOf(p) /\ T[p].phy_status = st
  <2>1. New = Old \ {p} /\ p \in Old
    BY <1>2, <1>3, <1>6
  <2>2. Cardinality(New) = Cardinality(Old) - 1
    BY <2>1, <1>1, FS_RemoveElement, ZenonT(60)
  <2>. HIDE DEF Old, New
  <2>. QED
    BY <1>0, <2>2, <1>1, <1>6 DEF Diff
<1>7. CASE c = BandOf(p) /\ e.phy_status # st /\ T[p].phy_status # st
  <2>1. New = Old
    BY <1>3, <1>7
  <2>2. Cardinality(New) = Cardinality(Old)
    BY <2>1
  <2>. HIDE DEF Old, New
  <2>. QED
    BY <1>0, <2>2, <1>1, <1>7 DEF Diff
<1>. QED
  BY <1>4, <1>5, <1>6, <1>7

(* Counters that are exact are in range.                                   *)
LEMMA CountRange ==
  ASSUME NEW T, NEW b \in Bands, NEW st
  PROVE  StatusCount(T, b, st) \in 0 .. BLOCKS_PER_BAND
  BY PartOfBand DEF StatusCount

LEMMA CountedType ==
  ASSUME NEW T, NEW b \in Bands
  PROVE  Counted(T, b) \in BandInfo
  BY CountRange DEF Counted, BandInfo

LEMMA FullCount ==
  ASSUME NEW T, NEW b \in Bands, NEW st
  PROVE  StatusCount(T, b, st) = BLOCKS_PER_BAND <=> \A p \in Band(b) : T[p].phy_status = st
<1>. DEFINE S == {p \in Band(b) : T[p].phy_status = st}
<1>1. Cardinality(S) = BLOCKS_PER_BAND <=> S = Band(b)
  BY PartOfBand, BandSize
<1>. QED
  BY <1>1 DEF StatusCount

LEMMA CountedOneChange ==
  ASSUME NEW T \in [Phys -> ReverseEntry], NEW p \in Phys, NEW e \in ReverseEntry,
         e.phy_status # T[p].phy_status, NEW c \in Bands
  PROVE  Counted([T EXCEPT ![p] = e], c) =
           IF c = BandOf(p)
           THEN [invalid_cnt |-> Counted(T, c).invalid_cnt + Diff(T, p, e, INVALID_PHY_BLOCK),
                 free_cnt    |-> Counted(T, c).free_cnt + Diff(T, p, e, FREE_PHY_BLOCK),
                 valid_cnt   |-> Counted(T, c).valid_cnt + Diff(T, p, e, VALID_PHY_BLOCK)]
           ELSE Counted(T, c)
<1>1. ASSUME NEW st
      PROVE  /\ StatusCount([T EXCEPT ![p] = e], c, st) = StatusCount(T, c, st)
                  + (IF c = BandOf(p) THEN Diff(T, p, e, st) ELSE 0)
             /\ StatusCount(T, c, st) \in Int
  <2>1. StatusCount([T EXCEPT ![p] = e], c, st) = StatusCount(T, c, st)
          + (IF c = BandOf(p) THEN Diff(T, p, e, st) ELSE 0)
    BY CountOneChange, ZenonT(60)
  <2>2. StatusCount(T, c, st) \in Int
    BY CountRange, GeometryAssumption
  <2>. QED
    BY <2>1, <2>2
<1>. QED
  BY <1>1 DEF Counted

LEMMA SameCounted ==
  ASSUME NEW T, NEW U, NEW b, \A p \in Band(b) : U[p].phy_status = T[p].phy_status
  PROVE  Counted(U, b) = Counted(T, b)
<1>1. ASSUME NEW st
      PROVE  StatusCount(U, b, st) = StatusCount(T, b, st)
  <2>1. {p \in Band(b) : U[p].phy_status = st} = {p \in Band(b) : T[p].phy_status = st}
    OBVIOUS
  <2>. QED
    BY <2>1 DEF StatusCount
<1>. QED
  BY <1>1 DEF Counted

LEMMA NoneCounted ==
  ASSUME NEW T, NEW b \in Bands, NEW st, \A p \in Band(b) : T[p].phy_status # st
  PROVE  StatusCount(T, b, st) = 0
<1>1. {p \in Band(b) : T[p].phy_status = st} = {}
  OBVIOUS
<1>. QED
  BY <1>1, FS_EmptySet DEF StatusCount

LEMMA ZeroBlock == 0 \in Blocks /\ Blocks = Phys
  BY GeometryAssumption DEF Blocks, Phys, TOTAL_SMR_BLOCKS_CNT

----------------------------------------------------------------------------
(* The SMR disk.                                                           *)

(* What is invariant of the tables of the SMR disk alone.                  *)
SmrInv == /\ SmrTypeOK
          /\ MappingBijection
          /\ BandCounters
          /\ FullyInvalidExact
          /\ FreeRun

LEMMA SmrUnchanged ==
  ASSUME SmrInv, UNCHANGED smr
  PROVE  SmrInv'
<1>. USE DEF smr
<1>1. SmrTypeOK'
  BY DEF SmrInv, SmrTypeOK
<1>2. MappingBijection'
  BY DEF SmrInv, MappingBijection, in_smr_disk
<1>3. BandCounters'
  BY DEF SmrInv, BandCounters, StatusCount
<1>4. FullyInvalidExact'
  BY DEF SmrInv, FullyInvalidExact
<1>5. FreeRun'
  BY DEF SmrInv, FreeRun
<1>. QED
  BY <1>1, <1>2, <1>3, <1>4, <1>5 DEF SmrInv

(* The cursor: where it can stand, and what is free.                       *)
LEMMA CursorFree ==
  ASSUME SmrInv, GcFindsRoom, CursorSettled, cur_paddr \in Phys
  PROVE  smr_reverse_table[cur_paddr].phy_status = FREE_PHY_BLOCK
<1>1. CASE collected
  BY <1>1 DEF GcFindsRoom
<1>2. CASE ~gc_needed /\ cur_paddr % BLOCKS_PER_BAND = 0
  BY <1>2 DEF gc_needed, status_at_cursor
<1>3. CASE cur_paddr % BLOCKS_PER_BAND # 0
  <2>1. PICK e \in Phys \cup {TOTAL_SMR_BLOCKS_CNT} :
          /\ e % BLOCKS_PER_BAND = 0
          /\ cur_paddr <= e
          /\ \A p \in Phys : smr_reverse_table[p].phy_status = FREE_PHY_BLOCK
                               <=> p \in cur_paddr .. e - 1
    BY DEF SmrInv, FreeRun
  <2>2. cur_paddr \in cur_paddr .. e - 1
    BY <2>1, <1>3, GeometryAssumption DEF Phys, TOTAL_SMR_BLOCKS_CNT
  <2>. QED
    BY <2>1, <2>2
<1>. QED
  BY <1>1, <1>2, <1>3 DEF CursorSettled

LEMMA NothingFree ==
  ASSUME SmrInv, gc_needed
  PROVE  \A p \in Phys : smr_reverse_table[p].phy_status # FREE_PHY_BLOCK
<1>1. PICK e \in Phys \cup {TOTAL_SMR_BLOCKS_CNT} :
        /\ cur_paddr <= e
        /\ \A p \in Phys : smr_reverse_table[p].phy_status = FREE_PHY_BLOCK
                             <=> p \in cur_paddr .. e - 1
  BY DEF SmrInv, FreeRun
<1>2. cur_paddr \in 0 .. TOTAL_SMR_BLOCKS_CNT
  BY DEF SmrInv, SmrTypeOK
<1>3. ~ (cur_paddr < e)
  BY <1>1, <1>2, GeometryAssumption DEF gc_needed, status_at_cursor, Phys, TOTAL_SMR_BLOCKS_CNT
<1>. QED
  BY <1>1, <1>2, <1>3, GeometryAssumption DEF Phys, TOTAL_SMR_BLOCKS_CNT

LEMMA InvalidateKeeps ==
  ASSUME SmrInv, NEW k \in Blocks, in_smr_disk(k), invalidate_mapping_entry(k)
  PROVE  SmrInv'
<1>. DEFINE p == mapping_table[k].paddr
            b == BandOf(p)
<1>0. SmrTypeOK /\ MappingBijection /\ BandCounters /\ FullyInvalidExact /\ FreeRun
  BY DEF SmrInv
<1>1. p \in Phys /\ smr_reverse_table[p] = [blk_no |-> k, phy_status |-> VALID_PHY_BLOCK]
  BY <1>0 DEF MappingBijection
<1>2. b \in Bands /\ p \in Band(b)
  BY <1>1, BandOfBlock
<1>3. /\ mapping_table' = [mapping_table EXCEPT ![k] = Unmapped]
      /\ smr_reverse_table' = [smr_reverse_table EXCEPT ![p] = InvalidEntry]
      /\ phy_bands' = [phy_bands EXCEPT ![b] = BandInvalidated(@)]
      /\ fully_invalid_bands' = VectorInvalidated(b)
      /\ cur_paddr' = cur_paddr /\ data' = data
  BY DEF invalidate_mapping_entry
<1>4. InvalidEntry \in ReverseEntry /\ InvalidEntry.phy_status = INVALID_PHY_BLOCK
  BY ZeroBlock DEF InvalidEntry, ReverseEntry, PhyStatus
<1>5. smr_reverse_table \in [Phys -> ReverseEntry] /\ phy_bands \in [Bands -> BandInfo]
  BY <1>0 DEF SmrTypeOK
<1>6. InvalidEntry.phy_status # smr_reverse_table[p].phy_status
  BY <1>1, <1>4 DEF INVALID_PHY_BLOCK, VALID_PHY_BLOCK
<1>7. /\ Diff(smr_reverse_table, p, InvalidEntry, INVALID_PHY_BLOCK) = 1
      /\ Diff(smr_reverse_table, p, InvalidEntry, FREE_PHY_BLOCK) = 0
      /\ Diff(smr_reverse_table, p, InvalidEntry, VALID_PHY_BLOCK) = -1
  BY <1>1, <1>4 DEF Diff, INVALID_PHY_BLOCK, VALID_PHY_BLOCK, FREE_PHY_BLOCK
<1>. HIDE DEF p
<1>8. BandCounters'
  <2>1. ASSUME NEW c \in Bands
        PROVE  phy_bands'[c] = Counted(smr_reverse_table', c)
    <3>1. phy_bands[c] = Counted(smr_reverse_table, c) /\ Counted(smr_reverse_table, c) \in BandInfo
      BY <1>0, CountedType DEF BandCounters
    <3>2. phy_bands'[c] = IF c = b THEN BandInvalidated(phy_bands[c]) ELSE phy_bands[c]
      BY <1>2, <1>3, <1>5
    <3>3. Counted(smr_reverse_table', c) =
            IF c = b
            THEN [invalid_cnt |-> Counted(smr_reverse_table, c).invalid_cnt + 1,
                  free_cnt    |-> Counted(smr_reverse_table, c).free_cnt + 0,
                  valid_cnt   |-> Counted(smr_reverse_table, c).valid_cnt + (-1)]
            ELSE Counted(smr_reverse_table, c)
      BY <1>1, <1>3, <1>4, <1>5, <1>6, <1>7, CountedOneChange
    <3>. QED
      BY <3>1, <3>2, <3>3, GeometryAssumption DEF BandInvalidated, BandInfo
  <2>. QED
    BY <2>1 DEF BandCounters
<1>. HIDE DEF b
<1>9. SmrTypeOK'
  <2>1. smr_reverse_table' \in [Phys -> ReverseEntry]
    BY <1>3, <1>4, <1>5
  <2>2. mapping_table' \in [Blocks -> MappingEntry]
    BY <1>0, <1>3 DEF SmrTypeOK, Unmapped, MappingEntry
  <2>3. fully_invalid_bands' \subseteq Bands
    BY <1>0, <1>2, <1>3 DEF SmrTypeOK, VectorInvalidated
  <2>4. phy_bands' \in [Bands -> BandInfo]
    <3>1. \A c \in Bands : phy_bands'[c] \in BandInfo
      <4>1. \A c \in Bands : phy_bands'[c] = Counted(smr_reverse_table', c)
        BY <1>8 DEF BandCounters
      <4>. QED
        BY <4>1, CountedType
    <3>. QED
      BY <1>3, <1>5, <3>1
  <2>. QED
    BY <1>0, <1>3, <2>1, <2>2, <2>3, <2>4 DEF SmrTypeOK
<1>10. MappingBijection'
  <2>1. ASSUME NEW l \in Blocks, in_smr_disk(l)'
        PROVE  /\ mapping_table'[l].paddr \in Phys
               /\ smr_reverse_table'[mapping_table'[l].paddr] =
                    [blk_no |-> l, phy_status |-> VALID_PHY_BLOCK]
    <3>1. l # k /\ mapping_table'[l] = mapping_table[l] /\ in_smr_disk(l)
      BY <1>0, <1>3, <2>1 DEF SmrTypeOK, in_smr_disk, Unmapped
    <3>2. /\ mapping_table[l].paddr \in Phys
          /\ smr_reverse_table[mapping_table[l].paddr] =
               [blk_no |-> l, phy_status |-> VALID_PHY_BLOCK]
      BY <1>0, <3>1 DEF MappingBijection
    <3>3. mapping_table[l].paddr # p
      BY <1>1, <3>1, <3>2
    <3>. QED
      BY <1>3, <1>5, <3>1, <3>2, <3>3
  <2>2. ASSUME NEW q \in Phys, smr_reverse_table'[q].phy_status = VALID_PHY_BLOCK
        PROVE  mapping_table'[smr_reverse_table'[q].blk_no] =
                 [flag |-> "IN_SMR_DISK", paddr |-> q]
    <3>1. q # p /\ smr_reverse_table'[q] = smr_reverse_table[q]
      BY <1>1, <1>3, <1>4, <1>5, <2>2 DEF INVALID_PHY_BLOCK, VALID_PHY_BLOCK
    <3>2. mapping_table[smr_reverse_table[q].blk_no] = [flag |-> "IN_SMR_DISK", paddr |-> q]
      BY <1>0, <2>2, <3>1 DEF MappingBijection
    <3>3. smr_reverse_table[q].blk_no \in Blocks \ {k}
      BY <1>5, <3>1, <3>2 DEF ReverseEntry, p
    <3>. QED
      BY <1>0, <1>3, <3>1, <3>2, <3>3 DEF SmrTypeOK
  <2>. QED
    BY <2>1, <2>2 DEF MappingBijection, in_smr_disk
<1>11. FullyInvalidExact'
  <2>1. ASSUME NEW c \in Bands, c # b
        PROVE  (\A q \in Band(c) : smr_reverse_table'[q].phy_status = INVALID_PHY_BLOCK)
               <=> \A q \in Band(c) : smr_reverse_table[q].phy_status = INVALID_PHY_BLOCK
    BY <1>2, <1>3, <1>5, <2>1, BandUnique, BandBlocks
  <2>2. (\A q \in Band(b) : smr_reverse_table'[q].phy_status = INVALID_PHY_BLOCK)
          <=> StatusCount(smr_reverse_table', b, INVALID_PHY_BLOCK) = BLOCKS_PER_BAND
    BY <1>2, FullCount
  <2>3. StatusCount(smr_reverse_table', b, INVALID_PHY_BLOCK) = phy_bands[b].invalid_cnt + 1
    <3>1. phy_bands'[b] = BandInvalidated(phy_bands[b])
      BY <1>2, <1>3, <1>5
    <3>2. phy_bands'[b] = Counted(smr_reverse_table', b)
      BY <1>2, <1>8 DEF BandCounters
    <3>. QED
      BY <3>1, <3>2 DEF BandInvalidated, Counted
  <2>4. b \notin fully_invalid_bands
    BY <1>0, <1>1, <1>2 DEF FullyInvalidExact, INVALID_PHY_BLOCK, VALID_PHY_BLOCK
  <2>. QED
    BY <1>0, <1>2, <1>3, <2>1, <2>2, <2>3, <2>4 DEF FullyInvalidExact, VectorInvalidated
<1>12. FreeRun'
  BY <1>0, <1>1, <1>3, <1>5 DEF FreeRun, InvalidEntry, INVALID_PHY_BLOCK, VALID_PHY_BLOCK,
     FREE_PHY_BLOCK
<1>. QED
  BY <1>8, <1>9, <1>10, <1>11, <1>12 DEF SmrInv

LEMMA AppendKeeps ==
  ASSUME SmrInv, GcFindsRoom, CursorSettled, cur_paddr \in Phys,
         NEW k \in Blocks, ~in_smr_disk(k), NEW d \in Data \cup {Blank}, Append(k, d)
  PROVE  SmrInv'
<1>. DEFINE p == cur_paddr
            b == BandOf(p)
            e == [blk_no |-> k, phy_status |-> VALID_PHY_BLOCK]
<1>0. SmrTypeOK /\ MappingBijection /\ BandCounters /\ FullyInvalidExact /\ FreeRun
  BY DEF SmrInv
<1>1. p \in Phys /\ smr_reverse_table[p].phy_status = FREE_PHY_BLOCK
  BY CursorFree
<1>2. b \in Bands /\ p \in Band(b)
  BY <1>1, BandOfBlock
<1>3. /\ mapping_table' = [mapping_table EXCEPT ![k] = [flag |-> "IN_SMR_DISK", paddr |-> p]]
      /\ smr_reverse_table' = [smr_reverse_table EXCEPT ![p] = e]
      /\ phy_bands' = [phy_bands EXCEPT ![b] = BandAppended(@)]
      /\ fully_invalid_bands' = fully_invalid_bands
      /\ cur_paddr' = p + 1
      /\ data' = [data EXCEPT ![p] = d]
  BY DEF Append
<1>4. e \in ReverseEntry /\ e.phy_status = VALID_PHY_BLOCK /\ e.blk_no = k
  BY DEF ReverseEntry, PhyStatus
<1>5. smr_reverse_table \in [Phys -> ReverseEntry] /\ phy_bands \in [Bands -> BandInfo]
  BY <1>0 DEF SmrTypeOK
<1>6. e.phy_status # smr_reverse_table[p].phy_status
  BY <1>1, <1>4 DEF FREE_PHY_BLOCK, VALID_PHY_BLOCK
<1>7. /\ Diff(smr_reverse_table, p, e, INVALID_PHY_BLOCK) = 0
      /\ Diff(smr_reverse_table, p, e, FREE_PHY_BLOCK) = -1
      /\ Diff(smr_reverse_table, p, e, VALID_PHY_BLOCK) = 1
  BY <1>1, <1>4 DEF Diff, INVALID_PHY_BLOCK, VALID_PHY_BLOCK, FREE_PHY_BLOCK
<1>. HIDE DEF p, e
<1>8. BandCounters'
  <2>1. ASSUME NEW c \in Bands
        PROVE  phy_bands'[c] = Counted(smr_reverse_table', c)
    <3>1. phy_bands[c] = Counted(smr_reverse_table, c) /\ Counted(smr_reverse_table, c) \in BandInfo
      BY <1>0, CountedType DEF BandCounters
    <3>2. phy_bands'[c] = IF c = b THEN BandAppended(phy_bands[c]) ELSE phy_bands[c]
      BY <1>2, <1>3, <1>5
    <3>3. Counted(smr_reverse_table', c) =
            IF c = b
            THEN [invalid_cnt |-> Counted(smr_reverse_table, c).invalid_cnt + 0,
                  free_cnt    |-> Counted(smr_reverse_table, c).free_cnt + (-1),
                  valid_cnt   |-> Counted(smr_reverse_table, c).valid_cnt + 1]
            ELSE Counted(smr_reverse_table, c)
      <4>1. Counted([smr_reverse_table EXCEPT ![p] = e], c) =
              IF c = BandOf(p)
              THEN [invalid_cnt |-> Counted(smr_reverse_table, c).invalid_cnt
                                      + Diff(smr_reverse_table, p, e, INVALID_PHY_BLOCK),
                    free_cnt    |-> Counted(smr_reverse_table, c).free_cnt
                                      + Diff(smr_reverse_table, p, e, FREE_PHY_BLOCK),
                    valid_cnt   |-> Counted(smr_reverse_table, c).valid_cnt
                                      + Diff(smr_reverse_table, p, e, VALID_PHY_BLOCK)]
              ELSE Counted(smr_reverse_table, c)
        BY <1>1, <1>4, <1>5, <1>6, CountedOneChange
      <4>. QED
        BY <1>3, <1>7, <4>1
    <3>. QED
      BY <3>1, <3>2, <3>3, GeometryAssumption DEF BandAppended, BandInfo
  <2>. QED
    BY <2>1 DEF BandCounters
<1>. HIDE DEF b
<1>9. SmrTypeOK'
  <2>1. smr_reverse_table' \in [Phys -> ReverseEntry]
    BY <1>3, <1>4, <1>5
  <2>2. mapping_table' \in [Blocks -> MappingEntry]
    <3>1. [flag |-> "IN_SMR_DISK", paddr |-> p] \in MappingEntry
      BY <1>1 DEF MappingEntry, Phys
    <3>. QED
      BY <1>0, <1>3, <3>1 DEF SmrTypeOK
  <2>3. cur_paddr' \in 0 .. TOTAL_SMR_BLOCKS_CNT
    BY <1>1, <1>3, GeometryAssumption DEF Phys, TOTAL_SMR_BLOCKS_CNT
  <2>4. phy_bands' \in [Bands -> BandInfo]
    <3>1. \A c \in Bands : phy_bands'[c] \in BandInfo
      <4>1. \A c \in Bands : phy_bands'[c] = Counted(smr_reverse_table', c)
        BY <1>8 DEF BandCounters
      <4>. QED
        BY <4>1, CountedType
    <3>. QED
      BY <1>3, <1>5, <3>1
  <2>5. data' \in [Phys -> Data \cup {Blank}]
    BY <1>0, <1>3 DEF SmrTypeOK
  <2>. QED
    BY <1>0, <1>3, <2>1, <2>2, <2>3, <2>4, <2>5 DEF SmrTypeOK
<1>10. MappingBijection'
  <2>1. ASSUME NEW l \in Blocks, in_smr_disk(l)'
        PROVE  /\ mapping_table'[l].paddr \in Phys
               /\ smr_reverse_table'[mapping_table'[l].paddr] =
                    [blk_no |-> l, phy_status |-> VALID_PHY_BLOCK]
    <3>1. CASE l = k
      BY <1>0, <1>1, <1>3, <1>5, <3>1 DEF SmrTypeOK, e
    <3>2. CASE l # k
      <4>1. mapping_table'[l] = mapping_table[l] /\ in_smr_disk(l)
        BY <1>0, <1>3, <2>1, <3>2 DEF SmrTypeOK, in_smr_disk
      <4>2. /\ mapping_table[l].paddr \in Phys
            /\ smr_reverse_table[mapping_table[l].paddr] =
                 [blk_no |-> l, phy_status |-> VALID_PHY_BLOCK]
        BY <1>0, <4>1 DEF MappingBijection
      <4>3. mapping_table[l].paddr # p
        BY <1>1, <4>2 DEF FREE_PHY_BLOCK, VALID_PHY_BLOCK
      <4>. QED
        BY <1>3, <1>5, <4>1, <4>2, <4>3
    <3>. QED
      BY <3>1, <3>2
  <2>2. ASSUME NEW q \in Phys, smr_reverse_table'[q].phy_status = VALID_PHY_BLOCK
        PROVE  mapping_table'[smr_reverse_table'[q].blk_no] =
                 [flag |-> "IN_SMR_DISK", paddr |-> q]
    <3>1. CASE q = p
      BY <1>0, <1>1, <1>3, <1>4, <1>5, <3>1 DEF SmrTypeOK
    <3>2. CASE q # p
      <4>1. smr_reverse_table'[q] = smr_reverse_table[q]
        BY <1>3, <1>5, <3>2
      <4>2. mapping_table[smr_reverse_table[q].blk_no] = [flag |-> "IN_SMR_DISK", paddr |-> q]
        BY <1>0, <2>2, <4>1 DEF MappingBijection
      <4>3. smr_reverse_table[q].blk_no \in Blocks \ {k}
        BY <1>5, <4>2 DEF ReverseEntry, in_smr_disk
      <4>. QED
        BY <1>0, <1>3, <4>1, <4>2, <4>3 DEF SmrTypeOK
    <3>. QED
      BY <3>1, <3>2
  <2>. QED
    BY <2>1, <2>2 DEF MappingBijection, in_smr_disk
<1>11. FullyInvalidExact'
  <2>1. ASSUME NEW c \in Bands
        PROVE  (\A q \in Band(c) : smr_reverse_table'[q].phy_status = INVALID_PHY_BLOCK)
               <=> \A q \in Band(c) : smr_reverse_table[q].phy_status = INVALID_PHY_BLOCK
    <3>1. CASE p \in Band(c)
      BY <1>1, <1>3, <1>4, <1>5, <3>1
         DEF INVALID_PHY_BLOCK, VALID_PHY_BLOCK, FREE_PHY_BLOCK
    <3>2. CASE p \notin Band(c)
      BY <1>3, <1>5, <3>2, BandBlocks
    <3>. QED
      BY <3>1, <3>2
  <2>. QED
    BY <1>0, <1>3, <2>1 DEF FullyInvalidExact
<1>12. FreeRun'
  <2>1. PICK f \in Phys \cup {TOTAL_SMR_BLOCKS_CNT} :
          /\ f % BLOCKS_PER_BAND = 0
          /\ cur_paddr <= f
          /\ \A q \in Phys : smr_reverse_table[q].phy_status = FREE_PHY_BLOCK
                               <=> q \in cur_paddr .. f - 1
    BY <1>0 DEF FreeRun
  <2>2. p < f /\ f \in Int /\ p \in Int
    BY <1>1, <2>1, GeometryAssumption DEF p, Phys, TOTAL_SMR_BLOCKS_CNT
  <2>3. \A q \in Phys : smr_reverse_table'[q].phy_status = FREE_PHY_BLOCK
                         <=> q \in p + 1 .. f - 1
    <3>1. \A q \in Phys : q # p => smr_reverse_table'[q] = smr_reverse_table[q]
      BY <1>3, <1>5
    <3>2. smr_reverse_table'[p].phy_status # FREE_PHY_BLOCK
      BY <1>1, <1>3, <1>4, <1>5 DEF VALID_PHY_BLOCK, FREE_PHY_BLOCK
    <3>3. \A q \in Phys : q # p => (q \in p .. f - 1 <=> q \in p + 1 .. f - 1)
      BY <2>2 DEF Phys
    <3>. QED
      BY <2>1, <2>2, <3>1, <3>2, <3>3 DEF p
  <2>. QED
    BY <1>3, <2>1, <2>2, <2>3 DEF FreeRun
<1>. QED
  BY <1>8, <1>9, <1>10, <1>11, <1>12 DEF SmrInv

(* A band all of whose blocks are free, or valid up to the cursor and free *)
(* from there, leaves one free run when nothing else is free.              *)
LEMMA RunInBand ==
  ASSUME NEW b \in Bands, cur_paddr' \in BandStart(b) .. BandStart(b) + BLOCKS_PER_BAND,
         \A q \in Phys : smr_reverse_table'[q].phy_status = FREE_PHY_BLOCK
                         <=> q \in Band(b) /\ cur_paddr' <= q
  PROVE  FreeRun'
<1>. DEFINE f == BandStart(b) + BLOCKS_PER_BAND
<1>1. f = BandStart(b + 1) /\ f % BLOCKS_PER_BAND = 0
  <2>1. f = BandStart(b + 1)
    BY GeometryAssumption DEF Bands, BandStart
  <2>. QED
    BY <2>1, StartOfBand DEF Bands
<1>2. f \in Phys \cup {TOTAL_SMR_BLOCKS_CNT} /\ BandStart(b) \in Nat
  <2>1. BandStart(b) \in Phys /\ f <= TOTAL_SMR_BLOCKS_CNT
    BY BandBlocks
  <2>. QED
    BY <2>1, GeometryAssumption DEF Phys, TOTAL_SMR_BLOCKS_CNT
<1>3. \A q \in Phys : smr_reverse_table'[q].phy_status = FREE_PHY_BLOCK
                       <=> q \in cur_paddr' .. f - 1
  BY <1>2, GeometryAssumption DEF Band, Phys
<1>4. cur_paddr' <= f
  BY <1>2, GeometryAssumption
<1>. QED
  BY <1>1, <1>2, <1>3, <1>4 DEF FreeRun

(* A collection moves blocks on the disk and leaves the others alone.      *)
ElsewhereKept ==
  \A l \in Blocks : IF in_smr_disk(l) THEN in_smr_disk(l)'
                                      ELSE mapping_table'[l] = mapping_table[l]

LEMMA ReuseKeeps ==
  ASSUME SmrInv, gc_needed, NEW b \in fully_invalid_bands, reuse_invalid_band(b)
  PROVE  /\ SmrInv'
         /\ cur_paddr' \in Phys
         /\ smr_reverse_table'[cur_paddr'].phy_status = FREE_PHY_BLOCK
         /\ ElsewhereKept
<1>0. SmrTypeOK /\ MappingBijection /\ BandCounters /\ FullyInvalidExact /\ FreeRun
  BY DEF SmrInv
<1>1. /\ b \in Bands
      /\ \A q \in Band(b) : smr_reverse_table[q].phy_status = INVALID_PHY_BLOCK
  BY <1>0 DEF FullyInvalidExact
<1>2. /\ fully_invalid_bands' = fully_invalid_bands \ {b}
      /\ smr_reverse_table' = [q \in Phys |->
            IF q \in Band(b) THEN FreeEntry ELSE smr_reverse_table[q]]
      /\ phy_bands' = [phy_bands EXCEPT ![b] = FreeBand]
      /\ cur_paddr' = BandStart(b)
      /\ mapping_table' = mapping_table
      /\ data' = data
  BY DEF reuse_invalid_band
<1>3. BandStart(b) \in Phys /\ Band(b) \subseteq Phys /\ BandStart(b) \in Band(b)
  BY <1>1, BandBlocks, GeometryAssumption DEF Band, Phys
<1>4. FreeEntry \in ReverseEntry /\ FreeEntry.phy_status = FREE_PHY_BLOCK
  BY ZeroBlock DEF FreeEntry, ReverseEntry, PhyStatus
<1>5. smr_reverse_table \in [Phys -> ReverseEntry] /\ phy_bands \in [Bands -> BandInfo]
  BY <1>0 DEF SmrTypeOK
<1>6. \A q \in Band(b) : smr_reverse_table'[q].phy_status = FREE_PHY_BLOCK
  BY <1>2, <1>3, <1>4
<1>7. \A c \in Bands : c # b =>
        \A q \in Band(c) : smr_reverse_table'[q] = smr_reverse_table[q]
  BY <1>1, <1>2, BandUnique, BandBlocks
<1>8. BandCounters'
  <2>1. ASSUME NEW c \in Bands
        PROVE  phy_bands'[c] = Counted(smr_reverse_table', c)
    <3>1. CASE c = b
      <4>1. StatusCount(smr_reverse_table', b, FREE_PHY_BLOCK) = BLOCKS_PER_BAND
        BY <1>1, <1>6, FullCount
      <4>2. /\ StatusCount(smr_reverse_table', b, VALID_PHY_BLOCK) = 0
            /\ StatusCount(smr_reverse_table', b, INVALID_PHY_BLOCK) = 0
        BY <1>1, <1>6, NoneCounted DEF INVALID_PHY_BLOCK, VALID_PHY_BLOCK, FREE_PHY_BLOCK
      <4>3. phy_bands'[b] = FreeBand
        BY <1>1, <1>2, <1>5
      <4>. QED
        BY <3>1, <4>1, <4>2, <4>3 DEF Counted, FreeBand
    <3>2. CASE c # b
      <4>1. phy_bands'[c] = phy_bands[c]
        BY <1>2, <1>5, <3>2
      <4>2. Counted(smr_reverse_table', c) = Counted(smr_reverse_table, c)
        BY <1>7, <3>2, SameCounted
      <4>. QED
        BY <1>0, <4>1, <4>2 DEF BandCounters
    <3>. QED
      BY <3>1, <3>2
  <2>. QED
    BY <2>1 DEF BandCounters
<1>9. SmrTypeOK'
  <2>1. smr_reverse_table' \in [Phys -> ReverseEntry]
    BY <1>2, <1>4, <1>5
  <2>2. cur_paddr' \in 0 .. TOTAL_SMR_BLOCKS_CNT
    BY <1>2, <1>3, GeometryAssumption DEF Phys, TOTAL_SMR_BLOCKS_CNT
  <2>3. phy_bands' \in [Bands -> BandInfo]
    <3>1. FreeBand \in BandInfo
      BY GeometryAssumption DEF FreeBand, BandInfo
    <3>. QED
      BY <1>2, <1>5, <3>1
  <2>. QED
    BY <1>0, <1>2, <2>1, <2>2, <2>3 DEF SmrTypeOK
<1>10. MappingBijection'
  <2>1. ASSUME NEW l \in Blocks, in_smr_disk(l)'
        PROVE  /\ mapping_table'[l].paddr \in Phys
               /\ smr_reverse_table'[mapping_table'[l].paddr] =
                    [blk_no |-> l, phy_status |-> VALID_PHY_BLOCK]
    <3>1. /\ mapping_table[l].paddr \in Phys
          /\ smr_reverse_table[mapping_table[l].paddr] =
               [blk_no |-> l, phy_status |-> VALID_PHY_BLOCK]
      BY <1>0, <1>2, <2>1 DEF MappingBijection, in_smr_disk
    <3>2. mapping_table[l].paddr \notin Band(b)
      BY <1>1, <3>1 DEF INVALID_PHY_BLOCK, VALID_PHY_BLOCK
    <3>. QED
      BY <1>2, <3>1, <3>2
  <2>2. ASSUME NEW q \in Phys, smr_reverse_table'[q].phy_status = VALID_PHY_BLOCK
        PROVE  mapping_table'[smr_reverse_table'[q].blk_no] =
                 [flag |-> "IN_SMR_DISK", paddr |-> q]
    <3>1. q \notin Band(b)
      BY <1>6, <2>2 DEF VALID_PHY_BLOCK, FREE_PHY_BLOCK
    <3>. QED
      BY <1>0, <1>2, <2>2, <3>1 DEF MappingBijection
  <2>. QED
    BY <2>1, <2>2 DEF MappingBijection, in_smr_disk
<1>11. FullyInvalidExact'
  <2>1. ASSUME NEW c \in Bands
        PROVE  (\A q \in Band(c) : smr_reverse_table'[q].phy_status = INVALID_PHY_BLOCK)
               <=> c \in fully_invalid_bands \ {b}
    <3>1. CASE c = b
      BY <1>3, <1>6, <3>1 DEF INVALID_PHY_BLOCK, FREE_PHY_BLOCK
    <3>2. CASE c # b
      BY <1>0, <1>7, <3>2 DEF FullyInvalidExact
    <3>. QED
      BY <3>1, <3>2
  <2>2. fully_invalid_bands \ {b} \subseteq Bands
    BY <1>0 DEF SmrTypeOK
  <2>. QED
    BY <1>2, <2>1, <2>2 DEF FullyInvalidExact
<1>12. FreeRun'
  <2>1. \A q \in Phys : smr_reverse_table[q].phy_status # FREE_PHY_BLOCK
    BY NothingFree
  <2>2. \A q \in Band(b) : BandStart(b) <= q
    BY DEF Band
  <2>3. \A q \in Phys : smr_reverse_table'[q].phy_status = FREE_PHY_BLOCK
                         <=> q \in Band(b) /\ cur_paddr' <= q
    BY <1>2, <1>6, <2>1, <2>2
  <2>4. cur_paddr' \in BandStart(b) .. BandStart(b) + BLOCKS_PER_BAND
    BY <1>2, <1>3, GeometryAssumption DEF Phys
  <2>. QED
    BY <1>1, <2>3, <2>4, RunInBand
<1>13. ElsewhereKept
  BY <1>2 DEF ElsewhereKept, in_smr_disk
<1>. QED
  BY <1>2, <1>3, <1>6, <1>8, <1>9, <1>10, <1>11, <1>12, <1>13 DEF SmrInv

(* An entry of the mapping table, and one of the reverse table.            *)
OnDisk(p)     == [flag |-> "IN_SMR_DISK", paddr |-> p]
ValidEntry(k) == [blk_no |-> k, phy_status |-> VALID_PHY_BLOCK]

LEMMA OnDiskFields ==
  ASSUME NEW p
  PROVE  OnDisk(p).flag = "IN_SMR_DISK" /\ OnDisk(p).paddr = p
  BY DEF OnDisk

LEMMA OnDiskType ==
  ASSUME NEW p \in Nat
  PROVE  OnDisk(p) \in MappingEntry
  BY DEF OnDisk, MappingEntry

LEMMA ValidEntryFields ==
  ASSUME NEW k
  PROVE  ValidEntry(k).blk_no = k /\ ValidEntry(k).phy_status = VALID_PHY_BLOCK
  BY DEF ValidEntry

LEMMA ValidEntryType ==
  ASSUME NEW k \in Blocks
  PROVE  ValidEntry(k) \in ReverseEntry
  BY DEF ValidEntry, ReverseEntry, PhyStatus

(* do_gc_in_band moves the valid blocks of a band, one to one, onto the    *)
(* prefix of the band that its counter announces.                          *)
LEMMA CompactionMoves ==
  ASSUME SmrInv, NEW b \in Bands
  PROVE  /\ PrefixEnd(b) \in BandStart(b) .. BandStart(b) + BLOCKS_PER_BAND
         /\ \A p \in ValidIn(b) : Target(b, p) \in BandStart(b) .. PrefixEnd(b) - 1
         /\ \A p, q \in ValidIn(b) : Target(b, p) = Target(b, q) => p = q
         /\ \A q \in BandStart(b) .. PrefixEnd(b) - 1 :
              Moved(b, q) \in ValidIn(b) /\ Target(b, Moved(b, q)) = q
         /\ \A q \in Phys : Filled(b, q) <=> q \in BandStart(b) .. PrefixEnd(b) - 1
<1>. DEFINE V == ValidIn(b)
            n == Cardinality(V)
            s == BandStart(b)
            f == PrefixEnd(b)
<1>1. V \subseteq Band(b)
  BY DEF ValidIn
<1>2. IsFiniteSet(V) /\ n \in 0 .. BLOCKS_PER_BAND
  BY <1>1, PartOfBand
<1>3. s \in Nat /\ Band(b) \subseteq Int
  BY GeometryAssumption DEF Bands, BandStart, Band
<1>4. phy_bands[b].valid_cnt = n
  <2>1. phy_bands[b] = Counted(smr_reverse_table, b)
    BY DEF SmrInv, BandCounters
  <2>2. StatusCount(smr_reverse_table, b, VALID_PHY_BLOCK) = n
    BY DEF StatusCount, ValidIn
  <2>. QED
    BY <2>1, <2>2 DEF Counted
<1>5. f = s + n
  BY <1>4 DEF PrefixEnd
<1>6. \A p : Target(b, p) = s + Rank(V, p)
  BY DEF Target, Rank
<1>7. \A q : Filled(b, q) <=> q \in Band(b) /\ q < s + n
  BY DEF Filled
<1>. HIDE DEF V, n, s, f
<1>8. V \in SUBSET Int
  BY <1>1, <1>3
<1>9. /\ \A p \in V : Rank(V, p) \in 0 .. n - 1
      /\ \A p, q \in V : Rank(V, p) = Rank(V, q) => p = q
      /\ \A m \in 0 .. n - 1 : \E p \in V : Rank(V, p) = m
  BY <1>2, <1>8, RankBijection DEF n
<1>10. \A p \in V : Target(b, p) \in s .. f - 1
  BY <1>5, <1>2, <1>3, <1>6, <1>9, GeometryAssumption
<1>11. \A p, q \in V : Target(b, p) = Target(b, q) => p = q
  BY <1>2, <1>3, <1>6, <1>9, GeometryAssumption
<1>12. ASSUME NEW q \in s .. f - 1
       PROVE  Moved(b, q) \in V /\ Target(b, Moved(b, q)) = q
  <2>1. q - s \in 0 .. n - 1
    BY <1>5, <1>2, <1>3, GeometryAssumption
  <2>2. PICK p \in V : Rank(V, p) = q - s
    BY <1>9, <2>1
  <2>3. Target(b, p) = q
    BY <1>3, <1>6, <2>2
  <2>. QED
    BY <2>3 DEF Moved, V
<1>13. f \in s .. s + BLOCKS_PER_BAND
  BY <1>5, <1>2, <1>3, GeometryAssumption
<1>14. \A q \in Phys : Filled(b, q) <=> q \in s .. f - 1
  BY <1>5, <1>2, <1>3, <1>7, GeometryAssumption DEF Band, Phys, s
<1>. QED
  BY <1>10, <1>11, <1>12, <1>13, <1>14 DEF V, s, f

LEMMA CompactKeeps ==
  ASSUME SmrInv, gc_needed, fully_invalid_bands = {},
         NEW b \in Bands, phy_bands[b].invalid_cnt # 0, do_gc_in_band(b)
  PROVE  /\ SmrInv'
         /\ cur_paddr' \in Phys
         /\ smr_reverse_table'[cur_paddr'].phy_status = FREE_PHY_BLOCK
         /\ ElsewhereKept
<1>. DEFINE s == BandStart(b)
            f == PrefixEnd(b)
            t == s + BLOCKS_PER_BAND
            V == ValidIn(b)
            Prefix == s .. f - 1
<1>0. SmrTypeOK /\ MappingBijection /\ BandCounters /\ FullyInvalidExact /\ FreeRun
  BY DEF SmrInv
<1>1. /\ mapping_table' = CompactedMapping(b)
      /\ smr_reverse_table' = CompactedReverse(b)
      /\ data' = CompactedData(b)
      /\ phy_bands' = [phy_bands EXCEPT ![b] = BandCompacted(@)]
      /\ cur_paddr' = f
      /\ fully_invalid_bands' = {}
  BY DEF do_gc_in_band
<1>2. /\ f \in s .. t
      /\ \A p \in V : Target(b, p) \in Prefix
      /\ \A p, q \in V : Target(b, p) = Target(b, q) => p = q
      /\ \A q \in Prefix : Moved(b, q) \in V /\ Target(b, Moved(b, q)) = q
      /\ \A q \in Phys : Filled(b, q) <=> q \in Prefix
  BY CompactionMoves
<1>3. /\ s \in Phys /\ s \in Nat /\ t \in Nat
      /\ t <= TOTAL_SMR_BLOCKS_CNT /\ TOTAL_SMR_BLOCKS_CNT \in Nat
      /\ Band(b) \subseteq Phys
  BY BandBlocks, GeometryAssumption DEF Phys, TOTAL_SMR_BLOCKS_CNT
<1>4. Band(b) = s .. t - 1
  BY <1>3, GeometryAssumption DEF Band
<1>5. smr_reverse_table \in [Phys -> ReverseEntry] /\ phy_bands \in [Bands -> BandInfo]
      /\ mapping_table \in [Blocks -> MappingEntry]
  BY <1>0 DEF SmrTypeOK
<1>6. phy_bands[b] = Counted(smr_reverse_table, b) /\ phy_bands[b] \in BandInfo
  BY <1>0, <1>5 DEF BandCounters
<1>7. f = s + phy_bands[b].valid_cnt
  BY DEF PrefixEnd
<1>8. V \subseteq Band(b)
      /\ \A p \in Band(b) : p \in V <=> smr_reverse_table[p].phy_status = VALID_PHY_BLOCK
  BY DEF ValidIn
(* Some block of the band is invalid, and so the prefix is shorter than    *)
(* the band.                                                               *)
<1>9. f < t
  <2>1. phy_bands[b].valid_cnt # BLOCKS_PER_BAND
    <3>1. SUFFICES ASSUME phy_bands[b].valid_cnt = BLOCKS_PER_BAND PROVE FALSE
      OBVIOUS
    <3>2. \A p \in Band(b) : smr_reverse_table[p].phy_status = VALID_PHY_BLOCK
      BY <1>6, <3>1, FullCount DEF Counted
    <3>3. StatusCount(smr_reverse_table, b, INVALID_PHY_BLOCK) = 0
      BY <3>2, NoneCounted DEF INVALID_PHY_BLOCK, VALID_PHY_BLOCK
    <3>. QED
      BY <1>6, <3>3 DEF Counted
  <2>. QED
    BY <1>3, <1>6, <1>7, <2>1, GeometryAssumption DEF BandInfo
<1>. HIDE DEF s, f, t, V
<1>10. f \in Phys /\ f \in Int
  BY <1>2, <1>3, <1>9 DEF Phys
<1>11. FreeEntry \in ReverseEntry /\ FreeEntry.phy_status = FREE_PHY_BLOCK
  BY ZeroBlock DEF FreeEntry, ReverseEntry, PhyStatus
(* The new reverse table, part by part.                                    *)
<1>12. /\ \A q \in Phys : q \notin Band(b) => smr_reverse_table'[q] = smr_reverse_table[q]
       /\ \A q \in Prefix : smr_reverse_table'[q] =
            ValidEntry(smr_reverse_table[Moved(b, q)].blk_no)
       /\ \A q \in f .. t - 1 : smr_reverse_table'[q] = FreeEntry
  <2>1. ASSUME NEW q \in Phys
        PROVE  smr_reverse_table'[q] =
                 IF q \in Band(b) /\ q >= f THEN FreeEntry
                 ELSE IF Filled(b, q)
                      THEN ValidEntry(smr_reverse_table[Moved(b, q)].blk_no)
                 ELSE smr_reverse_table[q]
    BY <1>1 DEF CompactedReverse, f, ValidEntry
  <2>2. ASSUME NEW q \in Phys, q \notin Band(b)
        PROVE  smr_reverse_table'[q] = smr_reverse_table[q]
    <3>1. q \notin Prefix
      BY <1>3, <1>4, <1>9, <1>10, <2>2 DEF Phys
    <3>. QED
      BY <1>2, <2>1, <2>2, <3>1
  <2>3. ASSUME NEW q \in Prefix
        PROVE  smr_reverse_table'[q] =
            ValidEntry(smr_reverse_table[Moved(b, q)].blk_no)
    <3>1. q \in Phys /\ ~ (q >= f)
      BY <1>3, <1>9, <1>10 DEF Phys
    <3>. QED
      BY <1>2, <2>1, <3>1
  <2>4. ASSUME NEW q \in f .. t - 1
        PROVE  smr_reverse_table'[q] = FreeEntry
    <3>1. q \in Band(b) /\ q >= f
      BY <1>2, <1>3, <1>4, <1>10
    <3>. QED
      BY <1>3, <2>1, <3>1
  <2>. QED
    BY <2>2, <2>3, <2>4
<1>13. \A q \in Band(b) : /\ q \in Prefix \/ q \in f .. t - 1
                          /\ ~ (q \in Prefix /\ q \in f .. t - 1)
  BY <1>2, <1>3, <1>4, <1>10
<1>14. Prefix \subseteq Band(b) /\ f .. t - 1 \subseteq Band(b)
  BY <1>2, <1>3, <1>4, <1>9, <1>10
<1>15. \A q \in Band(b) : smr_reverse_table'[q].phy_status =
          IF q \in Prefix THEN VALID_PHY_BLOCK ELSE FREE_PHY_BLOCK
  BY <1>11, <1>12, <1>13, ValidEntryFields
<1>16. BandCounters'
  <2>1. ASSUME NEW c \in Bands
        PROVE  phy_bands'[c] = Counted(smr_reverse_table', c)
    <3>1. CASE c = b
      <4>1. StatusCount(smr_reverse_table', b, VALID_PHY_BLOCK) = phy_bands[b].valid_cnt
        <5>1. {q \in Band(b) : smr_reverse_table'[q].phy_status = VALID_PHY_BLOCK} = Prefix
          BY <1>14, <1>15 DEF VALID_PHY_BLOCK, FREE_PHY_BLOCK
        <5>2. Cardinality(Prefix) = f - s
          <6>1. f - 1 \in Int /\ s \in Int /\ s <= f
            BY <1>2, <1>3, <1>10
          <6>2. Cardinality(s .. f - 1) = IF s > f - 1 THEN 0 ELSE f - 1 - s + 1
            BY <6>1, FS_Interval
          <6>. QED
            BY <6>1, <6>2, <1>10
        <5>3. f - s = phy_bands[b].valid_cnt
          BY <1>3, <1>6, <1>7, GeometryAssumption DEF BandInfo
        <5>. QED
          BY <5>1, <5>2, <5>3 DEF StatusCount
      <4>2. StatusCount(smr_reverse_table', b, FREE_PHY_BLOCK)
              = BLOCKS_PER_BAND - phy_bands[b].valid_cnt
        <5>1. {q \in Band(b) : smr_reverse_table'[q].phy_status = FREE_PHY_BLOCK} = f .. t - 1
          BY <1>13, <1>14, <1>15 DEF VALID_PHY_BLOCK, FREE_PHY_BLOCK
        <5>2. Cardinality(f .. t - 1) = t - f
          <6>1. t - 1 \in Int /\ ~ (f > t - 1)
            BY <1>3, <1>9, <1>10
          <6>2. Cardinality(f .. t - 1) = IF f > t - 1 THEN 0 ELSE t - 1 - f + 1
            BY <6>1, <1>10, FS_Interval
          <6>. QED
            BY <6>1, <6>2, <1>3, <1>10
        <5>3. t - f = BLOCKS_PER_BAND - phy_bands[b].valid_cnt
          BY <1>3, <1>6, <1>7, GeometryAssumption DEF BandInfo, t
        <5>. QED
          BY <5>1, <5>2, <5>3 DEF StatusCount
      <4>3. StatusCount(smr_reverse_table', b, INVALID_PHY_BLOCK) = 0
        BY <1>15, NoneCounted DEF INVALID_PHY_BLOCK, VALID_PHY_BLOCK, FREE_PHY_BLOCK
      <4>4. phy_bands'[b] = BandCompacted(phy_bands[b])
        BY <1>1, <1>5
      <4>. QED
        BY <3>1, <4>1, <4>2, <4>3, <4>4 DEF Counted, BandCompacted
    <3>2. CASE c # b
      <4>1. phy_bands'[c] = phy_bands[c]
        BY <1>1, <1>5, <3>2
      <4>2. \A q \in Band(c) : q \in Phys /\ q \notin Band(b)
        BY <3>2, BandBlocks, BandUnique
      <4>3. Counted(smr_reverse_table', c) = Counted(smr_reverse_table, c)
        BY <1>12, <4>2, SameCounted
      <4>. QED
        BY <1>0, <4>1, <4>3 DEF BandCounters
    <3>. QED
      BY <3>1, <3>2
  <2>. QED
    BY <2>1 DEF BandCounters
(* Where the blocks that live in the band are mapped, and the others.      *)
<1>17. ASSUME NEW p \in V
       PROVE  /\ smr_reverse_table[p].blk_no \in Blocks
              /\ mapping_table[smr_reverse_table[p].blk_no] = OnDisk(p)
  <2>1. p \in Phys /\ smr_reverse_table[p].phy_status = VALID_PHY_BLOCK
    BY <1>3, <1>8
  <2>. QED
    BY <1>0, <1>5, <2>1 DEF MappingBijection, ReverseEntry, OnDisk
<1>18. ASSUME NEW p \in V
       PROVE  mapping_table'[smr_reverse_table[p].blk_no] = OnDisk(Target(b, p))
  <2>. DEFINE k == smr_reverse_table[p].blk_no
              c == CHOOSE q \in V : smr_reverse_table[q].blk_no = k
  <2>1. \A q \in V : smr_reverse_table[q].blk_no = k => q = p
    <3>1. ASSUME NEW q \in V, smr_reverse_table[q].blk_no = k
          PROVE  q = p
      <4>1. OnDisk(q) = OnDisk(p)
        BY <1>17, <3>1
      <4>. QED
        BY <4>1, OnDiskFields
    <3>. QED
      BY <3>1
  <2>2. c = p
    BY <2>1
  <2>3. k \in Blocks
    BY <1>17
  <2>4. mapping_table'[k] = OnDisk(Target(b, c))
    <3>1. mapping_table'[k] = CompactedMapping(b)[k]
      BY <1>1
    <3>2. CompactedMapping(b)[k] =
            IF \E q \in V : smr_reverse_table[q].blk_no = k
            THEN OnDisk(Target(b, c))
            ELSE mapping_table[k]
      BY <2>3 DEF CompactedMapping, V, OnDisk
    <3>. QED
      BY <3>1, <3>2
  <2>. QED
    BY <2>2, <2>4
<1>19. ASSUME NEW l \in Blocks, \A p \in V : smr_reverse_table[p].blk_no # l
       PROVE  mapping_table'[l] = mapping_table[l]
  BY <1>1, <1>19 DEF CompactedMapping, V
<1>20. SmrTypeOK'
  <2>1. smr_reverse_table' \in [Phys -> ReverseEntry]
    <3>1. ASSUME NEW q \in Phys
          PROVE  smr_reverse_table'[q] \in ReverseEntry
      <4>1. CASE q \notin Band(b)
        BY <1>5, <1>12, <4>1
      <4>2. CASE q \in Prefix
        <5>1. smr_reverse_table[Moved(b, q)].blk_no \in Blocks
          BY <1>2, <1>17, <4>2
        <5>. QED
          BY <1>12, <4>2, <5>1, ValidEntryType
      <4>3. CASE q \in f .. t - 1
        BY <1>11, <1>12, <4>3
      <4>. QED
        BY <1>13, <4>1, <4>2, <4>3
    <3>. QED
      BY <1>1, <3>1 DEF CompactedReverse
  <2>2. mapping_table' \in [Blocks -> MappingEntry]
    <3>1. ASSUME NEW l \in Blocks
          PROVE  mapping_table'[l] \in MappingEntry
      <4>1. CASE \E p \in V : smr_reverse_table[p].blk_no = l
        <5>1. PICK p \in V : smr_reverse_table[p].blk_no = l
          BY <4>1
        <5>2. Target(b, p) \in Nat
          BY <1>2, <1>3, <1>10
        <5>. QED
          BY <1>18, <5>1, <5>2, OnDiskType
      <4>2. CASE \A p \in V : smr_reverse_table[p].blk_no # l
        BY <1>5, <1>19, <4>2
      <4>. QED
        BY <4>1, <4>2
    <3>. QED
      BY <1>1, <3>1 DEF CompactedMapping
  <2>3. cur_paddr' \in 0 .. TOTAL_SMR_BLOCKS_CNT
    BY <1>1, <1>10, GeometryAssumption DEF Phys, TOTAL_SMR_BLOCKS_CNT
  <2>4. phy_bands' \in [Bands -> BandInfo]
    <3>1. \A c \in Bands : phy_bands'[c] \in BandInfo
      <4>1. \A c \in Bands : phy_bands'[c] = Counted(smr_reverse_table', c)
        BY <1>16 DEF BandCounters
      <4>. QED
        BY <4>1, CountedType
    <3>. QED
      BY <1>1, <1>5, <3>1
  <2>5. data' \in [Phys -> Data \cup {Blank}]
    <3>1. data \in [Phys -> Data \cup {Blank}]
      BY <1>0 DEF SmrTypeOK
    <3>2. ASSUME NEW q \in Phys
          PROVE  CompactedData(b)[q] \in Data \cup {Blank}
      <4>1. Filled(b, q) => Moved(b, q) \in Phys
        BY <1>2, <1>3, <1>8
      <4>2. CompactedData(b)[q] = IF Filled(b, q) /\ q < PrefixEnd(b) THEN data[Moved(b, q)]
                                                                    ELSE data[q]
        BY DEF CompactedData
      <4>. QED
        BY <3>1, <4>1, <4>2
    <3>. QED
      BY <1>1, <3>2 DEF CompactedData
  <2>. QED
    BY <1>1, <2>1, <2>2, <2>3, <2>4, <2>5 DEF SmrTypeOK
<1>21. MappingBijection'
  <2>1. ASSUME NEW l \in Blocks, in_smr_disk(l)'
        PROVE  /\ mapping_table'[l].paddr \in Phys
               /\ smr_reverse_table'[mapping_table'[l].paddr] =
                    [blk_no |-> l, phy_status |-> VALID_PHY_BLOCK]
    <3>1. CASE \E p \in V : smr_reverse_table[p].blk_no = l
      <4>1. PICK p \in V : smr_reverse_table[p].blk_no = l
        BY <3>1
      <4>2. mapping_table'[l].paddr = Target(b, p)
        BY <1>18, <4>1, OnDiskFields
      <4>3. Target(b, p) \in Prefix /\ Moved(b, Target(b, p)) = p
        BY <1>2
      <4>4. smr_reverse_table'[Target(b, p)] = ValidEntry(l)
        BY <1>12, <4>1, <4>3
      <4>. QED
        BY <1>3, <1>14, <4>2, <4>3, <4>4 DEF ValidEntry
    <3>2. CASE \A p \in V : smr_reverse_table[p].blk_no # l
      <4>1. mapping_table'[l] = mapping_table[l] /\ in_smr_disk(l)
        BY <1>19, <2>1, <3>2 DEF in_smr_disk
      <4>2. /\ mapping_table[l].paddr \in Phys
            /\ smr_reverse_table[mapping_table[l].paddr] =
                 [blk_no |-> l, phy_status |-> VALID_PHY_BLOCK]
        BY <1>0, <4>1 DEF MappingBijection
      <4>3. mapping_table[l].paddr \notin Band(b)
        BY <1>8, <3>2, <4>2
      <4>. QED
        BY <1>12, <4>1, <4>2, <4>3
    <3>. QED
      BY <3>1, <3>2
  <2>2. ASSUME NEW q \in Phys, smr_reverse_table'[q].phy_status = VALID_PHY_BLOCK
        PROVE  mapping_table'[smr_reverse_table'[q].blk_no] =
                 [flag |-> "IN_SMR_DISK", paddr |-> q]
    <3>1. CASE q \in Band(b)
      <4>1. q \in Prefix
        BY <1>15, <2>2, <3>1 DEF VALID_PHY_BLOCK, FREE_PHY_BLOCK
      <4>2. /\ smr_reverse_table'[q].blk_no = smr_reverse_table[Moved(b, q)].blk_no
            /\ Moved(b, q) \in V
            /\ Target(b, Moved(b, q)) = q
        BY <1>2, <1>12, <4>1, ValidEntryFields
      <4>. QED
        BY <1>18, <4>2 DEF OnDisk
    <3>2. CASE q \notin Band(b)
      <4>1. smr_reverse_table'[q] = smr_reverse_table[q]
        BY <1>12, <3>2
      <4>2. mapping_table[smr_reverse_table[q].blk_no] = [flag |-> "IN_SMR_DISK", paddr |-> q]
        BY <1>0, <2>2, <4>1 DEF MappingBijection
      <4>3. \A p \in V : smr_reverse_table[p].blk_no # smr_reverse_table[q].blk_no
        <5>1. ASSUME NEW p \in V, smr_reverse_table[p].blk_no = smr_reverse_table[q].blk_no
              PROVE  FALSE
          <6>1. OnDisk(q) = OnDisk(p)
            BY <1>17, <4>2, <5>1 DEF OnDisk
          <6>2. q = p
            BY <6>1, OnDiskFields
          <6>. QED
            BY <1>8, <3>2, <6>2
        <5>. QED
          BY <5>1
      <4>4. smr_reverse_table[q].blk_no \in Blocks
        BY <1>5 DEF ReverseEntry
      <4>. QED
        BY <1>19, <4>1, <4>2, <4>3, <4>4
    <3>. QED
      BY <3>1, <3>2
  <2>. QED
    BY <2>1, <2>2 DEF MappingBijection, in_smr_disk
<1>22. FullyInvalidExact'
  <2>1. ASSUME NEW c \in Bands
        PROVE  \E q \in Band(c) : smr_reverse_table'[q].phy_status # INVALID_PHY_BLOCK
    <3>1. CASE c = b
      <4>1. s \in Band(b)
        BY <1>2, <1>3, <1>4, <1>9, <1>10
      <4>. QED
        BY <1>15, <3>1, <4>1 DEF INVALID_PHY_BLOCK, VALID_PHY_BLOCK, FREE_PHY_BLOCK
    <3>2. CASE c # b
      <4>1. PICK q \in Band(c) : smr_reverse_table[q].phy_status # INVALID_PHY_BLOCK
        BY <1>0 DEF FullyInvalidExact
      <4>2. q \in Phys /\ q \notin Band(b)
        BY <3>2, BandBlocks, BandUnique
      <4>. QED
        BY <1>12, <4>1, <4>2
    <3>. QED
      BY <3>1, <3>2
  <2>. QED
    BY <1>1, <2>1 DEF FullyInvalidExact
<1>23. FreeRun'
  <2>1. \A q \in Phys : smr_reverse_table[q].phy_status # FREE_PHY_BLOCK
    BY NothingFree
  <2>2. ASSUME NEW q \in Phys
        PROVE  smr_reverse_table'[q].phy_status = FREE_PHY_BLOCK <=> q \in Band(b) /\ f <= q
    <3>1. CASE q \notin Band(b)
      BY <1>12, <2>1, <3>1
    <3>2. CASE q \in Band(b)
      <4>1. q \in Prefix <=> ~ (f <= q)
        BY <1>3, <1>4, <1>10, <3>2
      <4>. QED
        BY <1>15, <3>2, <4>1 DEF VALID_PHY_BLOCK, FREE_PHY_BLOCK
    <3>. QED
      BY <3>1, <3>2
  <2>3. cur_paddr' \in BandStart(b) .. BandStart(b) + BLOCKS_PER_BAND
    BY <1>1, <1>2 DEF s, t
  <2>. QED
    BY <1>1, <2>2, <2>3, RunInBand
<1>24. smr_reverse_table'[f].phy_status = FREE_PHY_BLOCK
  <2>1. f \in f .. t - 1
    BY <1>3, <1>9, <1>10
  <2>. QED
    BY <1>11, <1>12, <2>1
<1>25. ElsewhereKept
  <2>1. ASSUME NEW l \in Blocks, in_smr_disk(l)
        PROVE  in_smr_disk(l)'
    <3>1. CASE \E p \in V : smr_reverse_table[p].blk_no = l
      BY <1>18, <3>1, OnDiskFields DEF in_smr_disk
    <3>2. CASE \A p \in V : smr_reverse_table[p].blk_no # l
      BY <1>19, <2>1, <3>2 DEF in_smr_disk
    <3>. QED
      BY <3>1, <3>2
  <2>2. ASSUME NEW l \in Blocks, ~in_smr_disk(l)
        PROVE  mapping_table'[l] = mapping_table[l]
    <3>1. \A p \in V : smr_reverse_table[p].blk_no # l
      BY <1>17, <2>2, OnDiskFields DEF in_smr_disk
    <3>. QED
      BY <1>19, <3>1
  <2>. QED
    BY <2>1, <2>2 DEF ElsewhereKept
<1>. QED
  BY <1>1, <1>10, <1>16, <1>20, <1>21, <1>22, <1>23, <1>24, <1>25 DEF SmrInv

----------------------------------------------------------------------------
(* Garbage collection finds room.                                          *)

(* Logical and physical blocks are equally many, so when a block has no    *)
(* place on the disk and no place is free, some place is invalid.          *)
LEMMA SomeInvalid ==
  ASSUME SmrInv, \A p \in Phys : smr_reverse_table[p].phy_status # FREE_PHY_BLOCK,
         NEW k \in Blocks, ~in_smr_disk(k)
  PROVE  \E p \in Phys : smr_reverse_table[p].phy_status = INVALID_PHY_BLOCK
<1>1. SUFFICES ASSUME \A p \in Phys : smr_reverse_table[p].phy_status # INVALID_PHY_BLOCK
               PROVE  FALSE
  OBVIOUS
<1>. DEFINE f == [p \in Phys |-> smr_reverse_table[p].blk_no]
<1>2. SmrTypeOK /\ MappingBijection
  BY DEF SmrInv
<1>3. ASSUME NEW p \in Phys
      PROVE  f[p] \in Blocks /\ mapping_table[f[p]] = OnDisk(p)
  <2>1. smr_reverse_table[p] \in ReverseEntry
    BY <1>2 DEF SmrTypeOK
  <2>2. smr_reverse_table[p].phy_status = VALID_PHY_BLOCK
    BY <1>1, <2>1 DEF ReverseEntry, PhyStatus
  <2>. QED
    BY <1>2, <2>1, <2>2 DEF MappingBijection, ReverseEntry, OnDisk
<1>4. f \in [Phys -> Blocks \ {k}]
  <2>1. \A p \in Phys : f[p] # k
    BY <1>3, OnDiskFields DEF in_smr_disk
  <2>. QED
    BY <1>3, <2>1
<1>5. \A p, q \in Phys : f[p] = f[q] => p = q
  BY <1>3, OnDiskFields
<1>6. /\ IsFiniteSet(Phys) /\ Cardinality(Phys) = TOTAL_SMR_BLOCKS_CNT
      /\ TOTAL_SMR_BLOCKS_CNT \in Nat
  <2>1. TOTAL_SMR_BLOCKS_CNT \in Nat \ {0}
    BY GeometryAssumption DEF TOTAL_SMR_BLOCKS_CNT
  <2>. HIDE DEF TOTAL_SMR_BLOCKS_CNT
  <2>2. /\ IsFiniteSet(0 .. TOTAL_SMR_BLOCKS_CNT - 1)
        /\ Cardinality(0 .. TOTAL_SMR_BLOCKS_CNT - 1) =
             IF 0 > TOTAL_SMR_BLOCKS_CNT - 1 THEN 0 ELSE TOTAL_SMR_BLOCKS_CNT - 1 - 0 + 1
    BY <2>1, FS_Interval
  <2>. QED
    BY <2>1, <2>2 DEF Phys
<1>7. IsFiniteSet(Blocks \ {k}) /\ Cardinality(Blocks \ {k}) = TOTAL_SMR_BLOCKS_CNT - 1
  BY <1>6, ZeroBlock, FS_RemoveElement
<1>8. Cardinality(Blocks \ {k}) < Cardinality(Phys)
  BY <1>6, <1>7
<1>. HIDE DEF f
<1>9. \E p, q \in Phys : p # q /\ f[p] = f[q]
  BY <1>4, <1>6, <1>7, <1>8, FS_PigeonHole
<1>. QED
  BY <1>5, <1>9

LEMMA VictimHasInvalid ==
  ASSUME SmrInv, gc_needed, NEW k \in Blocks, ~in_smr_disk(k)
  PROVE  Victim \in Bands /\ phy_bands[Victim].invalid_cnt # 0
<1>. DEFINE f == [b \in Bands |-> phy_bands[b].invalid_cnt]
<1>1. phy_bands \in [Bands -> BandInfo]
  BY DEF SmrInv, SmrTypeOK
<1>2. f \in [Bands -> 0 .. BLOCKS_PER_BAND]
  BY <1>1 DEF BandInfo
<1>3. \E b \in Bands : \A c \in Bands : f[c] <= f[b] /\ (c < b => f[c] < f[b])
  BY <1>2, FirstGreatest
<1>4. \E b \in Bands : \A c \in Bands :
        /\ phy_bands[c].invalid_cnt <= phy_bands[b].invalid_cnt
        /\ c < b => phy_bands[c].invalid_cnt < phy_bands[b].invalid_cnt
  BY <1>3
<1>5. /\ Victim \in Bands
      /\ \A c \in Bands : phy_bands[c].invalid_cnt <= phy_bands[Victim].invalid_cnt
  BY <1>4 DEF Victim
<1>6. PICK p \in Phys : smr_reverse_table[p].phy_status = INVALID_PHY_BLOCK
  BY NothingFree, SomeInvalid
<1>7. PICK c \in Bands : p \in Band(c)
  BY BandOfBlock
<1>8. phy_bands[c].invalid_cnt # 0
  <2>. DEFINE S == {q \in Band(c) : smr_reverse_table[q].phy_status = INVALID_PHY_BLOCK}
  <2>1. Cardinality(S) # 0
    BY <1>6, <1>7, PartOfBand
  <2>2. phy_bands[c] = Counted(smr_reverse_table, c)
    BY DEF SmrInv, BandCounters
  <2>. QED
    BY <2>1, <2>2 DEF Counted, StatusCount
<1>9. /\ phy_bands[c].invalid_cnt \in 0 .. BLOCKS_PER_BAND
      /\ phy_bands[Victim].invalid_cnt \in 0 .. BLOCKS_PER_BAND
  BY <1>1, <1>5 DEF BandInfo
<1>. QED
  BY <1>5, <1>8, <1>9, GeometryAssumption

LEMMA CollectKeeps ==
  ASSUME SmrInv, gc_needed, NEW k \in Blocks, ~in_smr_disk(k), garbage_collecting
  PROVE  /\ SmrInv'
         /\ cur_paddr' \in Phys
         /\ smr_reverse_table'[cur_paddr'].phy_status = FREE_PHY_BLOCK
         /\ ElsewhereKept
<1>1. CASE fully_invalid_bands # {}
  <2>1. fully_invalid_bands \subseteq Nat
    BY DEF SmrInv, SmrTypeOK, Bands
  <2>2. Min(fully_invalid_bands) \in fully_invalid_bands
    BY <1>1, <2>1, MinOfNats
  <2>3. reuse_invalid_band(Min(fully_invalid_bands))
    BY <1>1 DEF garbage_collecting
  <2>. QED
    BY <2>2, <2>3, ReuseKeeps
<1>2. CASE fully_invalid_bands = {}
  <2>1. do_gc_in_band(Victim)
    BY <1>2 DEF garbage_collecting
  <2>. QED
    BY <1>2, <2>1, VictimHasInvalid, CompactKeeps
<1>. QED
  BY <1>1, <1>2

============================================================================
