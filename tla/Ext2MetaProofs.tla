--------------------------- MODULE Ext2MetaProofs ---------------------------
(***************************************************************************)
(* What is proved of the detector: its tables are well-formed and its      *)
(* flags agree with its vectors, whatever the host writes (the proofs rest *)
(* on DetectorAssumption and HostAssumption); and on a disk that only ever *)
(* holds one file system it finds exactly that (LayoutAssumption and       *)
(* WritesAssumption).                                                      *)
(***************************************************************************)
EXTENDS Ext2Layout, FiniteSetTheorems, TLAPS

----------------------------------------------------------------------------
(* The flags.                                                              *)

Flags == Range(idx_2_flag)

LEMMA FlagNames ==
  /\ \A n \in DOMAIN idx_2_flag : n \in 1 .. 5 /\ idx_2_flag[n] \in Flags
  /\ \A v \in Flags : v # "none" /\ v # "TMP_IDX" /\ v \in Vectors
<1>1. idx_2_flag = <<"SB_IDX", "BG_DESC_IDX", "INO_TABLE_IDX", "INO_BMP_IDX", "BLK_BMP_IDX">>
  BY DEF idx_2_flag
<1>2. /\ DOMAIN idx_2_flag = 1 .. 5
      /\ \A n \in 1 .. 5 : idx_2_flag[n] # "none" /\ idx_2_flag[n] # "TMP_IDX"
  BY <1>1
<1>. QED
  BY <1>2 DEF Flags, Range, Vectors

LEMMA VectorNames ==
  /\ Flags = {"SB_IDX", "BG_DESC_IDX", "INO_TABLE_IDX", "INO_BMP_IDX", "BLK_BMP_IDX"}
  /\ Vectors = Flags \cup {"TMP_IDX"}
<1>1. idx_2_flag = <<"SB_IDX", "BG_DESC_IDX", "INO_TABLE_IDX", "INO_BMP_IDX", "BLK_BMP_IDX">>
  BY DEF idx_2_flag
<1>2. DOMAIN idx_2_flag = {1, 2, 3, 4, 5}
  BY <1>1
<1>3. Flags = {idx_2_flag[n] : n \in {1, 2, 3, 4, 5}}
  BY <1>2 DEF Flags, Range
<1>. QED
  BY <1>1, <1>3 DEF Vectors, Flags

(* A nonempty set of indexes has a greatest one.                           *)
LEMMA MaxOfIndexes ==
  ASSUME NEW S \in SUBSET (1 .. 5), S # {}
  PROVE  Max(S) \in S
<1>1. \E x \in S : \A y \in S : x >= y
  <2>1. \A y \in S : y \in {1, 2, 3, 4, 5}
    OBVIOUS
  <2>2. CASE 5 \in S
    BY <2>1, <2>2
  <2>3. CASE 5 \notin S /\ 4 \in S
    BY <2>1, <2>3
  <2>4. CASE 5 \notin S /\ 4 \notin S /\ 3 \in S
    BY <2>1, <2>4
  <2>5. CASE 5 \notin S /\ 4 \notin S /\ 3 \notin S
    <3>1. \A y \in S : y \in {1, 2}
      BY <2>1, <2>5
    <3>2. CASE 2 \in S
      BY <3>1, <3>2
    <3>3. CASE 2 \notin S
      <4>1. 1 \in S /\ \A y \in S : y = 1
        BY <3>1, <3>3
      <4>. QED
        BY <4>1
    <3>. QED
      BY <3>2, <3>3
  <2>. QED
    BY <2>2, <2>3, <2>4, <2>5
<1>. QED
  BY <1>1 DEF Max

(* The flags and the vectors are tables.                                   *)
TablesOK == /\ DOMAIN meta_blks = Vectors
            /\ meta_blks = [v \in Vectors |-> meta_blks[v]]
            /\ meta_flag \in [Blocks -> Flags \cup {"none"}]

FlagInv == TablesOK /\ FlagsFollowStatus

(* Without a file system no block is flagged.                              *)
LEMMA NoneFlagged ==
  ASSUME FlagInv, status # "EXT2_DETECTED", NEW k \in Blocks
  PROVE  meta_flag[k] = "none"
  BY DEF FlagInv, FlagsFollowStatus

(* A step that ends without one, and flags nothing.                        *)
LEMMA StaysUnflagged ==
  ASSUME FlagInv, status # "EXT2_DETECTED", status' # "EXT2_DETECTED",
         meta_flag' = meta_flag, DOMAIN meta_blks' = Vectors,
         meta_blks' = [v \in Vectors |-> meta_blks'[v]]
  PROVE  FlagInv'
<1>1. \A k \in Blocks : meta_flag'[k] = "none"
  BY NoneFlagged
<1>. QED
  BY <1>1 DEF FlagInv, TablesOK, FlagsFollowStatus

LEMMA MetaUnchanged ==
  ASSUME FlagInv, UNCHANGED meta
  PROVE  FlagInv'
  BY DEF FlagInv, TablesOK, FlagsFollowStatus, meta

LEMMA CallKeeps ==
  ASSUME FlagInv, NEW w \in Writes, Call(w)
  PROVE  FlagInv'
<1>1. CASE UNCHANGED meta
  BY <1>1, MetaUnchanged
<1>2. CASE status = "EXT2_DETECTED" /\ HitSuperBlock(w[2]) /\ UNCHANGED meta_blks
  <2>1. CASE UNCHANGED <<status, meta_flag>>
    BY <1>2, <2>1 DEF FlagInv, TablesOK, FlagsFollowStatus
  <2>2. CASE status' = "NO_SB0" /\ meta_flag' = CleanedFlags
    <3>1. ASSUME NEW k \in Blocks
          PROVE  meta_flag'[k] = "none"
      BY <2>2 DEF FlagInv, FlagsFollowStatus, CleanedFlags
    <3>2. meta_flag' \in [Blocks -> Flags \cup {"none"}]
      <4>1. meta_flag' = [k \in Blocks |-> meta_flag'[k]]
        BY <2>2 DEF CleanedFlags
      <4>. QED
        BY <3>1, <4>1
    <3>. QED
      BY <1>2, <2>2, <3>1, <3>2 DEF FlagInv, TablesOK, FlagsFollowStatus
  <2>. QED
    BY <1>2, <2>1, <2>2 DEF HitSuperBlock
<1>. QED
  BY <1>1, <1>2 DEF Call

(* The last detector sets the flags, from the vectors as they are.         *)
LEMMA LastDetectorKeeps ==
  ASSUME FlagInv, detect_INO_TABLE_if_INO_BMP
  PROVE  FlagInv'
<1>1. CASE GiveUp
  BY <1>1, MetaUnchanged DEF GiveUp
<1>2. CASE /\ status = "INO_BITMAP_DETECTED"
           /\ status' = "EXT2_DETECTED"
           /\ meta_blks' = [meta_blks EXCEPT !["TMP_IDX"] = {}]
           /\ meta_flag' = SetFlags
  <2>1. /\ DOMAIN meta_blks' = Vectors
        /\ meta_blks' = [v \in Vectors |-> meta_blks'[v]]
        /\ \A v \in Flags : meta_blks'[v] = meta_blks[v]
    BY <1>2, FlagNames DEF FlagInv, TablesOK
  <2>2. ASSUME NEW k \in Blocks
        PROVE  /\ meta_flag'[k] \in Flags \cup {"none"}
               /\ meta_flag'[k] # "none" <=> \E v \in Flags : k \in meta_blks[v]
    <3>. DEFINE S == {n \in DOMAIN idx_2_flag : k \in meta_blks[idx_2_flag[n]]}
    <3>1. meta_flag'[k] = IF S = {} THEN meta_flag[k] ELSE idx_2_flag[Max(S)]
      BY <1>2 DEF SetFlags
    <3>2. meta_flag[k] = "none"
      BY <1>2, NoneFlagged
    <3>3. S = {} <=> ~ \E v \in Flags : k \in meta_blks[v]
      BY DEF Flags, Range
    <3>4. S # {} => Max(S) \in S
      BY FlagNames, MaxOfIndexes
    <3>. HIDE DEF S
    <3>5. S # {} => idx_2_flag[Max(S)] \in Flags /\ idx_2_flag[Max(S)] # "none"
      BY <3>4, FlagNames DEF S
    <3>. QED
      BY <3>1, <3>2, <3>3, <3>5
  <2>3. meta_flag' \in [Blocks -> Flags \cup {"none"}]
    <3>1. meta_flag' = [k \in Blocks |-> meta_flag'[k]]
      BY <1>2 DEF SetFlags
    <3>. QED
      BY <2>2, <3>1
  <2>. QED
    BY <1>2, <2>1, <2>2, <2>3 DEF FlagInv, TablesOK, FlagsFollowStatus, Flags
<1>. QED
  BY <1>1, <1>2 DEF detect_INO_TABLE_if_INO_BMP

LEMMA DetectKeeps ==
  ASSUME FlagInv, Detect
  PROVE  FlagInv'
<1>0. DOMAIN meta_blks = Vectors /\ meta_blks = [v \in Vectors |-> meta_blks[v]]
  BY DEF FlagInv, TablesOK
<1>1. CASE GiveUp
  BY <1>1, MetaUnchanged DEF GiveUp
<1>2. CASE detect_INO_TABLE_if_INO_BMP
  BY <1>2, LastDetectorKeeps
<1>3. CASE detect_SB0_if_NO_SB0 /\ ~GiveUp
  <2>1. status = "NO_SB0" /\ status' = "SB0_DETECTED" /\ meta_flag' = meta_flag
    BY <1>3 DEF detect_SB0_if_NO_SB0, Succeed
  <2>2. DOMAIN meta_blks' = Vectors /\ meta_blks' = [v \in Vectors |-> meta_blks'[v]]
    BY <1>3 DEF detect_SB0_if_NO_SB0
  <2>. QED
    BY <2>1, <2>2, StaysUnflagged
<1>4. CASE detect_SBs_if_SB0 /\ ~GiveUp
  <2>1. /\ status = "SB0_DETECTED" /\ status' \in {"NO_SB0", "SBs_DETECTED"}
        /\ meta_flag' = meta_flag
    BY <1>4 DEF detect_SBs_if_SB0, Succeed
  <2>2. DOMAIN meta_blks' = Vectors /\ meta_blks' = [v \in Vectors |-> meta_blks'[v]]
    BY <1>0, <1>4 DEF detect_SBs_if_SB0
  <2>. QED
    BY <2>1, <2>2, StaysUnflagged
<1>5. CASE detect_BG_DESCs_if_SBs /\ ~GiveUp
  <2>1. status = "SBs_DETECTED" /\ status' = "BG_DESCs_DETECTED" /\ meta_flag' = meta_flag
    BY <1>5 DEF detect_BG_DESCs_if_SBs, Succeed
  <2>2. DOMAIN meta_blks' = Vectors /\ meta_blks' = [v \in Vectors |-> meta_blks'[v]]
    BY <1>0, <1>5 DEF detect_BG_DESCs_if_SBs
  <2>. QED
    BY <2>1, <2>2, StaysUnflagged
<1>6. CASE (detect_BLK_BMP_if_BG_DESCs \/ detect_INO_BMP_if_BLK_BMP) /\ ~GiveUp
  <2>1. /\ status \in {"BG_DESCs_DETECTED", "BLK_BITMAP_DETECTED"}
        /\ status' \in {"BLK_BITMAP_DETECTED", "INO_BITMAP_DETECTED"}
        /\ meta_flag' = meta_flag
    BY <1>6 DEF detect_BLK_BMP_if_BG_DESCs, detect_INO_BMP_if_BLK_BMP, Await, Succeed
  <2>2. DOMAIN meta_blks' = Vectors /\ meta_blks' = [v \in Vectors |-> meta_blks'[v]]
    BY <1>0, <1>6 DEF detect_BLK_BMP_if_BG_DESCs, detect_INO_BMP_if_BLK_BMP, Await
  <2>. QED
    BY <2>1, <2>2, StaysUnflagged
<1>. QED
  BY <1>1, <1>2, <1>3, <1>4, <1>5, <1>6 DEF Detect

LEMMA AlwaysFlagInv == Spec => []FlagInv
<1>1. Init => FlagInv
  BY DEF Init, FlagInv, TablesOK, FlagsFollowStatus
<1>2. FlagInv /\ [Next]_vars => FlagInv'
  <2>. SUFFICES ASSUME FlagInv, [Next]_vars PROVE FlagInv'
    OBVIOUS
  <2>1. ASSUME NEW w \in Writes, Call(w) PROVE FlagInv'
    BY <2>1, CallKeeps
  <2>2. CASE Detect
    BY <2>2, DetectKeeps
  <2>3. CASE PowerOn \/ MarkOneGroup \/ AllMarked \/ Store \/ UNCHANGED vars
    BY <2>3, MetaUnchanged DEF PowerOn, MarkOneGroup, AllMarked, Store, vars
  <2>. QED
    BY <2>1, <2>2, <2>3 DEF Next, Step
<1>. QED
  BY <1>1, <1>2, PTL DEF Spec

(* Flags are there exactly while a file system is known, and exactly on    *)
(* the blocks of the vectors: for every disk, every geometry of the groups *)
(* and whatever the host writes (ext2_meta.c:402-423, 520, 532).           *)
THEOREM FlagsCorrect == Spec => []FlagsFollowStatus
<1>1. FlagInv => FlagsFollowStatus
  BY DEF FlagInv
<1>. QED
  BY <1>1, AlwaysFlagInv, PTL

----------------------------------------------------------------------------
(* How many blocks there are.                                              *)

(* n entries fill m blocks of b.                                           *)
Pieces(n, b, m) == m \in 1 .. n /\ (m - 1) * b < n /\ n <= m * b

LEMMA PiecesAre ==
  ASSUME NEW n \in Nat \ {0}, NEW b \in Nat \ {0}
  PROVE  Pieces(n, b, (n - 1) \div b + 1)
<1>. DEFINE q == (n - 1) \div b
            r == (n - 1) % b
<1>1. n - 1 \in Nat
  OBVIOUS
<1>2. q \in Int /\ r \in 0 .. b - 1 /\ n - 1 = b * q + r
  BY <1>1
<1>. HIDE DEF q, r
<1>3. q >= 0
  <2>1. CASE q <= -1
    <3>1. b * q <= -b
      BY <1>2, <2>1
    <3>. QED
      BY <1>1, <1>2, <3>1
  <2>. QED
    BY <1>2, <2>1
<1>4. b * q >= q
  BY <1>2, <1>3
<1>5. ((q + 1) - 1) * b = b * q /\ (q + 1) * b = b * q + b
  BY <1>2
<1>6. q + 1 \in 1 .. n
  BY <1>2, <1>3, <1>4
<1>7. Pieces(n, b, q + 1)
  BY <1>2, <1>5, <1>6 DEF Pieces
<1>. QED
  BY <1>7 DEF q

LEMMA PiecesUnique ==
  ASSUME NEW n \in Nat \ {0}, NEW b \in Nat \ {0}, NEW m \in Int, NEW k \in Int,
         (m - 1) * b < n, n <= m * b, (k - 1) * b < n, n <= k * b
  PROVE  m = k
<1>1. ASSUME NEW x \in Int, NEW y \in Int, (x - 1) * b < n, n <= y * b
      PROVE  x <= y
  <2>1. CASE y <= x - 1
    <3>1. y * b <= (x - 1) * b
      BY <2>1
    <3>2. y * b \in Int /\ (x - 1) * b \in Int
      OBVIOUS
    <3>. QED
      BY <1>1, <3>1, <3>2
  <2>. QED
    BY <2>1
<1>2. m <= k /\ k <= m
  BY <1>1
<1>. QED
  BY <1>2

LEMMA PiecesAbove ==
  ASSUME NEW n \in Nat \ {0}, NEW b \in Nat \ {0}
  PROVE  Pieces(n, b, (n + b - 1) \div b)
<1>. DEFINE q == (n + b - 1) \div b
            r == (n + b - 1) % b
            m == (n - 1) \div b + 1
<1>1. n + b - 1 \in Nat
  OBVIOUS
<1>2. q \in Int /\ r \in 0 .. b - 1 /\ n + b - 1 = b * q + r
  BY <1>1
<1>3. Pieces(n, b, m)
  BY PiecesAre
<1>. HIDE DEF q, r, m
<1>4. (q - 1) * b = b * q - b /\ q * b = b * q
  BY <1>2
<1>5. b * q \in Int
  BY <1>2
<1>6. (q - 1) * b < n /\ n <= q * b
  BY <1>2, <1>4, <1>5
<1>7. m \in Int /\ (m - 1) * b < n /\ n <= m * b
  BY <1>3 DEF Pieces
<1>8. q = m
  BY <1>2, <1>6, <1>7, PiecesUnique
<1>. QED
  BY <1>3, <1>8 DEF q

LEMMA NeededAre ==
  ASSUME NEW n \in Nat \ {0}, NEW b \in Nat \ {0}
  PROVE  /\ Pieces(n, b, Needed(n, b))
         /\ Needed(n, b) = (n - 1) \div b + 1
         /\ Needed(n, b) = (n + b - 1) \div b
<1>. DEFINE m == (n - 1) \div b + 1
            k == (n + b - 1) \div b
<1>1. Pieces(n, b, m) /\ Pieces(n, b, k)
  BY PiecesAre, PiecesAbove
<1>. HIDE DEF m, k
<1>2. \E x \in 1 .. n : (x - 1) * b < n /\ n <= x * b
  BY <1>1 DEF Pieces
<1>3. Pieces(n, b, Needed(n, b))
  BY <1>2 DEF Needed, Pieces
<1>4. \A x, y : Pieces(n, b, x) /\ Pieces(n, b, y) => x = y
  <2>1. SUFFICES ASSUME NEW x, NEW y, Pieces(n, b, x), Pieces(n, b, y)
                 PROVE  x = y
    OBVIOUS
  <2>2. /\ x \in Int /\ (x - 1) * b < n /\ n <= x * b
        /\ y \in Int /\ (y - 1) * b < n /\ n <= y * b
    BY <2>1 DEF Pieces
  <2>. QED
    BY <2>2, PiecesUnique
<1>. QED
  BY <1>1, <1>3, <1>4 DEF m, k

(* What the code computes from a super block that can be believed.         *)
Believed(sb) ==
  /\ gd_cnt(sb) \in Nat \ {0}
  /\ Pieces(gd_cnt(sb), DESCS_PER_BLOCK, desc_blks(sb))
  /\ itable_blks(sb) \in Nat \ {0}
  /\ BackupSuperBlocks(sb) \subseteq Blocks
  /\ \A k \in {SB0_BLOCK_NO} \cup BackupSuperBlocks(sb) :
       \A n \in 0 .. desc_blks(sb) - 1 : k + 1 + n \in Blocks

LEMMA WrittenBelieved ==
  ASSUME NEW sb \in SupersWritten
  PROVE  Believed(sb)
<1>. DEFINE c == sb.s_blocks_count
            f == sb.s_first_data_block
            G == gd_cnt(sb)
            D == desc_blks(sb)
<1>1. /\ c \in Nat /\ f \in Nat /\ f < c /\ sb.s_inodes_per_group \in Nat \ {0}
      /\ \A k \in {SB0_BLOCK_NO} \cup BackupSuperBlocks(sb) : k + D \in Blocks
      /\ sb.s_blocks_per_group = BITS_PER_BITMAP
      /\ BITS_PER_BITMAP \in Nat \ {0} /\ DESCS_PER_BLOCK \in Nat \ {0}
      /\ INODES_PER_BLOCK \in Nat \ {0} /\ TOTAL_SMR_BLOCKS_CNT \in Nat \ {0}
  BY HostAssumption, DetectorAssumption DEF SupersWritten, FitsDisk
<1>2. c - f \in Nat \ {0} /\ G = ((c - f) - 1) \div BITS_PER_BITMAP + 1
  BY <1>1 DEF gd_cnt
<1>3. Pieces(c - f, BITS_PER_BITMAP, G)
  BY <1>1, <1>2, PiecesAre
<1>4. G \in Nat \ {0}
  BY <1>2, <1>3 DEF Pieces
<1>5. Pieces(G, DESCS_PER_BLOCK, D)
  BY <1>1, <1>4, PiecesAbove DEF desc_blks
<1>6. Pieces(sb.s_inodes_per_group, INODES_PER_BLOCK, itable_blks(sb))
  BY <1>1, PiecesAre DEF itable_blks
<1>7. itable_blks(sb) \in Nat \ {0}
  BY <1>1, <1>6 DEF Pieces
<1>8. D \in Nat \ {0}
  BY <1>4, <1>5 DEF Pieces
<1>9. BackupSuperBlocks(sb) \subseteq Nat
  <2>1. \A g \in BackupGroups(G) : g \in Nat
    BY <1>4 DEF BackupGroups
  <2>2. \A g \in Nat : f + g * BITS_PER_BITMAP \in Nat
    BY <1>1
  <2>. HIDE DEF f
  <2>. QED
    BY <1>1, <2>1, <2>2 DEF BackupSuperBlocks, f
<1>10. \A k \in {SB0_BLOCK_NO} \cup BackupSuperBlocks(sb) : k \in Nat /\ k + D \in Blocks
  BY <1>1, <1>9 DEF SB0_BLOCK_NO
<1>11. BackupSuperBlocks(sb) \subseteq Blocks
  BY <1>1, <1>8, <1>10 DEF Blocks
<1>12. \A k \in {SB0_BLOCK_NO} \cup BackupSuperBlocks(sb) : \A n \in 0 .. D - 1 : k + 1 + n \in Blocks
  <2>. SUFFICES ASSUME NEW k \in {SB0_BLOCK_NO} \cup BackupSuperBlocks(sb), NEW n \in 0 .. D - 1
                PROVE  k + 1 + n \in Blocks
    OBVIOUS
  <2>1. k \in Nat /\ k + D \in Blocks
    BY <1>10
  <2>. HIDE DEF D
  <2>. QED
    BY <1>1, <1>8, <2>1 DEF Blocks
<1>. QED
  BY <1>4, <1>5, <1>7, <1>11, <1>12 DEF Believed

----------------------------------------------------------------------------
(* Every vector names blocks of the disk.                                  *)

LEMMA BlocksFinite ==
  ASSUME NEW S \in SUBSET Blocks
  PROVE  IsFiniteSet(S) /\ S \subseteq Nat
<1>1. TOTAL_SMR_BLOCKS_CNT \in Nat
  BY DetectorAssumption
<1>2. IsFiniteSet(Blocks)
  BY <1>1, FS_Interval DEF Blocks
<1>3. IsFiniteSet(S)
  BY <1>2, FS_Subset
<1>4. S \subseteq Nat
  BY <1>1 DEF Blocks
<1>. QED
  BY <1>3, <1>4

(* A sorted vector holds an element at every position.                     *)
LEMMA ElementAt ==
  ASSUME NEW S \in SUBSET Blocks, NEW n \in Nat, n < Cardinality(S)
  PROVE  /\ get_vect_element(S, n) \in S
         /\ \A k \in S : Cardinality({j \in S : j < k}) = n => get_vect_element(S, n) = k
<1>. DEFINE Below(k) == {j \in S : j < k}
            T == 0 .. Cardinality(S) - 1
            rank == [k \in S |-> Cardinality(Below(k))]
<1>1. IsFiniteSet(S) /\ S \subseteq Nat /\ Cardinality(S) \in Nat
  BY BlocksFinite, FS_CardinalityType
<1>2. \A k \in S : IsFiniteSet(Below(k)) /\ Cardinality(Below(k)) \in T
  <2>1. TAKE k \in S
  <2>2. Below(k) \in SUBSET S /\ k \notin Below(k)
    BY <1>1
  <2>3. IsFiniteSet(Below(k)) /\ Cardinality(Below(k)) <= Cardinality(S) /\ Cardinality(Below(k)) # Cardinality(S)
    BY <1>1, <2>2, FS_Subset, Zenon
  <2>4. Cardinality(Below(k)) \in Nat
    BY <2>3, FS_CardinalityType
  <2>. QED
    BY <1>1, <2>3, <2>4
<1>3. \A k, l \in S : k < l => Cardinality(Below(k)) # Cardinality(Below(l))
  <2>1. SUFFICES ASSUME NEW k \in S, NEW l \in S, k < l
                 PROVE  Cardinality(Below(k)) # Cardinality(Below(l))
    OBVIOUS
  <2>2. Below(k) \in SUBSET Below(l) /\ k \in Below(l) /\ k \notin Below(k)
    <3>1. k \in Nat /\ l \in Nat /\ \A j \in S : j \in Nat
      BY <1>1
    <3>2. \A j \in S : j < k => j < l
      BY <2>1, <3>1
    <3>3. ~ (k < k)
      BY <3>1
    <3>. QED
      BY <2>1, <3>2, <3>3
  <2>. QED
    BY <1>2, <2>2, FS_Subset, Zenon
<1>4. \A k, l \in S : Cardinality(Below(k)) = Cardinality(Below(l)) => k = l
  BY <1>1, <1>3
<1>5. IsFiniteSet(T) /\ Cardinality(T) = Cardinality(S)
  <2>1. 0 \in Int /\ Cardinality(S) - 1 \in Int
    BY <1>1
  <2>2. IsFiniteSet(T) /\ Cardinality(T) = IF 0 > Cardinality(S) - 1 THEN 0 ELSE (Cardinality(S) - 1) - 0 + 1
    BY <2>1, FS_Interval, Zenon
  <2>. QED
    BY <1>1, <2>2
<1>6. rank \in Injection(S, T)
  BY <1>2, <1>4 DEF Injection, IsInjective
<1>7. rank \in Surjection(S, T)
  <2>. HIDE DEF T, rank
  <2>. QED
    BY <1>1, <1>5, <1>6, FS_Injection
<1>8. \E k \in S : Cardinality(Below(k)) = n
  <2>1. n \in T
    BY <1>1
  <2>2. \E k \in S : rank[k] = n
    <3>. HIDE DEF T, rank
    <3>. QED
      BY <1>7, <2>1 DEF Surjection
  <2>. QED
    BY <2>2
<1>9. get_vect_element(S, n) \in S /\ Cardinality(Below(get_vect_element(S, n))) = n
  BY <1>8 DEF get_vect_element
<1>. QED
  BY <1>4, <1>9

(* A super block is only believed that the host has written, and as long   *)
(* as the others are waited for the vector is as it was filled.            *)
DetInv ==
  /\ TypeOK
  /\ status # "NO_SB0" => sb0 \in SupersWritten
  /\ status = "SB0_DETECTED" =>
       meta_blks["SB_IDX"] = {SB0_BLOCK_NO} \cup BackupSuperBlocks(sb0)

LEMMA LegalIsWritten ==
  ASSUME NEW w \in Writes, is_legal_super_block(w[2], "sb0")
  PROVE  w[2].sb \in SupersWritten
  BY DEF is_legal_super_block, SupersWritten, FitsDisk

LEMMA InitDetInv == Init => DetInv
<1>. SUFFICES ASSUME Init PROVE DetInv
  OBVIOUS
<1>1. meta_blks \in [Vectors -> SUBSET Blocks]
  BY DEF Init
<1>2. meta_flag \in [Blocks -> Range(idx_2_flag) \cup {"none"}]
  BY DEF Init
<1>3. store \in [Blocks -> Contents \cup {NoData}]
  BY DEF Init, Disk!Init
<1>. QED
  BY <1>1, <1>2, <1>3 DEF Init, DetInv, TypeOK, Statuses

LEMMA CallKeepsDet ==
  ASSUME DetInv, NEW w \in Writes, Call(w)
  PROVE  DetInv'
<1>1. /\ req' = w /\ w # NoReq /\ blk_bmp' = blk_bmp /\ store' = store /\ pos' = pos
      /\ pc' \in {"detect", "store"}
  BY DetectorAssumption DEF Call
<1>2. CASE UNCHANGED meta
  BY <1>1, <1>2 DEF DetInv, TypeOK, meta
<1>3. CASE status = "EXT2_DETECTED" /\ HitSuperBlock(w[2]) /\ UNCHANGED meta_blks
  <2>1. CASE is_legal_super_block(w[2], "sb0") /\ sb0' = w[2].sb /\ UNCHANGED <<status, meta_flag>>
    <3>1. sb0' \in SupersWritten
      BY <2>1, LegalIsWritten
    <3>. QED
      BY <1>1, <1>3, <2>1, <3>1 DEF DetInv, TypeOK
  <2>2. CASE status' = "NO_SB0" /\ meta_flag' = CleanedFlags /\ UNCHANGED sb0
    <3>1. meta_flag' \in [Blocks -> Range(idx_2_flag) \cup {"none"}]
      BY <2>2 DEF CleanedFlags, DetInv, TypeOK
    <3>. QED
      BY <1>1, <1>3, <2>2, <3>1 DEF DetInv, TypeOK, Statuses
  <2>. QED
    BY <1>3, <2>1, <2>2 DEF HitSuperBlock
<1>. QED
  BY <1>2, <1>3 DEF Call

(* What a detector has to leave behind.                                    *)
LEMMA StageKeepsDet ==
  ASSUME DetInv, UNCHANGED <<blk_bmp, store, pos, req>>,
         pc = "detect", pc' \in {"detect", "free", "store"},
         status' \in Statuses,
         meta_blks' \in [Vectors -> SUBSET Blocks],
         meta_flag' \in [Blocks -> Range(idx_2_flag) \cup {"none"}],
         status' # "NO_SB0" => sb0' \in SupersWritten,
         status' = "SB0_DETECTED" => meta_blks'["SB_IDX"] = {SB0_BLOCK_NO} \cup BackupSuperBlocks(sb0')
  PROVE  DetInv'
  BY DEF DetInv, TypeOK

(* The descriptors of a block name blocks of the disk.                     *)
LEMMA DescsTyped ==
  ASSUME DetInv, status = "SBs_DETECTED",
         NEW k \in Blocks, has_mapping(k), NEW d \in group_descs(k)
  PROVE  /\ d.bg_block_bitmap \in Blocks /\ d.bg_inode_bitmap \in Blocks
         /\ \A n \in 0 .. itable_blks(sb0) - 1 : d.bg_inode_table + n \in Blocks
<1>1. sb0 \in SupersWritten /\ Believed(sb0)
  BY WrittenBelieved DEF DetInv
<1>2. /\ DESCS_PER_BLOCK \in Nat \ {0} /\ TOTAL_SMR_BLOCKS_CNT \in Nat \ {0}
      /\ itable_blks(sb0) \in Nat \ {0} /\ itable_blks(sb0) - 1 \in Blocks
  BY <1>1, DetectorAssumption, HostAssumption DEF Believed
<1>3. CASE store[k].kind = "gd"
  <2>. DEFINE m == get_number_of_BG_DESCs(k)
  <2>1. \/ m = gd_cnt(sb0) /\ desc_blks(sb0) <= 1
        \/ m = gd_cnt(sb0) % DESCS_PER_BLOCK
        \/ m = DESCS_PER_BLOCK
    BY DEF get_number_of_BG_DESCs
  <2>2. gd_cnt(sb0) \in Nat \ {0} /\ desc_blks(sb0) \in Nat
        /\ gd_cnt(sb0) <= desc_blks(sb0) * DESCS_PER_BLOCK
    BY <1>1 DEF Believed, Pieces
  <2>3. m \in Int /\ m <= DESCS_PER_BLOCK
    <3>. HIDE DEF m
    <3>1. CASE m = gd_cnt(sb0) /\ desc_blks(sb0) <= 1
      <4>1. desc_blks(sb0) = 0 \/ desc_blks(sb0) = 1
        BY <2>2, <3>1
      <4>2. gd_cnt(sb0) <= 1 * DESCS_PER_BLOCK
        BY <1>2, <2>2, <4>1
      <4>. QED
        BY <1>2, <2>2, <3>1, <4>2
    <3>2. CASE m = gd_cnt(sb0) % DESCS_PER_BLOCK
      BY <1>2, <2>2, <3>2
    <3>. QED
      BY <1>2, <2>1, <3>1, <3>2
  <2>4. PICK n \in 0 .. m - 1 : d = store[k].descs[n]
    BY <1>3 DEF group_descs
  <2>5. n \in 0 .. DESCS_PER_BLOCK - 1
    <3>. HIDE DEF m
    <3>. QED
      BY <1>2, <2>3, <2>4
  <2>6. PICK w \in Writes : store[k] = w[2]
    BY DEF DetInv, TypeOK, Contents, has_mapping
  <2>7. d \in DescsWritten
    BY <1>3, <2>4, <2>5, <2>6 DEF DescsWritten
  <2>8. /\ {d.bg_block_bitmap, d.bg_inode_bitmap, d.bg_inode_table} \subseteq Blocks
        /\ d.bg_inode_table + itable_blks(sb0) - 1 \in Blocks
    BY <1>1, <2>7, HostAssumption
  <2>9. ASSUME NEW i \in 0 .. itable_blks(sb0) - 1
        PROVE  d.bg_inode_table + i \in Blocks
    <3>1. d.bg_inode_table \in Blocks
      BY <2>8
    <3>. QED
      BY <1>2, <2>8, <3>1 DEF Blocks
  <2>. QED
    BY <2>8, <2>9
<1>4. CASE store[k].kind # "gd"
  <2>1. d.bg_block_bitmap = 0 /\ d.bg_inode_bitmap = 0 /\ d.bg_inode_table = 0
    BY <1>4 DEF group_descs
  <2>. QED
    BY <1>2, <2>1 DEF Blocks
<1>. QED
  BY <1>3, <1>4

(* A vector is replaced by another.                                        *)
LEMMA VectorsReplaced ==
  ASSUME meta_blks \in [Vectors -> SUBSET Blocks], meta_blks' = [v \in Vectors |-> meta_blks'[v]],
         \A v \in Vectors : meta_blks'[v] \subseteq Blocks
  PROVE  meta_blks' \in [Vectors -> SUBSET Blocks]
  OBVIOUS

LEMMA DetectKeepsDet ==
  ASSUME DetInv, Detect
  PROVE  DetInv'
<1>. USE DEF Succeed
<1>0. /\ UNCHANGED <<blk_bmp, store, pos, req>> /\ pc = "detect"
      /\ meta_blks \in [Vectors -> SUBSET Blocks]
      /\ meta_flag \in [Blocks -> Range(idx_2_flag) \cup {"none"}]
      /\ status # "NO_SB0" => sb0 \in SupersWritten
      /\ status \in Statuses
  BY DEF Detect, DetInv, TypeOK
<1>1. CASE GiveUp
  BY <1>0, <1>1 DEF GiveUp, DetInv, TypeOK, meta
<1>2. CASE detect_SB0_if_NO_SB0 /\ ~GiveUp
  <2>1. /\ is_legal_super_block(req[2], "sb0") /\ status' = "SB0_DETECTED" /\ pc' = "detect"
        /\ sb0' = req[2].sb /\ meta_flag' = meta_flag
        /\ meta_blks' = [v \in Vectors |->
              IF v = "SB_IDX" THEN {SB0_BLOCK_NO} \cup BackupSuperBlocks(sb0')
              ELSE IF v = "TMP_IDX" THEN BackupSuperBlocks(sb0')
              ELSE {}]
    BY <1>2 DEF detect_SB0_if_NO_SB0, buf
  <2>2. req \in Writes
    BY <1>0 DEF DetInv, TypeOK
  <2>3. sb0' \in SupersWritten
    BY <2>1, <2>2, LegalIsWritten
  <2>4. BackupSuperBlocks(sb0') \subseteq Blocks /\ SB0_BLOCK_NO \in Blocks
    BY <2>3, WrittenBelieved, DetectorAssumption DEF Believed, SB0_BLOCK_NO, Blocks
  <2>5. meta_blks' \in [Vectors -> SUBSET Blocks]
    BY <2>1, <2>4
  <2>6. meta_blks'["SB_IDX"] = {SB0_BLOCK_NO} \cup BackupSuperBlocks(sb0')
    BY <2>1, VectorNames
  <2>. QED
    BY <1>0, <2>1, <2>3, <2>5, <2>6, StageKeepsDet DEF Statuses
<1>3. CASE detect_SBs_if_SB0 /\ ~GiveUp
  <2>. DEFINE behind(k) == {k + 1 + n : n \in 0 .. desc_blks(sb0) - 1}
  <2>1. status = "SB0_DETECTED" /\ sb0' = sb0 /\ meta_flag' = meta_flag
    BY <1>3 DEF detect_SBs_if_SB0
  <2>2. CASE status' = "NO_SB0" /\ pc' = "store" /\ meta_blks' = meta_blks
    BY <1>0, <2>1, <2>2, StageKeepsDet DEF Statuses
  <2>3. CASE /\ status' = "SBs_DETECTED" /\ pc' = "detect"
             /\ meta_blks' = [meta_blks EXCEPT
                  !["BG_DESC_IDX"] = @ \cup UNION {behind(k) : k \in meta_blks["SB_IDX"]},
                  !["TMP_IDX"]     = behind(SB0_BLOCK_NO)]
    <3>1. Believed(sb0) /\ meta_blks["SB_IDX"] = {SB0_BLOCK_NO} \cup BackupSuperBlocks(sb0)
      BY <1>0, <2>1, WrittenBelieved DEF DetInv
    <3>2. \A k \in {SB0_BLOCK_NO} \cup BackupSuperBlocks(sb0) : behind(k) \subseteq Blocks
      BY <3>1 DEF Believed
    <3>3. UNION {behind(k) : k \in meta_blks["SB_IDX"]} \subseteq Blocks /\ behind(SB0_BLOCK_NO) \subseteq Blocks
      BY <3>1, <3>2
    <3>. HIDE DEF behind
    <3>4. \A v \in Vectors : meta_blks'[v] \subseteq Blocks
      BY <1>0, <2>3, <3>3
    <3>5. meta_blks' \in [Vectors -> SUBSET Blocks]
      BY <1>0, <2>3, <3>4, VectorsReplaced
    <3>. QED
      BY <1>0, <2>1, <2>3, <3>5, StageKeepsDet DEF Statuses
  <2>. QED
    BY <1>3, <2>2, <2>3 DEF detect_SBs_if_SB0
<1>4. CASE detect_BG_DESCs_if_SBs /\ ~GiveUp
  <2>. DEFINE D == UNION {group_descs(k) : k \in meta_blks["TMP_IDX"]}
              bitmaps == {d.bg_block_bitmap : d \in D}
              inobmps == {d.bg_inode_bitmap : d \in D}
              tables == UNION {{d.bg_inode_table + n : n \in 0 .. itable_blks(sb0) - 1} : d \in D}
  <2>1. /\ status = "SBs_DETECTED" /\ status' = "BG_DESCs_DETECTED" /\ pc' = "detect"
        /\ sb0' = sb0 /\ meta_flag' = meta_flag /\ TmpMapped
        /\ meta_blks' = [meta_blks EXCEPT
              !["BLK_BMP_IDX"]   = @ \cup bitmaps,
              !["INO_BMP_IDX"]   = @ \cup inobmps,
              !["INO_TABLE_IDX"] = @ \cup tables,
              !["TMP_IDX"]       = meta_blks["BLK_BMP_IDX"] \cup bitmaps]
    BY <1>4 DEF detect_BG_DESCs_if_SBs
  <2>2. \A k \in meta_blks["TMP_IDX"] : k \in Blocks /\ has_mapping(k)
    BY <1>0, <2>1 DEF TmpMapped, all_elements_mapped, Vectors
  <2>3. \A d \in D : /\ d.bg_block_bitmap \in Blocks /\ d.bg_inode_bitmap \in Blocks
                     /\ \A n \in 0 .. itable_blks(sb0) - 1 : d.bg_inode_table + n \in Blocks
    BY <2>1, <2>2, DescsTyped
  <2>. HIDE DEF D
  <2>4. bitmaps \subseteq Blocks /\ inobmps \subseteq Blocks /\ tables \subseteq Blocks
    BY <2>3
  <2>. HIDE DEF bitmaps, inobmps, tables
  <2>5. \A v \in Vectors : meta_blks'[v] \subseteq Blocks
    <3>1. "BLK_BMP_IDX" \in Vectors
      BY VectorNames
    <3>. QED
      BY <1>0, <2>1, <2>4, <3>1
  <2>6. meta_blks' \in [Vectors -> SUBSET Blocks]
    BY <1>0, <2>1, <2>5, VectorsReplaced
  <2>. QED
    BY <1>0, <2>1, <2>6, StageKeepsDet DEF Statuses
<1>5. CASE (detect_BLK_BMP_if_BG_DESCs \/ detect_INO_BMP_if_BLK_BMP) /\ ~GiveUp
  <2>1. PICK next \in {"INO_BMP_IDX", "INO_TABLE_IDX"} :
          meta_blks' = [meta_blks EXCEPT !["TMP_IDX"] = meta_blks[next]]
    BY <1>5 DEF detect_BLK_BMP_if_BG_DESCs, detect_INO_BMP_if_BLK_BMP, Await
  <2>2. next \in Vectors
    BY VectorNames
  <2>3. meta_blks' \in [Vectors -> SUBSET Blocks]
    BY <1>0, <2>1, <2>2
  <2>4. /\ status # "NO_SB0" /\ status' \in {"BLK_BITMAP_DETECTED", "INO_BITMAP_DETECTED"}
        /\ sb0' = sb0 /\ meta_flag' = meta_flag /\ pc' = "detect"
    BY <1>5 DEF detect_BLK_BMP_if_BG_DESCs, detect_INO_BMP_if_BLK_BMP, Await
  <2>. QED
    BY <1>0, <2>3, <2>4, StageKeepsDet DEF Statuses
<1>6. CASE detect_INO_TABLE_if_INO_BMP /\ ~GiveUp
  <2>1. /\ status = "INO_BITMAP_DETECTED" /\ status' = "EXT2_DETECTED" /\ pc' = "free" /\ sb0' = sb0
        /\ meta_blks' = [meta_blks EXCEPT !["TMP_IDX"] = {}] /\ meta_flag' = SetFlags
    BY <1>6 DEF detect_INO_TABLE_if_INO_BMP
  <2>2. meta_blks' \in [Vectors -> SUBSET Blocks]
    BY <1>0, <2>1
  <2>3. meta_flag' \in [Blocks -> Range(idx_2_flag) \cup {"none"}]
    <3>1. ASSUME NEW k \in Blocks
          PROVE  SetFlags[k] \in Flags \cup {"none"}
      <4>. DEFINE S == {n \in DOMAIN idx_2_flag : k \in meta_blks[idx_2_flag[n]]}
      <4>1. SetFlags[k] = IF S = {} THEN meta_flag[k] ELSE idx_2_flag[Max(S)]
        BY DEF SetFlags
      <4>2. S # {} => Max(S) \in S
        BY FlagNames, MaxOfIndexes
      <4>. HIDE DEF S
      <4>3. S # {} => idx_2_flag[Max(S)] \in Flags
        BY <4>2, FlagNames DEF S
      <4>. QED
        BY <1>0, <4>1, <4>3 DEF Flags
    <3>. QED
      BY <2>1, <3>1 DEF SetFlags, Flags
  <2>. QED
    BY <1>0, <2>1, <2>2, <2>3, StageKeepsDet DEF Statuses
<1>. QED
  BY <1>1, <1>2, <1>3, <1>4, <1>5, <1>6 DEF Detect

(* The vectors in the mapping table play no part while blocks are dropped. *)
LEMMA MarkKeepsDet ==
  ASSUME DetInv, MarkOneGroup
  PROVE  DetInv'
<1>. DEFINE S == meta_blks["BLK_BMP_IDX"]
            k == get_vect_element(S, pos)
<1>1. S \in SUBSET Blocks /\ pos \in Nat /\ pos < Cardinality(S)
  BY VectorNames DEF DetInv, TypeOK, MarkOneGroup
<1>2. k \in Blocks
  BY <1>1, ElementAt
<1>3. PICK b \in IF has_mapping(k) THEN ClearBits(store[k]) ELSE {blk_bmp} :
             blk_bmp' = b /\ Disk!Discard({group_start(pos) + n : n \in b})
  BY DEF MarkOneGroup
<1>4. b \subseteq Bits
  <2>1. CASE has_mapping(k)
    <3>1. PICK w \in Writes : store[k] = w[2]
      BY <1>2, <2>1 DEF DetInv, TypeOK, Contents, has_mapping
    <3>2. (store[k].kind = "bmp" /\ b = store[k].free) \/ b \subseteq Bits
      BY <1>3, <2>1 DEF ClearBits
    <3>. QED
      BY <3>1, <3>2, HostAssumption
  <2>2. CASE ~has_mapping(k)
    BY <1>3, <2>2 DEF DetInv, TypeOK
  <2>. QED
    BY <2>1, <2>2
<1>5. store' \in [Blocks -> Contents \cup {NoData}]
  BY <1>3 DEF Disk!Discard, DetInv, TypeOK
<1>6. UNCHANGED <<meta, pc, req>> /\ pos' \in Nat
  BY <1>1 DEF MarkOneGroup, NextPos
<1>. QED
  BY <1>3, <1>4, <1>5, <1>6 DEF DetInv, TypeOK, meta

LEMMA StoreKeepsDet ==
  ASSUME DetInv, Store
  PROVE  DetInv'
<1>1. req \in Writes /\ req[1] \in Blocks /\ req[2] \in Contents
  BY DetectorAssumption DEF Store, DetInv, TypeOK, Contents
<1>2. store' = [store EXCEPT ![req[1]] = req[2]]
  BY DEF Store, Disk!Write, blk_no, buf
<1>3. store' \in [Blocks -> Contents \cup {NoData}]
  BY <1>1, <1>2 DEF DetInv, TypeOK
<1>. QED
  BY <1>3 DEF DetInv, TypeOK, Store, meta

LEMMA NextKeepsDet == DetInv /\ [Next]_vars => DetInv'
<1>. SUFFICES ASSUME DetInv, [Next]_vars PROVE DetInv'
  OBVIOUS
<1>1. ASSUME NEW w \in Writes, Call(w) PROVE DetInv'
  BY <1>1, CallKeepsDet
<1>2. CASE Detect
  BY <1>2, DetectKeepsDet
<1>3. CASE MarkOneGroup
  BY <1>3, MarkKeepsDet
<1>4. CASE AllMarked
  BY <1>4 DEF AllMarked, DetInv, TypeOK, meta
<1>5. CASE Store
  BY <1>5, StoreKeepsDet
<1>6. CASE PowerOn
  BY <1>6 DEF PowerOn, DetInv, TypeOK, meta
<1>7. CASE UNCHANGED vars
  BY <1>7 DEF vars, DetInv, TypeOK, meta
<1>. QED
  BY <1>1, <1>2, <1>3, <1>4, <1>5, <1>6, <1>7 DEF Next, Step

LEMMA AlwaysDetInv == Spec => []DetInv
  BY InitDetInv, NextKeepsDet, PTL DEF Spec

(* The vectors name blocks of the disk, the flags are names of vectors,    *)
(* the bitmap buffer holds bits, and what is on the disk was written: so   *)
(* long as the super blocks and descriptors that the host writes are those *)
(* of file systems that fit the disk, which the code takes on trust        *)
(* (ext2_meta.c:217-226, 402-423).                                         *)
THEOREM DetectorTypeOK == Spec => []TypeOK
<1>1. DetInv => TypeOK
  BY DEF DetInv
<1>. QED
  BY <1>1, AlwaysDetInv, PTL

----------------------------------------------------------------------------
(* One file system: what the code computes from its super block.           *)

LEMMA Layout ==
  LET G == Cardinality(FsGroups)
  IN  /\ G \in Nat \ {0} /\ FsGroups = 0 .. G - 1 /\ IsFiniteSet(FsGroups)
      /\ gd_cnt(FsSuper) = G
      /\ desc_blks(FsSuper) = FsDescBlocks /\ Pieces(G, DESCS_PER_BLOCK, FsDescBlocks)
      /\ itable_blks(FsSuper) = FsTableBlocks
      /\ FsSuper.s_blocks_per_group = BITS_PER_BITMAP /\ FsSuper.s_first_data_block = 0
<1>. DEFINE N == Needed(FsSuper.s_blocks_count, BITS_PER_BITMAP)
            G == Cardinality(FsGroups)
<1>1. /\ FsSuper.s_blocks_per_group = BITS_PER_BITMAP /\ FsSuper.s_first_data_block = 0
      /\ FsSuper.s_blocks_count \in Nat \ {0} /\ FsSuper.s_inodes_per_group \in Nat \ {0}
      /\ BITS_PER_BITMAP \in Nat \ {0} /\ DESCS_PER_BLOCK \in Nat \ {0}
      /\ INODES_PER_BLOCK \in Nat \ {0}
  BY LayoutAssumption, DetectorAssumption DEF FitsDisk
<1>2. N \in Nat \ {0} /\ gd_cnt(FsSuper) = N
  <2>1. Pieces(FsSuper.s_blocks_count, BITS_PER_BITMAP, N)
        /\ N = (FsSuper.s_blocks_count - 1) \div BITS_PER_BITMAP + 1
    BY <1>1, NeededAre
  <2>2. FsSuper.s_blocks_count - FsSuper.s_first_data_block - 1 = FsSuper.s_blocks_count - 1
    BY <1>1
  <2>3. gd_cnt(FsSuper) = (FsSuper.s_blocks_count - 1) \div BITS_PER_BITMAP + 1
    BY <1>1, <2>2 DEF gd_cnt
  <2>4. N \in 1 .. FsSuper.s_blocks_count
    BY <2>1 DEF Pieces
  <2>. HIDE DEF N
  <2>. QED
    BY <1>1, <2>1, <2>3, <2>4
<1>3. FsGroups = 0 .. N - 1
  BY DEF FsGroups
<1>. HIDE DEF N
<1>4. IsFiniteSet(FsGroups) /\ G = N
  <2>1. 0 \in Int /\ N - 1 \in Int
    BY <1>2
  <2>2. IsFiniteSet(0 .. N - 1)
        /\ Cardinality(0 .. N - 1) = IF 0 > N - 1 THEN 0 ELSE (N - 1) - 0 + 1
    BY <2>1, FS_Interval, Zenon
  <2>. QED
    BY <1>2, <1>3, <2>2
<1>. HIDE DEF G
<1>5. FsDescBlocks = Needed(G, DESCS_PER_BLOCK)
  BY DEF FsDescBlocks, G
<1>6. desc_blks(FsSuper) = FsDescBlocks /\ Pieces(G, DESCS_PER_BLOCK, FsDescBlocks)
  BY <1>1, <1>2, <1>4, <1>5, NeededAre DEF desc_blks
<1>7. itable_blks(FsSuper) = FsTableBlocks
  BY <1>1, NeededAre DEF itable_blks, FsTableBlocks
<1>. QED
  BY <1>1, <1>2, <1>3, <1>4, <1>6, <1>7 DEF G

LEMMA SupersAre ==
  /\ BackupSuperBlocks(FsSuper) = FsSupers \ {SB0_BLOCK_NO}
  /\ SB0_BLOCK_NO \in FsSupers
<1>. DEFINE G == Cardinality(FsGroups)
            B == BackupGroups(G)
<1>1. G \in Nat \ {0} /\ BITS_PER_BITMAP \in Nat \ {0}
  BY Layout, DetectorAssumption
<1>2. FsSupers = {g * BITS_PER_BITMAP : g \in {0} \cup B}
  BY LayoutAssumption DEF FsSupers
<1>3. BackupSuperBlocks(FsSuper) = {g * BITS_PER_BITMAP : g \in B}
  <2>1. \A g \in B : 0 + g * BITS_PER_BITMAP = g * BITS_PER_BITMAP
    BY <1>1 DEF BackupGroups
  <2>2. BackupSuperBlocks(FsSuper) = {0 + g * BITS_PER_BITMAP : g \in B}
    BY Layout DEF BackupSuperBlocks
  <2>. HIDE DEF B
  <2>. QED
    BY <2>1, <2>2
<1>4. \A g \in B : g * BITS_PER_BITMAP # 0
  <2>1. \A g \in B : g \in Nat \ {0}
    BY <1>1 DEF BackupGroups
  <2>2. \A g \in Nat \ {0} : g * BITS_PER_BITMAP # 0
    BY <1>1
  <2>. QED
    BY <2>1, <2>2
<1>5. 0 * BITS_PER_BITMAP = 0
  BY <1>1
<1>. HIDE DEF B
<1>. QED
  BY <1>2, <1>3, <1>4, <1>5 DEF SB0_BLOCK_NO

LEMMA FsMetaIs ==
  /\ FsMeta["SB_IDX"]        = FsSupers
  /\ FsMeta["BG_DESC_IDX"]   = {k + n : k \in FsSupers, n \in 1 .. FsDescBlocks}
  /\ FsMeta["BLK_BMP_IDX"]   = {FsDescs[g].bg_block_bitmap : g \in FsGroups}
  /\ FsMeta["INO_BMP_IDX"]   = {FsDescs[g].bg_inode_bitmap : g \in FsGroups}
  /\ FsMeta["INO_TABLE_IDX"] = {FsDescs[g].bg_inode_table + n : g \in FsGroups, n \in 0 .. FsTableBlocks - 1}
  /\ FsMeta["TMP_IDX"]       = {}
  /\ FsMeta = [v \in Vectors |-> FsMeta[v]]
  BY VectorNames DEF FsMeta

(* The descriptors behind super block 0.                                   *)
LEMMA FirstDescs ==
  /\ 1 .. FsDescBlocks \subseteq FsMeta["BG_DESC_IDX"]
  /\ \A k \in 1 .. FsDescBlocks : k \notin FsSupers
<1>1. \A n \in 1 .. FsDescBlocks : n = 0 + n
  OBVIOUS
<1>2. 1 .. FsDescBlocks \subseteq FsMeta["BG_DESC_IDX"]
  BY <1>1, FsMetaIs, SupersAre DEF SB0_BLOCK_NO
<1>3. FsMeta["BG_DESC_IDX"] \cap FsMeta["SB_IDX"] = {}
  BY LayoutAssumption, VectorNames
<1>. QED
  BY <1>2, <1>3, FsMetaIs

(* The block bitmaps are in the order of their groups.                     *)
LEMMA BitmapAt ==
  ASSUME NEW p \in Nat, p < Cardinality(FsMeta["BLK_BMP_IDX"])
  PROVE  p \in FsGroups /\ get_vect_element(FsMeta["BLK_BMP_IDX"], p) = FsDescs[p].bg_block_bitmap
<1>. DEFINE G == Cardinality(FsGroups)
            S == FsMeta["BLK_BMP_IDX"]
            bm == [g \in FsGroups |-> FsDescs[g].bg_block_bitmap]
            below == [g \in 0 .. p - 1 |-> bm[g]]
<1>1. G \in Nat /\ FsGroups = 0 .. G - 1 /\ IsFiniteSet(FsGroups)
  BY Layout
<1>2. S = {bm[g] : g \in FsGroups} /\ S \in SUBSET Blocks
  BY FsMetaIs, LayoutAssumption
<1>3. \A g \in FsGroups : bm[g] \in Int
  BY LayoutAssumption, DetectorAssumption DEF Blocks
<1>4. \A g, h \in FsGroups : g < h => bm[g] < bm[h]
  BY LayoutAssumption
<1>. HIDE DEF S, G
<1>5. \A g, h \in FsGroups : bm[g] = bm[h] => g = h
  BY <1>1, <1>3, <1>4
<1>6. Cardinality(S) = G
  <2>1. bm \in [FsGroups -> S]
    BY <1>2
  <2>2. bm \in Bijection(FsGroups, S)
    BY <1>2, <1>5, <2>1 DEF Bijection, Injection, Surjection, IsInjective
  <2>. QED
    BY <1>1, <2>2, FS_Bijection DEF ExistsBijection, G
<1>7. p \in FsGroups /\ \A g \in 0 .. p - 1 : g \in FsGroups
  BY <1>1, <1>6 DEF S
<1>8. Cardinality({j \in S : j < bm[p]}) = p
  <2>1. {j \in S : j < bm[p]} = {bm[g] : g \in 0 .. p - 1}
    <3>1. ASSUME NEW g \in FsGroups
          PROVE  bm[g] < bm[p] <=> g \in 0 .. p - 1
      <4>1. g \in Nat
        BY <1>1
      <4>2. bm[g] \in Int /\ bm[p] \in Int
        BY <1>3, <1>7
      <4>. HIDE DEF bm
      <4>. QED
        BY <1>4, <1>7, <4>1, <4>2
    <3>. HIDE DEF bm
    <3>. QED
      BY <1>2, <1>7, <3>1
  <2>. DEFINE T == {bm[g] : g \in 0 .. p - 1}
  <2>2. below \in [0 .. p - 1 -> T]
    OBVIOUS
  <2>3. \A g, h \in 0 .. p - 1 : below[g] = below[h] => g = h
    BY <1>5, <1>7
  <2>4. below \in Bijection(0 .. p - 1, T)
    BY <2>2, <2>3 DEF Bijection, Injection, Surjection, IsInjective
  <2>5. IsFiniteSet(0 .. p - 1) /\ Cardinality(0 .. p - 1) = p
    <3>1. 0 \in Int /\ p - 1 \in Int
      OBVIOUS
    <3>2. IsFiniteSet(0 .. p - 1)
          /\ Cardinality(0 .. p - 1) = IF 0 > p - 1 THEN 0 ELSE (p - 1) - 0 + 1
      BY <3>1, FS_Interval, Zenon
    <3>. QED
      BY <3>2
  <2>6. Cardinality(T) = p
    <3>. HIDE DEF T, below
    <3>. QED
      BY <2>4, <2>5, FS_Bijection DEF ExistsBijection
  <2>. QED
    BY <2>1, <2>6
<1>9. bm[p] \in S /\ p < Cardinality(S)
  BY <1>2, <1>7 DEF S
<1>. HIDE DEF bm
<1>10. get_vect_element(S, p) = bm[p]
  BY <1>2, <1>8, <1>9, ElementAt
<1>. QED
  BY <1>7, <1>10 DEF S, bm

----------------------------------------------------------------------------
(* One file system: what is read from its descriptors.                     *)

(* The descriptors of group after group fill the blocks one by one; the    *)
(* last block is not full if there is more than one.                       *)
LEMMA NumberOfDescs ==
  ASSUME sb0 = FsSuper, meta_blks["SB_IDX"] = FsSupers, NEW k \in 1 .. FsDescBlocks
  PROVE  get_number_of_BG_DESCs(k) =
           IF k < FsDescBlocks THEN DESCS_PER_BLOCK
           ELSE Cardinality(FsGroups) - (FsDescBlocks - 1) * DESCS_PER_BLOCK
<1>. DEFINE G == Cardinality(FsGroups)
            D == FsDescBlocks
            P == DESCS_PER_BLOCK
            Before(o) == k - o \in FsSupers /\ \A p \in 1 .. o - 1 : k - p \notin FsSupers
            offset == CHOOSE o \in 1 .. k : Before(o)
<1>1. /\ G \in Nat \ {0} /\ P \in Nat \ {0} /\ Pieces(G, P, D)
      /\ gd_cnt(sb0) = G /\ desc_blks(sb0) = D
      /\ D = 1 \/ G % P # 0
  BY Layout, LayoutAssumption, DetectorAssumption
<1>2. D \in Nat \ {0} /\ (D - 1) * P < G /\ G <= D * P
  BY <1>1 DEF Pieces
<1>3. get_number_of_BG_DESCs(k) = IF D <= 1 THEN G ELSE IF offset = D THEN G % P ELSE P
  BY <1>1 DEF get_number_of_BG_DESCs
<1>4. offset = k
  <2>1. k \in Nat \ {0} /\ k <= D
    BY <1>2
  <2>2. \A j \in 1 .. k : j \notin FsSupers
    BY <1>2, <2>1, FirstDescs
  <2>3. Before(k)
    <3>1. k - k = SB0_BLOCK_NO
      BY <2>1 DEF SB0_BLOCK_NO
    <3>2. \A p \in 1 .. k - 1 : k - p \in 1 .. k
      BY <2>1
    <3>. QED
      BY <2>2, <3>1, <3>2, SupersAre
  <2>4. \A o \in 1 .. k : Before(o) => o = k
    <3>1. \A o \in 1 .. k : o # k => k - o \in 1 .. k
      BY <2>1
    <3>. QED
      BY <2>2, <3>1
  <2>5. k \in 1 .. k
    BY <2>1
  <2>. HIDE DEF Before
  <2>. QED
    BY <2>3, <2>4, <2>5
<1>. HIDE DEF G, D, P, offset
<1>5. CASE D = 1
  <2>1. k = 1 /\ (D - 1) * P = 0
    BY <1>1, <1>5 DEF D
  <2>. QED
    BY <1>1, <1>3, <1>5, <2>1 DEF D, G, P
<1>6. CASE D # 1
  <2>. DEFINE q == G \div P
              r == G % P
  <2>1. q \in Int /\ r \in 1 .. P - 1 /\ G = P * q + r
    BY <1>1, <1>6
  <2>. HIDE DEF q, r
  <2>2. ((q + 1) - 1) * P = P * q /\ (q + 1) * P = P * q + P /\ P * q \in Int
    BY <1>1, <2>1
  <2>3. ((q + 1) - 1) * P < G /\ G <= (q + 1) * P
    BY <1>1, <2>1, <2>2
  <2>4. q + 1 = D
    BY <1>1, <1>2, <2>1, <2>3, PiecesUnique
  <2>5. r = G - (D - 1) * P
    <3>1. (D - 1) * P = P * q
      BY <1>1, <1>2, <2>1, <2>4
    <3>. QED
      BY <1>1, <2>1, <2>2, <3>1
  <2>6. k \in Int /\ k <= D
    BY <1>2 DEF D
  <2>7. ~ (D <= 1)
    BY <1>2, <1>6
  <2>8. get_number_of_BG_DESCs(k) = IF k = D THEN r ELSE P
    BY <1>3, <1>4, <2>7 DEF r
  <2>. QED
    BY <1>2, <2>5, <2>6, <2>8 DEF D, G, P
<1>. QED
  BY <1>5, <1>6

(* They are those of the groups, and all of them.                          *)
LEMMA DescsOfGroups ==
  ASSUME NEW num, num = [k \in 1 .. FsDescBlocks |->
                           IF k < FsDescBlocks THEN DESCS_PER_BLOCK
                           ELSE Cardinality(FsGroups) - (FsDescBlocks - 1) * DESCS_PER_BLOCK]
  PROVE  /\ \A k \in 1 .. FsDescBlocks : \A n \in 0 .. num[k] - 1 :
              n \in 0 .. DESCS_PER_BLOCK - 1 /\ (k - 1) * DESCS_PER_BLOCK + n \in FsGroups
         /\ \A g \in FsGroups : \E k \in 1 .. FsDescBlocks : \E n \in 0 .. num[k] - 1 :
              (k - 1) * DESCS_PER_BLOCK + n = g
<1>. DEFINE G == Cardinality(FsGroups)
            D == FsDescBlocks
            P == DESCS_PER_BLOCK
<1>1. /\ G \in Nat \ {0} /\ P \in Nat \ {0} /\ FsGroups = 0 .. G - 1
      /\ Pieces(G, P, D)
  BY Layout, DetectorAssumption
<1>2. D \in Nat \ {0} /\ (D - 1) * P < G /\ G <= D * P /\ (D - 1) * P \in Int /\ D * P \in Int
      /\ D * P = (D - 1) * P + P
  BY <1>1 DEF Pieces
<1>. HIDE DEF G, D, P
<1>3. num = [k \in 1 .. D |-> IF k < D THEN P ELSE G - (D - 1) * P]
  BY DEF G, D, P
<1>0. num[D] = G - (D - 1) * P
  <2>1. D \in 1 .. D /\ ~ (D < D)
    BY <1>2
  <2>. QED
    BY ONLY <1>3, <2>1
<1>4. ASSUME NEW k \in 1 .. D, NEW n \in 0 .. num[k] - 1
      PROVE  n \in 0 .. P - 1 /\ (k - 1) * P + n \in 0 .. G - 1
  <2>1. (k - 1) * P \in Nat
    BY <1>1, <1>2
  <2>2. CASE k < D
    <3>1. (k - 1) * P <= (D - 2) * P
      BY <1>1, <1>2, <2>2
    <3>2. (D - 2) * P = (D - 1) * P - P
      BY <1>1, <1>2
    <3>3. num[k] = P
      BY <1>3, <2>2
    <3>. QED
      BY <1>1, <1>2, <2>1, <3>1, <3>2, <3>3
  <2>3. CASE k = D
    <3>1. num[k] = G - (D - 1) * P /\ (k - 1) * P = (D - 1) * P
      BY <1>0, <2>3
    <3>. QED
      BY <1>1, <1>2, <2>1, <3>1
  <2>. QED
    BY <1>2, <2>2, <2>3
<1>5. ASSUME NEW g \in 0 .. G - 1
      PROVE  \E k \in 1 .. D : \E n \in 0 .. num[k] - 1 : (k - 1) * P + n = g
  <2>. DEFINE q == g \div P
              r == g % P
  <2>1. q \in Int /\ r \in 0 .. P - 1 /\ g = P * q + r
    BY <1>1
  <2>. HIDE DEF q, r
  <2>2. P * q \in Int
    BY <1>1, <2>1
  <2>3. q >= 0
    <3>1. CASE q <= -1
      <4>1. P * q <= -P
        BY <1>1, <2>1, <3>1
      <4>. QED
        BY <1>1, <2>1, <2>2, <4>1
    <3>. QED
      BY <2>1, <3>1
  <2>4. q + 1 <= D
    <3>1. CASE q >= D
      <4>1. P * q >= P * D
        BY <1>1, <1>2, <2>1, <3>1
      <4>2. P * D = D * P
        BY <1>1, <1>2
      <4>. QED
        BY <1>1, <1>2, <2>1, <2>2, <4>1, <4>2
    <3>. QED
      BY <1>2, <2>1, <3>1
  <2>5. q + 1 \in 1 .. D
    BY <1>2, <2>1, <2>3, <2>4
  <2>6. ((q + 1) - 1) * P + r = g
    <3>1. ((q + 1) - 1) * P = P * q
      BY <1>1, <2>1
    <3>. QED
      BY <2>1, <3>1
  <2>7. r \in 0 .. num[q + 1] - 1
    <3>1. CASE q + 1 < D
      BY <1>3, <2>1, <2>5, <3>1
    <3>2. CASE q + 1 = D
      <4>1. num[q + 1] = G - (D - 1) * P /\ (D - 1) * P = P * q
        <5>1. num[q + 1] = G - (D - 1) * P
          BY <1>0, <3>2
        <5>2. (D - 1) * P = P * q
          BY <1>1, <1>2, <2>1, <3>2
        <5>. QED
          BY <5>1, <5>2
      <4>. QED
        BY <1>1, <1>2, <2>1, <2>2, <4>1
    <3>. QED
      BY <1>2, <2>1, <2>4, <3>1, <3>2
  <2>. DEFINE Holds(k) == \E n \in 0 .. num[k] - 1 : (k - 1) * P + n = g
  <2>8. Holds(q + 1)
    <3>1. \E n \in 0 .. num[q + 1] - 1 : ((q + 1) - 1) * P + n = g
      <4>. WITNESS r \in 0 .. num[q + 1] - 1
      <4>. QED
        BY <2>6
    <3>. QED
      BY <3>1
  <2>9. \E k \in 1 .. D : Holds(k)
    <3>. HIDE DEF Holds
    <3>. QED
      BY <2>5, <2>8
  <2>. QED
    BY <2>9
<1>. QED
  BY <1>1, <1>4, <1>5 DEF D, P

LEMMA DescsRead ==
  ASSUME sb0 = FsSuper, meta_blks["SB_IDX"] = FsSupers,
         \A k \in 1 .. FsDescBlocks : \E w \in Writes : w[1] = k /\ w[2] = store[k]
  PROVE  UNION {group_descs(k) : k \in 1 .. FsDescBlocks} = {FsDescs[g] : g \in FsGroups}
<1>. DEFINE P == DESCS_PER_BLOCK
            num == [k \in 1 .. FsDescBlocks |->
                      IF k < FsDescBlocks THEN P
                      ELSE Cardinality(FsGroups) - (FsDescBlocks - 1) * P]
<1>1. \A k \in 1 .. FsDescBlocks : get_number_of_BG_DESCs(k) = num[k]
  BY NumberOfDescs
<1>2. /\ \A k \in 1 .. FsDescBlocks : \A n \in 0 .. num[k] - 1 :
           n \in 0 .. P - 1 /\ (k - 1) * P + n \in FsGroups
      /\ \A g \in FsGroups : \E k \in 1 .. FsDescBlocks : \E n \in 0 .. num[k] - 1 :
           (k - 1) * P + n = g
  BY DescsOfGroups
<1>. HIDE DEF num
<1>3. ASSUME NEW k \in 1 .. FsDescBlocks
      PROVE  /\ group_descs(k) = {store[k].descs[n] : n \in 0 .. num[k] - 1}
             /\ \A n \in 0 .. num[k] - 1 : store[k].descs[n] = FsDescs[(k - 1) * P + n]
  <2>1. PICK w \in Writes : w[1] = k /\ w[2] = store[k]
    OBVIOUS
  <2>2. /\ store[k].kind = "gd"
        /\ \A n \in 0 .. P - 1 : (k - 1) * P + n \in FsGroups
                                   => store[k].descs[n] = FsDescs[(k - 1) * P + n]
    BY <2>1, WritesAssumption
  <2>3. group_descs(k) = {store[k].descs[n] : n \in 0 .. num[k] - 1}
    BY <1>1, <2>2 DEF group_descs
  <2>. QED
    BY <1>2, <2>2, <2>3
<1>4. ASSUME NEW g \in FsGroups
      PROVE  \E k \in 1 .. FsDescBlocks : FsDescs[g] \in group_descs(k)
  <2>1. PICK k \in 1 .. FsDescBlocks : \E n \in 0 .. num[k] - 1 : (k - 1) * P + n = g
    BY <1>2
  <2>2. PICK n \in 0 .. num[k] - 1 : (k - 1) * P + n = g
    BY <2>1
  <2>3. FsDescs[g] = store[k].descs[n]
    BY <1>3, <2>2
  <2>. QED
    BY <1>3, <2>3
<1>5. \A k \in 1 .. FsDescBlocks : \A d \in group_descs(k) : \E g \in FsGroups : d = FsDescs[g]
  BY <1>2, <1>3
<1>. QED
  BY <1>4, <1>5

----------------------------------------------------------------------------
(* One file system: the invariant.                                         *)

(* The vectors that are filled in each status, and what is waited for.     *)
Filled(s) ==
  CASE s = "SB0_DETECTED" -> {"SB_IDX"}
    [] s = "SBs_DETECTED" -> {"SB_IDX", "BG_DESC_IDX"}
    [] OTHER              -> Flags

Awaited(s) ==
  CASE s = "SB0_DETECTED"        -> FsSupers \ {SB0_BLOCK_NO}
    [] s = "SBs_DETECTED"        -> 1 .. FsDescBlocks
    [] s = "BG_DESCs_DETECTED"   -> FsMeta["BLK_BMP_IDX"]
    [] s = "BLK_BITMAP_DETECTED" -> FsMeta["INO_BMP_IDX"]
    [] s = "INO_BITMAP_DETECTED" -> FsMeta["INO_TABLE_IDX"]
    [] OTHER                     -> {}

VectorsFound ==
  status # "NO_SB0" =>
    /\ sb0 = FsSuper
    /\ \A v \in Flags : meta_blks[v] = IF v \in Filled(status) THEN FsMeta[v] ELSE {}
    /\ meta_blks["TMP_IDX"] = Awaited(status)

FlagsFound ==
  status = "EXT2_DETECTED" =>
    \A k \in Blocks, v \in Flags : meta_flag[k] = v <=> k \in FsMeta[v]

(* What is on the disk, the host has written there.                        *)
FromHost == \A k \in Blocks : has_mapping(k) => \E w \in Writes : w[1] = k /\ w[2] = store[k]

BitmapsThere ==
  status \in {"BLK_BITMAP_DETECTED", "INO_BITMAP_DETECTED", "EXT2_DETECTED"} =>
    \A g \in FsGroups : has_mapping(FsDescs[g].bg_block_bitmap)

StageOK ==
  /\ pc = "detect" => status # "EXT2_DETECTED"
  /\ pc = "free" => status = "EXT2_DETECTED"
  /\ pc = "store" /\ status \notin {"NO_SB0", "EXT2_DETECTED"} => ~TmpMapped

FsInv == VectorsFound /\ FlagsFound /\ FromHost /\ BitmapsThere /\ StageOK

LEMMA InitFsInv == Init => FsInv
<1>. SUFFICES ASSUME Init PROVE FsInv
  OBVIOUS
<1>1. \A k \in Blocks : ~has_mapping(k)
  BY DEF Init, Disk!Init, has_mapping
<1>. QED
  BY <1>1 DEF Init, FsInv, VectorsFound, FlagsFound, FromHost, BitmapsThere, StageOK

(* Nothing is known before the super block is seen again.                  *)
LEMMA NothingKnown ==
  ASSUME FsInv, status' = "NO_SB0", UNCHANGED store, pc' \in {"detect", "store"}
  PROVE  FsInv'
  BY DEF FsInv, VectorsFound, FlagsFound, FromHost, BitmapsThere, StageOK, has_mapping

LEMMA LegalIsFs ==
  ASSUME NEW w \in Writes, w[1] = SB0_BLOCK_NO, is_legal_super_block(w[2], "sb0")
  PROVE  w[2].sb = FsSuper
  BY WritesAssumption DEF is_legal_super_block, FitsDisk

LEMMA CallKeepsFs ==
  ASSUME FsInv, NEW w \in Writes, Call(w)
  PROVE  FsInv'
<1>1. store' = store
  BY DEF Call
<1>2. CASE /\ UNCHANGED meta
           /\ \/ pc' = "detect" /\ status # "EXT2_DETECTED"
              \/ pc' = "store" /\ status = "EXT2_DETECTED"
  BY <1>1, <1>2 DEF FsInv, VectorsFound, FlagsFound, FromHost, BitmapsThere, StageOK, has_mapping, meta
<1>3. CASE /\ status = "EXT2_DETECTED" /\ w[1] = SB0_BLOCK_NO /\ pc' = "store"
           /\ HitSuperBlock(w[2]) /\ UNCHANGED meta_blks
  <2>1. CASE is_legal_super_block(w[2], "sb0") /\ sb0' = w[2].sb /\ UNCHANGED <<status, meta_flag>>
    <3>1. sb0' = FsSuper
      BY <1>3, <2>1, LegalIsFs
    <3>. QED
      BY <1>1, <1>3, <2>1, <3>1
      DEF FsInv, VectorsFound, FlagsFound, FromHost, BitmapsThere, StageOK, has_mapping
  <2>2. CASE status' = "NO_SB0"
    BY <1>1, <1>3, <2>2, NothingKnown
  <2>. QED
    BY <1>3, <2>1, <2>2 DEF HitSuperBlock
<1>4. CASE status # "EXT2_DETECTED"
  BY <1>2, <1>4 DEF Call
<1>5. CASE status = "EXT2_DETECTED" /\ w[1] # SB0_BLOCK_NO
  BY <1>2, <1>5 DEF Call
<1>6. CASE status = "EXT2_DETECTED" /\ w[1] = SB0_BLOCK_NO
  BY <1>3, <1>6 DEF Call
<1>. QED
  BY <1>4, <1>5, <1>6

(* Only a block that does not free metadata can be dropped.                *)
LEMMA MetadataKept ==
  ASSUME DetInv, FsInv, MarkOneGroup
  PROVE  LET bitmap == FsDescs[pos].bg_block_bitmap
         IN  /\ pos \in FsGroups /\ status = "EXT2_DETECTED" /\ store[bitmap].free \subseteq Bits
             /\ store' = [k \in Blocks |->
                   IF k \in {pos * BITS_PER_BITMAP + n : n \in store[bitmap].free}
                   THEN NoData ELSE store[k]]
             /\ \A n \in store[bitmap].free : pos * BITS_PER_BITMAP + n \notin MetaBlocks
<1>. DEFINE S == FsMeta["BLK_BMP_IDX"]
            bitmap == FsDescs[pos].bg_block_bitmap
            free == store[bitmap].free
<1>1. /\ status = "EXT2_DETECTED" /\ sb0 = FsSuper
      /\ \A v \in Flags : meta_blks[v] = IF v \in Filled(status) THEN FsMeta[v] ELSE {}
  BY DEF MarkOneGroup, FsInv, StageOK, VectorsFound
<1>2. meta_blks["BLK_BMP_IDX"] = S
  BY <1>1, VectorNames DEF Filled, Flags
<1>3. pos \in Nat /\ pos < Cardinality(S)
  BY <1>2 DEF MarkOneGroup, DetInv, TypeOK
<1>4. pos \in FsGroups /\ get_vect_element(S, pos) = bitmap
  BY <1>3, BitmapAt
<1>5. bitmap \in Blocks /\ has_mapping(bitmap)
  BY <1>1, <1>4, LayoutAssumption DEF FsInv, BitmapsThere
<1>6. PICK w \in Writes : w[1] = bitmap /\ w[2] = store[bitmap]
  BY <1>5 DEF FsInv, FromHost
<1>7. /\ store[bitmap].kind = "bmp" /\ free \subseteq Bits
      /\ \A n \in free : pos * BITS_PER_BITMAP + n \notin MetaBlocks
  BY <1>4, <1>6, WritesAssumption, HostAssumption
<1>8. Disk!Discard({group_start(pos) + n : n \in free})
  BY <1>2, <1>4, <1>5, <1>7 DEF MarkOneGroup, ClearBits
<1>9. \A n \in free : group_start(pos) + n = pos * BITS_PER_BITMAP + n
  <2>1. group_start(pos) = pos * BITS_PER_BITMAP + 0
    BY <1>1, Layout DEF group_start
  <2>2. pos * BITS_PER_BITMAP \in Nat
    BY <1>3, DetectorAssumption
  <2>. QED
    BY <2>1, <2>2
<1>10. {group_start(pos) + n : n \in free} = {pos * BITS_PER_BITMAP + n : n \in free}
  BY <1>9
<1>. HIDE DEF free
<1>11. store' = [k \in Blocks |-> IF k \in {pos * BITS_PER_BITMAP + n : n \in free} THEN NoData ELSE store[k]]
  BY <1>8, <1>10 DEF Disk!Discard
<1>. QED
  BY <1>1, <1>4, <1>7, <1>11 DEF free

LEMMA MarkKeepsFs ==
  ASSUME DetInv, FsInv, MarkOneGroup
  PROVE  FsInv'
<1>1. UNCHANGED <<meta, pc>> /\ pc = "free" /\ status = "EXT2_DETECTED"
  BY MetadataKept DEF MarkOneGroup
<1>2. \A k \in Blocks : store'[k] = NoData \/ store'[k] = store[k]
  BY MetadataKept
<1>3. \A k \in MetaBlocks : store'[k] = store[k]
  <2>1. MetaBlocks \subseteq Blocks
    BY LayoutAssumption
  <2>. QED
    BY <2>1, MetadataKept
<1>4. \A g \in FsGroups : FsDescs[g].bg_block_bitmap \in MetaBlocks
  BY FsMetaIs, VectorNames DEF MetaBlocks
<1>5. FromHost'
  BY <1>2 DEF FsInv, FromHost, has_mapping
<1>6. BitmapsThere'
  BY <1>1, <1>3, <1>4 DEF FsInv, BitmapsThere, has_mapping, meta
<1>. QED
  BY <1>1, <1>5, <1>6 DEF FsInv, VectorsFound, FlagsFound, StageOK, meta

LEMMA StoreKeepsFs ==
  ASSUME DetInv, FsInv, Store
  PROVE  FsInv'
<1>1. req \in Writes /\ req[1] \in Blocks /\ req[2] # NoData
  BY DetectorAssumption DEF Store, DetInv, TypeOK
<1>2. store' = [store EXCEPT ![req[1]] = req[2]] /\ DOMAIN store = Blocks
  BY DEF Store, Disk!Write, blk_no, buf, DetInv, TypeOK
<1>3. \A k \in Blocks : store'[k] = IF k = req[1] THEN req[2] ELSE store[k]
  BY <1>2
<1>4. FromHost'
  BY <1>1, <1>3 DEF FsInv, FromHost, has_mapping
<1>5. \A g \in FsGroups : FsDescs[g].bg_block_bitmap \in Blocks
  BY LayoutAssumption
<1>6. BitmapsThere'
  BY <1>1, <1>3, <1>5 DEF FsInv, BitmapsThere, has_mapping, Store, meta
<1>. QED
  BY <1>4, <1>6 DEF Store, FsInv, VectorsFound, FlagsFound, StageOK, meta

(* What the next detector has to find.                                     *)
LEMMA StageKeepsFs ==
  ASSUME FsInv, UNCHANGED store, pc' = "detect",
         status' \in Statuses \ {"NO_SB0", "EXT2_DETECTED"}, sb0' = FsSuper,
         \A v \in Flags : meta_blks'[v] = IF v \in Filled(status') THEN FsMeta[v] ELSE {},
         meta_blks'["TMP_IDX"] = Awaited(status'),
         status' \in {"BLK_BITMAP_DETECTED", "INO_BITMAP_DETECTED"} =>
           \A g \in FsGroups : has_mapping(FsDescs[g].bg_block_bitmap)
  PROVE  FsInv'
  BY DEF FsInv, VectorsFound, FlagsFound, FromHost, BitmapsThere, StageOK, has_mapping

LEMMA FirstStageKeepsFs ==
  ASSUME DetInv, FsInv, Detect, detect_SB0_if_NO_SB0, ~GiveUp
  PROVE  FsInv'
<1>1. /\ req[1] = SB0_BLOCK_NO /\ is_legal_super_block(req[2], "sb0")
      /\ status' = "SB0_DETECTED" /\ pc' = "detect" /\ sb0' = req[2].sb
      /\ meta_blks' = [v \in Vectors |->
              IF v = "SB_IDX" THEN {SB0_BLOCK_NO} \cup BackupSuperBlocks(req[2].sb)
              ELSE IF v = "TMP_IDX" THEN BackupSuperBlocks(req[2].sb)
              ELSE {}]
  BY DEF detect_SB0_if_NO_SB0, buf, blk_no, Succeed
<1>2. req \in Writes /\ store' = store
  BY DEF Detect, DetInv, TypeOK
<1>3. req[2].sb = FsSuper
  BY <1>1, <1>2, LegalIsFs
<1>4. \A v \in Flags : meta_blks'[v] = IF v = "SB_IDX" THEN FsSupers ELSE {}
  BY <1>1, <1>3, SupersAre, VectorNames
<1>5. meta_blks'["TMP_IDX"] = FsSupers \ {SB0_BLOCK_NO}
  BY <1>1, <1>3, SupersAre, VectorNames
<1>6. /\ \A v \in Flags : meta_blks'[v] = IF v \in Filled(status') THEN FsMeta[v] ELSE {}
      /\ meta_blks'["TMP_IDX"] = Awaited(status')
  BY <1>1, <1>4, <1>5, FsMetaIs DEF Filled, Awaited
<1>. QED
  BY <1>1, <1>2, <1>3, <1>6, StageKeepsFs DEF Statuses

LEMMA SecondStageKeepsFs ==
  ASSUME DetInv, FsInv, Detect, detect_SBs_if_SB0, ~GiveUp
  PROVE  FsInv'
<1>. DEFINE behind(k) == {k + 1 + n : n \in 0 .. desc_blks(sb0) - 1}
<1>1. /\ status = "SB0_DETECTED" /\ sb0' = sb0 /\ store' = store
      /\ sb0 = FsSuper /\ meta_blks \in [Vectors -> SUBSET Blocks]
      /\ \A v \in Flags : meta_blks[v] = IF v \in Filled(status) THEN FsMeta[v] ELSE {}
  BY DEF detect_SBs_if_SB0, Detect, FsInv, VectorsFound, DetInv, TypeOK
<1>2. CASE status' = "NO_SB0" /\ pc' = "store"
  BY <1>1, <1>2, NothingKnown
<1>3. CASE /\ status' = "SBs_DETECTED" /\ pc' = "detect"
           /\ meta_blks' = [meta_blks EXCEPT
                !["BG_DESC_IDX"] = @ \cup UNION {behind(k) : k \in meta_blks["SB_IDX"]},
                !["TMP_IDX"]     = behind(SB0_BLOCK_NO)]
  <2>1. \A v \in Flags : meta_blks[v] = IF v = "SB_IDX" THEN FsSupers ELSE {}
    BY <1>1, FsMetaIs DEF Filled
  <2>2. desc_blks(sb0) = FsDescBlocks /\ FsDescBlocks \in Nat
    BY <1>1, Layout DEF Pieces
  <2>3. FsSupers \subseteq Int
    BY LayoutAssumption, DetectorAssumption, FsMetaIs, VectorNames DEF MetaBlocks, Blocks
  <2>4. UNION {behind(k) : k \in FsSupers} = FsMeta["BG_DESC_IDX"]
    <3>1. ASSUME NEW k \in FsSupers
          PROVE  behind(k) = {k + n : n \in 1 .. FsDescBlocks}
      <4>1. k \in Int
        BY <2>3
      <4>2. \A n \in 0 .. FsDescBlocks - 1 : n + 1 \in 1 .. FsDescBlocks /\ k + 1 + n = k + (n + 1)
        BY <2>2, <4>1
      <4>3. \A n \in 1 .. FsDescBlocks : n - 1 \in 0 .. FsDescBlocks - 1 /\ k + 1 + (n - 1) = k + n
        BY <2>2, <4>1
      <4>. QED
        BY <2>2, <4>2, <4>3
    <3>. HIDE DEF behind
    <3>. QED
      BY <3>1, FsMetaIs
  <2>5. behind(SB0_BLOCK_NO) = 1 .. FsDescBlocks
    <3>1. \A n \in 0 .. FsDescBlocks - 1 : 0 + 1 + n \in 1 .. FsDescBlocks
      BY <2>2
    <3>2. \A n \in 1 .. FsDescBlocks : n - 1 \in 0 .. FsDescBlocks - 1 /\ 0 + 1 + (n - 1) = n
      BY <2>2
    <3>. QED
      BY <2>2, <3>1, <3>2 DEF SB0_BLOCK_NO
  <2>. HIDE DEF behind
  <2>6. \A v \in Flags : meta_blks'[v] = IF v \in {"SB_IDX", "BG_DESC_IDX"} THEN FsMeta[v] ELSE {}
    BY <1>1, <1>3, <2>1, <2>4, VectorNames, FsMetaIs
  <2>7. meta_blks'["TMP_IDX"] = 1 .. FsDescBlocks
    BY <1>1, <1>3, <2>5, VectorNames
  <2>8. /\ \A v \in Flags : meta_blks'[v] = IF v \in Filled(status') THEN FsMeta[v] ELSE {}
        /\ meta_blks'["TMP_IDX"] = Awaited(status')
    BY <1>3, <2>6, <2>7 DEF Filled, Awaited
  <2>. QED
    BY <1>1, <1>3, <2>8, StageKeepsFs DEF Statuses
<1>. QED
  BY <1>2, <1>3 DEF detect_SBs_if_SB0, Succeed

LEMMA ThirdStageKeepsFs ==
  ASSUME DetInv, FsInv, Detect, detect_BG_DESCs_if_SBs, ~GiveUp
  PROVE  FsInv'
<1>. DEFINE D == UNION {group_descs(k) : k \in meta_blks["TMP_IDX"]}
            bitmaps == {d.bg_block_bitmap : d \in D}
            inobmps == {d.bg_inode_bitmap : d \in D}
            tables == UNION {{d.bg_inode_table + n : n \in 0 .. itable_blks(sb0) - 1} : d \in D}
<1>1. /\ status = "SBs_DETECTED" /\ status' = "BG_DESCs_DETECTED" /\ pc' = "detect"
      /\ sb0' = sb0 /\ store' = store /\ TmpMapped
      /\ sb0 = FsSuper /\ meta_blks \in [Vectors -> SUBSET Blocks]
      /\ meta_blks["TMP_IDX"] = 1 .. FsDescBlocks
      /\ \A v \in Flags : meta_blks[v] = IF v \in {"SB_IDX", "BG_DESC_IDX"} THEN FsMeta[v] ELSE {}
  BY DEF detect_BG_DESCs_if_SBs, Succeed, Detect, FsInv, VectorsFound, Filled, Awaited, DetInv, TypeOK
<1>2. meta_blks' = [meta_blks EXCEPT
              !["BLK_BMP_IDX"]   = @ \cup bitmaps,
              !["INO_BMP_IDX"]   = @ \cup inobmps,
              !["INO_TABLE_IDX"] = @ \cup tables,
              !["TMP_IDX"]       = meta_blks["BLK_BMP_IDX"] \cup bitmaps]
  BY DEF detect_BG_DESCs_if_SBs
<1>3. D = {FsDescs[g] : g \in FsGroups}
  <2>1. \A k \in 1 .. FsDescBlocks : \E w \in Writes : w[1] = k /\ w[2] = store[k]
    <3>1. \A k \in 1 .. FsDescBlocks : k \in Blocks /\ has_mapping(k)
      BY <1>1, VectorNames DEF TmpMapped, all_elements_mapped
    <3>. QED
      BY <3>1 DEF FsInv, FromHost
  <2>2. meta_blks["SB_IDX"] = FsSupers
    BY <1>1, VectorNames, FsMetaIs
  <2>. QED
    BY <1>1, <2>1, <2>2, DescsRead
<1>4. itable_blks(sb0) = FsTableBlocks
  BY <1>1, Layout
<1>. HIDE DEF D
<1>5. bitmaps = FsMeta["BLK_BMP_IDX"] /\ inobmps = FsMeta["INO_BMP_IDX"]
  BY <1>3, FsMetaIs
<1>6. tables = FsMeta["INO_TABLE_IDX"]
  BY <1>3, <1>4, FsMetaIs
<1>. HIDE DEF bitmaps, inobmps, tables
<1>7. \A v \in Flags : meta_blks'[v] = FsMeta[v]
  <2>1. \A v \in {"SB_IDX", "BG_DESC_IDX"} : meta_blks'[v] = FsMeta[v]
    BY <1>1, <1>2, VectorNames
  <2>2. \A v \in {"BLK_BMP_IDX", "INO_BMP_IDX", "INO_TABLE_IDX"} : meta_blks[v] = {}
    BY <1>1, VectorNames
  <2>3. \A v \in {"BLK_BMP_IDX", "INO_BMP_IDX", "INO_TABLE_IDX"} : meta_blks'[v] = FsMeta[v]
    BY <1>1, <1>2, <1>5, <1>6, <2>2, VectorNames
  <2>. QED
    BY <2>1, <2>3, VectorNames
<1>8. meta_blks'["TMP_IDX"] = FsMeta["BLK_BMP_IDX"]
  BY <1>1, <1>2, <1>5, VectorNames
<1>9. /\ \A v \in Flags : meta_blks'[v] = IF v \in Filled(status') THEN FsMeta[v] ELSE {}
      /\ meta_blks'["TMP_IDX"] = Awaited(status')
  BY <1>1, <1>7, <1>8 DEF Filled, Awaited, Flags
<1>. QED
  BY <1>1, <1>9, StageKeepsFs DEF Statuses

LEMMA WaitingKeepsFs ==
  ASSUME DetInv, FsInv, Detect, detect_BLK_BMP_if_BG_DESCs \/ detect_INO_BMP_if_BLK_BMP, ~GiveUp
  PROVE  FsInv'
<1>1. /\ sb0' = sb0 /\ store' = store /\ TmpMapped /\ pc' = "detect"
      /\ status \in {"BG_DESCs_DETECTED", "BLK_BITMAP_DETECTED"}
      /\ sb0 = FsSuper /\ meta_blks \in [Vectors -> SUBSET Blocks]
      /\ \A v \in Flags : meta_blks[v] = FsMeta[v]
      /\ meta_blks["TMP_IDX"] = Awaited(status)
  BY DEF detect_BLK_BMP_if_BG_DESCs, detect_INO_BMP_if_BLK_BMP, Await, Succeed,
         Detect, FsInv, VectorsFound, Filled, Flags, DetInv, TypeOK
<1>2. CASE detect_BLK_BMP_if_BG_DESCs
  <2>1. /\ status = "BG_DESCs_DETECTED" /\ status' = "BLK_BITMAP_DETECTED"
        /\ meta_blks' = [meta_blks EXCEPT !["TMP_IDX"] = meta_blks["INO_BMP_IDX"]]
    BY <1>2 DEF detect_BLK_BMP_if_BG_DESCs, Await, Succeed
  <2>2. \A g \in FsGroups : has_mapping(FsDescs[g].bg_block_bitmap)
    BY <1>1, <2>1, FsMetaIs DEF TmpMapped, all_elements_mapped, Awaited
  <2>3. /\ \A v \in Flags : meta_blks'[v] = FsMeta[v]
        /\ meta_blks'["TMP_IDX"] = FsMeta["INO_BMP_IDX"]
    BY <1>1, <2>1, VectorNames
  <2>4. /\ \A v \in Flags : meta_blks'[v] = IF v \in Filled(status') THEN FsMeta[v] ELSE {}
        /\ meta_blks'["TMP_IDX"] = Awaited(status')
    BY <2>1, <2>3 DEF Filled, Awaited, Flags
  <2>. QED
    BY <1>1, <2>1, <2>2, <2>4, StageKeepsFs DEF Statuses
<1>3. CASE detect_INO_BMP_if_BLK_BMP
  <2>1. /\ status = "BLK_BITMAP_DETECTED" /\ status' = "INO_BITMAP_DETECTED"
        /\ meta_blks' = [meta_blks EXCEPT !["TMP_IDX"] = meta_blks["INO_TABLE_IDX"]]
    BY <1>3 DEF detect_INO_BMP_if_BLK_BMP, Await, Succeed
  <2>2. \A g \in FsGroups : has_mapping(FsDescs[g].bg_block_bitmap)
    BY <2>1 DEF FsInv, BitmapsThere
  <2>3. /\ \A v \in Flags : meta_blks'[v] = FsMeta[v]
        /\ meta_blks'["TMP_IDX"] = FsMeta["INO_TABLE_IDX"]
    BY <1>1, <2>1, VectorNames
  <2>4. /\ \A v \in Flags : meta_blks'[v] = IF v \in Filled(status') THEN FsMeta[v] ELSE {}
        /\ meta_blks'["TMP_IDX"] = Awaited(status')
    BY <2>1, <2>3 DEF Filled, Awaited, Flags
  <2>. QED
    BY <1>1, <2>1, <2>2, <2>4, StageKeepsFs DEF Statuses
<1>. QED
  BY <1>2, <1>3

(* The last detector flags each block for the one vector that names it.    *)
LEMMA LastStageKeepsFs ==
  ASSUME DetInv, FlagInv, FsInv, Detect, detect_INO_TABLE_if_INO_BMP, ~GiveUp
  PROVE  FsInv'
<1>1. /\ status = "INO_BITMAP_DETECTED" /\ status' = "EXT2_DETECTED" /\ pc' = "free"
      /\ sb0' = sb0 /\ store' = store /\ sb0 = FsSuper
      /\ meta_blks' = [meta_blks EXCEPT !["TMP_IDX"] = {}] /\ meta_flag' = SetFlags
      /\ meta_blks \in [Vectors -> SUBSET Blocks]
      /\ \A v \in Flags : meta_blks[v] = FsMeta[v]
  BY DEF detect_INO_TABLE_if_INO_BMP, Detect, FsInv, VectorsFound, Filled, Flags, DetInv, TypeOK
<1>2. /\ \A v \in Flags : meta_blks'[v] = FsMeta[v]
      /\ meta_blks'["TMP_IDX"] = {}
  BY <1>1, VectorNames
<1>3. VectorsFound'
  BY <1>1, <1>2 DEF VectorsFound, Filled, Awaited, Flags
<1>4. ASSUME NEW k \in Blocks, NEW v \in Flags
      PROVE  meta_flag'[k] = v <=> k \in FsMeta[v]
  <2>. DEFINE S == {n \in DOMAIN idx_2_flag : k \in meta_blks[idx_2_flag[n]]}
  <2>1. meta_flag'[k] = IF S = {} THEN "none" ELSE idx_2_flag[Max(S)]
    BY <1>1, NoneFlagged DEF SetFlags
  <2>2. S # {} => Max(S) \in S
    BY FlagNames, MaxOfIndexes
  <2>. HIDE DEF S
  <2>3. S # {} => idx_2_flag[Max(S)] \in Flags /\ k \in FsMeta[idx_2_flag[Max(S)]]
    BY <1>1, <2>2, FlagNames DEF S
  <2>4. \A u \in Flags : k \in FsMeta[u] /\ k \in FsMeta[v] => u = v
    BY LayoutAssumption, FlagNames
  <2>5. k \in FsMeta[v] => S # {}
    BY <1>1 DEF S, Flags, Range
  <2>6. v # "none"
    BY FlagNames
  <2>. QED
    BY <2>1, <2>3, <2>4, <2>5, <2>6
<1>5. FlagsFound'
  BY <1>4 DEF FlagsFound
<1>. QED
  BY <1>1, <1>3, <1>5 DEF FsInv, FromHost, BitmapsThere, StageOK, has_mapping

LEMMA DetectKeepsFs ==
  ASSUME DetInv, FlagInv, FsInv, Detect
  PROVE  FsInv'
<1>1. CASE GiveUp
  <2>1. status = "NO_SB0" \/ ~TmpMapped
    BY <1>1 DEF Detect, GiveUp, meta, Succeed, detect_SB0_if_NO_SB0, detect_SBs_if_SB0,
       detect_BG_DESCs_if_SBs, detect_BLK_BMP_if_BG_DESCs, detect_INO_BMP_if_BLK_BMP, Await,
       detect_INO_TABLE_if_INO_BMP
  <2>2. UNCHANGED <<meta, store>> /\ pc' = "store"
    BY <1>1 DEF GiveUp, Detect
  <2>. QED
    BY <2>1, <2>2 DEF FsInv, VectorsFound, FlagsFound, FromHost, BitmapsThere, StageOK,
       has_mapping, meta, TmpMapped, all_elements_mapped
<1>2. CASE ~GiveUp
  BY <1>2, FirstStageKeepsFs, SecondStageKeepsFs, ThirdStageKeepsFs, WaitingKeepsFs, LastStageKeepsFs
  DEF Detect
<1>. QED
  BY <1>1, <1>2

FsAlways == DetInv /\ FlagInv /\ FsInv

LEMMA NextKeepsFs == FsAlways /\ [Next]_vars => FsInv'
<1>. SUFFICES ASSUME FsAlways, [Next]_vars PROVE FsInv'
  OBVIOUS
<1>0. DetInv /\ FlagInv /\ FsInv
  BY DEF FsAlways
<1>1. ASSUME NEW w \in Writes, Call(w) PROVE FsInv'
  BY <1>0, <1>1, CallKeepsFs
<1>2. CASE Detect
  BY <1>0, <1>2, DetectKeepsFs
<1>3. CASE MarkOneGroup
  BY <1>0, <1>3, MarkKeepsFs
<1>4. CASE Store
  BY <1>0, <1>4, StoreKeepsFs
<1>5. CASE AllMarked \/ PowerOn \/ UNCHANGED vars
  BY <1>0, <1>5 DEF AllMarked, PowerOn, vars, meta, FsInv, VectorsFound, FlagsFound, FromHost,
     BitmapsThere, StageOK, has_mapping, TmpMapped, all_elements_mapped
<1>. QED
  BY <1>1, <1>2, <1>3, <1>4, <1>5 DEF Next, Step

LEMMA AlwaysFs == Spec => []FsAlways
<1>1. Init => FsInv
  BY InitFsInv
<1>2. FsAlways <=> DetInv /\ FlagInv /\ FsInv
  BY DEF FsAlways
<1>. QED
  BY <1>1, <1>2, NextKeepsFs, AlwaysDetInv, AlwaysFlagInv, PTL DEF Spec

(* EXT2_DETECTED means that exactly the metadata of the file system has    *)
(* been found, each block in its vector and with its flag: for a file      *)
(* system of any size, laid out as LayoutAssumption says, and its blocks   *)
(* written in any order (ext2_meta.c:90-287, 402-423).                     *)
THEOREM MetadataDetected == Spec => []DetectedExactly
<1>1. FsAlways => DetectedExactly
  <2>. SUFFICES ASSUME FsAlways, status = "EXT2_DETECTED"
                PROVE  /\ meta_blks = FsMeta
                       /\ \A k \in Blocks, v \in Vectors : meta_flag[k] = v <=> k \in FsMeta[v]
                       /\ \A k \in Blocks : meta_flag[k] = "none" <=> k \notin MetaBlocks
    BY DEF DetectedExactly
  <2>1. /\ \A v \in Flags : meta_blks[v] = FsMeta[v]
        /\ meta_blks["TMP_IDX"] = {}
    BY DEF FsAlways, FsInv, VectorsFound, Filled, Awaited, Flags
  <2>2. \A v \in Vectors : meta_blks[v] = FsMeta[v]
    BY <2>1, VectorNames, FsMetaIs
  <2>3. meta_blks = [v \in Vectors |-> meta_blks[v]]
    BY DEF FsAlways, FlagInv, TablesOK
  <2>4. meta_blks = FsMeta
    BY <2>2, <2>3, FsMetaIs
  <2>5. \A k \in Blocks : meta_flag[k] \in Flags \cup {"none"}
    BY DEF FsAlways, FlagInv, TablesOK
  <2>6. \A k \in Blocks, v \in Flags : meta_flag[k] = v <=> k \in FsMeta[v]
    BY DEF FsAlways, FsInv, FlagsFound
  <2>7. \A k \in Blocks, v \in Vectors : meta_flag[k] = v <=> k \in FsMeta[v]
    BY <2>5, <2>6, FlagNames, VectorNames, FsMetaIs
  <2>8. \A k \in Blocks : meta_flag[k] = "none" <=> \A v \in Vectors : k \notin FsMeta[v]
    BY <2>5, <2>6, FlagNames, VectorNames, FsMetaIs
  <2>9. \A k \in Blocks : k \notin MetaBlocks <=> \A v \in Vectors : k \notin FsMeta[v]
    BY DEF MetaBlocks
  <2>. QED
    BY <2>4, <2>7, <2>8, <2>9
<1>. QED
  BY <1>1, AlwaysFs, PTL

(* With super block 0 seen and every block of metadata on the disk, no     *)
(* write is answered before the file system is found, whichever block came *)
(* last (stl.c:395, ext2_meta.c:73-86).                                    *)
THEOREM DetectionInTime == Spec => []DetectionNotLate
<1>1. FsAlways => DetectionNotLate
  <2>. SUFFICES ASSUME FsAlways, pc = "store", status # "NO_SB0", status # "EXT2_DETECTED",
                       \A k \in MetaBlocks : has_mapping(k)
                PROVE  FALSE
    BY DEF DetectionNotLate
  <2>1. ~TmpMapped /\ meta_blks["TMP_IDX"] = Awaited(status) /\ status \in Statuses
    BY DEF FsAlways, FsInv, StageOK, VectorsFound, DetInv, TypeOK
  <2>2. \A v \in Flags : FsMeta[v] \subseteq MetaBlocks
    BY VectorNames DEF MetaBlocks
  <2>3. /\ FsSupers \subseteq MetaBlocks /\ 1 .. FsDescBlocks \subseteq MetaBlocks
        /\ FsMeta["BLK_BMP_IDX"] \subseteq MetaBlocks /\ FsMeta["INO_BMP_IDX"] \subseteq MetaBlocks
        /\ FsMeta["INO_TABLE_IDX"] \subseteq MetaBlocks
    BY <2>2, FsMetaIs, FirstDescs, VectorNames
  <2>4. Awaited(status) \subseteq MetaBlocks
    BY <2>1, <2>3 DEF Awaited, Statuses
  <2>. QED
    BY <2>1, <2>4 DEF TmpMapped, all_elements_mapped
<1>. QED
  BY <1>1, AlwaysFs, PTL

(* Blocks are numbered group by group.                                     *)
LEMMA GroupOfBlock ==
  ASSUME NEW U \in Nat \ {0}, NEW g \in Nat, NEW n \in 0 .. U - 1
  PROVE  (g * U + n) \div U = g /\ (g * U + n) % U = n
<1>. DEFINE z == g * U + n
            q == z \div U
            m == z % U
<1>1. g * U \in Nat
  OBVIOUS
<1>2. z \in Nat
  BY <1>1
<1>3. q \in Int /\ m \in 0 .. U - 1 /\ z = U * q + m
  BY <1>2
<1>4. q = g
  <2>1. CASE q <= g - 1
    <3>1. U * q <= U * (g - 1)
      BY <1>3, <2>1
    <3>2. U * (g - 1) = g * U - U
      OBVIOUS
    <3>. QED
      BY <1>1, <1>2, <1>3, <3>1, <3>2
  <2>2. CASE q >= g + 1
    <3>1. U * q >= U * (g + 1)
      BY <1>3, <2>2
    <3>2. U * (g + 1) = g * U + U
      OBVIOUS
    <3>. QED
      BY <1>1, <1>2, <1>3, <3>1, <3>2
  <2>. QED
    BY <1>3, <2>1, <2>2
<1>5. U * q = g * U
  BY <1>4
<1>. HIDE DEF z, q, m
<1>6. m = n
  BY <1>1, <1>3, <1>5 DEF z
<1>. QED
  BY <1>4, <1>6 DEF z, q, m

(* A block loses its data only if the bitmap of its own group, as it is on *)
(* the disk, says that it is free, whatever the order of writes and power  *)
(* cycles (ext2_meta.c:428-485).                                           *)
THEOREM OnlyFreeDropped == Spec => DroppedOnlyIfFree
<1>. DEFINE Dropped(k) == has_mapping(k) /\ ~has_mapping(k)'
            IsFree(k) == LET g == k \div BITS_PER_BITMAP
                         IN  /\ g \in FsGroups
                             /\ k % BITS_PER_BITMAP \in store[FsDescs[g].bg_block_bitmap].free
<1>1. FsAlways /\ [Next]_vars => [\A k \in Blocks : Dropped(k) => IsFree(k)]_vars
  <2>. SUFFICES ASSUME FsAlways, [Next]_vars, NEW k \in Blocks, Dropped(k)
                PROVE  IsFree(k)
    OBVIOUS
  <2>0. DetInv /\ FsInv /\ store[k] # NoData /\ store'[k] = NoData
    BY DEF FsAlways, has_mapping
  <2>1. CASE MarkOneGroup
    <3>. DEFINE bitmap == FsDescs[pos].bg_block_bitmap
    <3>1. /\ pos \in FsGroups /\ store[bitmap].free \subseteq Bits
          /\ k \in {pos * BITS_PER_BITMAP + n : n \in store[bitmap].free}
      BY <2>0, <2>1, MetadataKept
    <3>2. PICK n \in store[bitmap].free : k = pos * BITS_PER_BITMAP + n
      BY <3>1
    <3>3. n \in 0 .. BITS_PER_BITMAP - 1 /\ pos \in Nat /\ BITS_PER_BITMAP \in Nat \ {0}
      BY <2>0, <3>1, DetectorAssumption DEF Bits, DetInv, TypeOK
    <3>4. k \div BITS_PER_BITMAP = pos /\ k % BITS_PER_BITMAP = n
      BY <3>2, <3>3, GroupOfBlock
    <3>. QED
      BY <3>1, <3>2, <3>4
  <2>2. CASE Store
    <3>1. req \in Writes /\ req[2] # NoData
      BY <2>0, <2>2, DetectorAssumption DEF Store, DetInv, TypeOK
    <3>2. store' = [store EXCEPT ![req[1]] = req[2]] /\ DOMAIN store = Blocks
      BY <2>0, <2>2 DEF Store, Disk!Write, blk_no, buf, DetInv, TypeOK
    <3>. QED
      BY <2>0, <3>1, <3>2
  <2>3. CASE store' = store
    BY <2>0, <2>3
  <2>4. \/ MarkOneGroup \/ Store \/ store' = store
    BY DEF Next, Step, Call, Detect, AllMarked, PowerOn, vars
  <2>. QED
    BY <2>1, <2>2, <2>3, <2>4
<1>2. Spec => [][\A k \in Blocks : Dropped(k) => IsFree(k)]_vars
  <2>. HIDE DEF Dropped, IsFree
  <2>. QED
    BY <1>1, AlwaysFs, PTL DEF Spec
<1>. QED
  BY <1>2 DEF DroppedOnlyIfFree

============================================================================
