--------------------------- MODULE MemDiskProofs ---------------------------
(***************************************************************************)
(* What load_smr_ctrl finds where it looks is what save_smr_ctrl wrote     *)
(* there: the offsets of the parts in the control file depend on the       *)
(* lengths of the vectors before them, which are read just before.         *)
(***************************************************************************)
EXTENDS MemDisk, TLAPS, FiniteSetTheorems, SequenceTheorems

(* How many cells of the control file a part of context c takes, and which. *)
Size(c, part) == IF part \in Structures THEN 1 ELSE Cardinality(c.vect[part])
CellOf(c, part, i) ==
  IF part \in Structures
  THEN [name |-> part, body |-> c.body[part], len |-> [v \in VectorsOf(part) |-> Cardinality(c.vect[v])]]
  ELSE [number |-> get_vect_element(c.vect[part], i - 1)]

(* The first m - 1 parts of context c are in the file, each at its offset. *)
LaidAt(c, file, off, m) ==
  /\ off \in [1 .. m -> Nat] /\ off[1] = 0
  /\ \A k \in 1 .. m - 1 : off[k + 1] = off[k] + Size(c, Layout[k])
  /\ \A k \in 1 .. m : off[k] <= off[m]
  /\ off[m] <= Len(file)
  /\ \A k \in 1 .. m - 1 : \A i \in 1 .. Size(c, Layout[k]) : file[off[k] + i] = CellOf(c, Layout[k], i)
Laid(c, file, m, at) == \E off \in [1 .. m -> Nat] : LaidAt(c, file, off, m) /\ off[m] = at

(* The parts before the n-th have been read as they are in context c.      *)
ReadSoFar(c) ==
  \A k \in 1 .. n - 1 :
    IF Layout[k] \in Structures
    THEN /\ body[Layout[k]] = c.body[Layout[k]]
         /\ \A v \in VectorsOf(Layout[k]) : len[v] = Cardinality(c.vect[v])
    ELSE vect[Layout[k]] = c.vect[Layout[k]]

CellOK(cell) ==
  \/ /\ DOMAIN cell = {"number"}
     /\ cell.number \in Nat
  \/ /\ DOMAIN cell = {"name", "body", "len"}
     /\ cell.name \in Structures
     /\ DOMAIN cell.body = DOMAIN Zero[cell.name]
     /\ cell.len \in [VectorsOf(cell.name) -> Nat]

CtrlOK ==
  /\ ctrl_file \in Seq(Range(ctrl_file))
  /\ \A i \in 1 .. Len(ctrl_file) : CellOK(ctrl_file[i])

(* rw_ptr has moved by whole blocks, and is ahead of pos for good once a   *)
(* transfer was cut short.                                                 *)
InStep ==
  /\ pos <= rw_ptr /\ pos <= ImageSize
  /\ pos = ImageSize => rw_ptr = ImageSize
  /\ \E j \in Nat : rw_ptr = j * EXT2_BLOCK_SIZE

Agree == pos = rw_ptr => \A i \in 1 .. pos : data[i] = disk_file[i]

DiskOK ==
  /\ pc = "load_disk" => /\ InStep /\ n = 1
                         /\ Len(disk_file) = ImageSize
                         /\ Agree
  /\ pc = "load_ctrl" => data = disk_file /\ rw_ptr = ImageSize
  /\ pc = "save_disk" => /\ InStep /\ n = 1
                         /\ pos <= Len(disk_file)
                         /\ Agree
                         /\ pos > 0 => saved = Junk
  /\ pc = "save_ctrl" => saved = Junk /\ disk_file = data /\ rw_ptr = ImageSize
  /\ pc = "oops" => pos < rw_ptr

SaveOK ==
  pc = "save_ctrl" => pos <= Len(ctrl_file) /\ (~unnoticed => Laid(Context, ctrl_file, n, pos))

SavedOK ==
  saved # Junk =>
    /\ saved = [data |-> saved.data, body |-> saved.body, vect |-> saved.vect]
    /\ saved.data = disk_file
    /\ BodyOK(saved.body) /\ VectOK(saved.vect)
    /\ \E at \in Nat : Laid(saved, ctrl_file, Len(Layout) + 1, at)

LoadOK ==
  pc = "load_ctrl" /\ saved # Junk /\ ~unnoticed =>
    /\ ReadSoFar(saved)
    /\ \E off \in [1 .. Len(Layout) + 1 -> Nat] : LaidAt(saved, ctrl_file, off, Len(Layout) + 1) /\ off[n] = pos

IInv == TypeOK /\ CtrlOK /\ DiskOK /\ SaveOK /\ SavedOK /\ LoadOK /\ LoadRestores

----------------------------------------------------------------------------
(* Sequences and what is written over them.                                *)

LEMMA FunctionIsSeq ==
  ASSUME NEW m \in Nat, NEW f, f = [i \in 1 .. m |-> f[i]]
  PROVE  f \in Seq(Range(f)) /\ Len(f) = m
<1>1. f \in [1 .. m -> Range(f)]
  BY DEF Range
<1>2. f \in Seq(Range(f))
  BY <1>1, SeqDef
<1>3. Len(f) \in Nat /\ DOMAIN f = 1 .. Len(f)
  BY <1>2, LenProperties
<1>. QED
  BY <1>1, <1>2, <1>3

LEMMA SeqIsFunction ==
  ASSUME NEW f, f \in Seq(Range(f))
  PROVE  Len(f) \in Nat /\ f = [i \in 1 .. Len(f) |-> f[i]]
BY LenProperties

LEMMA PieceOfSeq ==
  ASSUME NEW T, NEW f, NEW lo \in Int, NEW hi \in Int, \A i \in lo .. hi : f[i] \in T,
         NEW piece, piece = SubSeq(f, lo, hi)
  PROVE  /\ piece \in Seq(T)
         /\ Len(piece) = IF lo <= hi THEN hi - lo + 1 ELSE 0
         /\ \A i \in 1 .. hi - lo + 1 : piece[i] = f[lo + i - 1]
BY SubSeqProperties

LEMMA ElementOfPiece ==
  ASSUME NEW f, NEW lo \in Int, NEW hi \in Int, NEW i \in 1 .. hi - lo + 1
  PROVE  SubSeq(f, lo, hi)[i] = f[lo + i - 1]
<1>. DEFINE T == {f[j] : j \in lo .. hi}
<1>1. \A j \in lo .. hi : f[j] \in T
  OBVIOUS
<1>. HIDE DEF T
<1>. QED
  BY <1>1, PieceOfSeq

LEMMA ManyElements ==
  ASSUME NEW T, NEW f \in Seq(T), NEW from \in Nat, NEW k \in Nat, from + k <= Len(f),
         NEW piece, piece = SubSeq(f, from + 1, from + k)
  PROVE  piece \in Seq(T) /\ Len(piece) = k /\ \A i \in 1 .. k : piece[i] = f[from + i]
<1>. DEFINE lo == from + 1
            hi == from + k
<1>1. Len(f) \in Nat
  BY LenProperties
<1>2. lo \in Int /\ hi \in Int /\ \A i \in lo .. hi : i \in 1 .. Len(f)
  BY <1>1
<1>3. \A i \in lo .. hi : f[i] \in T
  BY <1>2, ElementOfSeq
<1>4. piece = SubSeq(f, lo, hi) /\ hi - lo + 1 = k /\ (lo <= hi <=> k > 0)
  OBVIOUS
<1>5. \A i \in 1 .. k : lo + i - 1 = from + i
  OBVIOUS
<1>. HIDE DEF lo, hi
<1>6. piece \in Seq(T) /\ Len(piece) = IF lo <= hi THEN hi - lo + 1 ELSE 0
  BY <1>2, <1>3, <1>4, PieceOfSeq
<1>7. ASSUME NEW i \in 1 .. k PROVE piece[i] = f[from + i]
  BY <1>2, <1>4, <1>5, ElementOfPiece
<1>. QED
  BY <1>4, <1>6, <1>7

LEMMA WholePiece ==
  ASSUME NEW f, f \in Seq(Range(f))
  PROVE  SubSeq(f, 1, Len(f)) = f
<1>. DEFINE T == Range(f)
            piece == SubSeq(f, 1, Len(f))
<1>1. f \in Seq(T) /\ Len(f) \in Nat /\ 0 + Len(f) <= Len(f) /\ 0 + 1 = 1 /\ 0 + Len(f) = Len(f) /\ 0 \in Nat
  BY SeqIsFunction
<1>. HIDE DEF T
<1>2. piece \in Seq(T) /\ Len(piece) = Len(f) /\ \A i \in 1 .. Len(f) : piece[i] = f[0 + i]
  BY <1>1, ManyElements
<1>3. \A i \in 1 .. Len(f) : piece[i] = f[i]
  BY <1>1, <1>2
<1>. HIDE DEF piece
<1>4. piece = f
  BY <1>1, <1>2, <1>3, SeqEqual
<1>. QED
  BY <1>4 DEF piece

LEMMA MaxOfTwo ==
  ASSUME NEW a \in Int, NEW b \in Int
  PROVE  Max({a, b}) = IF a >= b THEN a ELSE b
BY DEF Max

LEMMA MinOfTwo ==
  ASSUME NEW a \in Int, NEW b \in Int
  PROVE  Min({a, b}) = IF a <= b THEN a ELSE b
BY DEF Min

Overwritten(new, file, at, cells) ==
  /\ new \in Seq(Range(new))
  /\ Len(new) \in Nat /\ Len(new) >= Len(file) /\ Len(new) >= at + Len(cells)
  /\ Len(new) = Len(file) \/ Len(new) = at + Len(cells)
  /\ \A i \in 1 .. at : new[i] = file[i]
  /\ \A i \in 1 .. Len(cells) : new[at + i] = cells[i]
  /\ \A i \in 1 .. Len(new) : \/ \E j \in 1 .. Len(cells) : new[i] = cells[j]
                              \/ i \in 1 .. Len(file) /\ new[i] = file[i]

LEMMA OverwriteFacts ==
  ASSUME NEW file, file \in Seq(Range(file)), NEW cells, cells \in Seq(Range(cells)),
         NEW at \in Nat, at <= Len(file),
         NEW new, new = Overwrite(file, at, cells)
  PROVE  Overwritten(new, file, at, cells)
<1>1. Len(file) \in Nat /\ Len(cells) \in Nat
  BY SeqIsFunction
<1>. DEFINE top == Max({Len(file), at + Len(cells)})
<1>2. top = IF Len(file) >= at + Len(cells) THEN Len(file) ELSE at + Len(cells)
  BY <1>1, MaxOfTwo
<1>3. top \in Nat /\ top >= Len(file) /\ top >= at + Len(cells) /\ (top = Len(file) \/ top = at + Len(cells))
  BY <1>1, <1>2
<1>4. new = [i \in 1 .. top |-> IF i \in at + 1 .. at + Len(cells) THEN cells[i - at] ELSE file[i]]
  BY DEF Overwrite
<1>. HIDE DEF top
<1>5. new = [i \in 1 .. top |-> new[i]]
  BY <1>4
<1>6. new \in Seq(Range(new)) /\ Len(new) = top
  BY <1>3, <1>5, FunctionIsSeq
<1>7. \A i \in 1 .. at : new[i] = file[i]
  BY <1>1, <1>3, <1>4
<1>8. \A i \in 1 .. Len(cells) : new[at + i] = cells[i]
  <2>1. TAKE i \in 1 .. Len(cells)
  <2>2. at + i \in 1 .. top /\ at + i \in at + 1 .. at + Len(cells) /\ (at + i) - at = i
    BY <1>1, <1>3
  <2>. QED
    BY <2>2, <1>4
<1>9. \A i \in 1 .. Len(new) : \/ \E j \in 1 .. Len(cells) : new[i] = cells[j]
                               \/ i \in 1 .. Len(file) /\ new[i] = file[i]
  <2>1. TAKE i \in 1 .. Len(new)
  <2>2. CASE i \in at + 1 .. at + Len(cells)
    <3>1. i - at \in 1 .. Len(cells) /\ new[i] = cells[i - at]
      BY <1>1, <1>3, <1>4, <1>6, <2>2
    <3>. QED
      BY <3>1
  <2>3. CASE i \notin at + 1 .. at + Len(cells)
    BY <1>1, <1>3, <1>4, <1>6, <2>3
  <2>. QED
    BY <2>2, <2>3
<1>. QED
  BY <1>3, <1>6, <1>7, <1>8, <1>9 DEF Overwritten

----------------------------------------------------------------------------
(* A sorted vector holds each of its elements at its rank.                 *)
LEMMA EveryRankTaken ==
  ASSUME NEW S \in SUBSET Nat, IsFiniteSet(S)
  PROVE  /\ Cardinality(S) \in Nat
         /\ \A m \in 0 .. Cardinality(S) - 1 : get_vect_element(S, m) \in S
         /\ \A k \in S : \E m \in 0 .. Cardinality(S) - 1 : get_vect_element(S, m) = k
<1>. DEFINE Below(k) == {j \in S : j < k}
            T == 0 .. Cardinality(S) - 1
            rank == [k \in S |-> Cardinality(Below(k))]
<1>1. Cardinality(S) \in Nat
  BY FS_CardinalityType
<1>2. \A k \in S : IsFiniteSet(Below(k)) /\ Cardinality(Below(k)) \in T
  <2>1. TAKE k \in S
  <2>2. Below(k) \in SUBSET S /\ k \notin Below(k)
    OBVIOUS
  <2>3. IsFiniteSet(Below(k)) /\ Cardinality(Below(k)) <= Cardinality(S) /\ Cardinality(Below(k)) # Cardinality(S)
    BY <2>2, FS_Subset, Zenon
  <2>4. Cardinality(Below(k)) \in Nat
    BY <2>3, FS_CardinalityType
  <2>. QED
    BY <1>1, <2>3, <2>4
<1>3. \A k, l \in S : k < l => Cardinality(Below(k)) # Cardinality(Below(l))
  <2>1. SUFFICES ASSUME NEW k \in S, NEW l \in S, k < l
                 PROVE  Cardinality(Below(k)) # Cardinality(Below(l))
    OBVIOUS
  <2>2. Below(k) \in SUBSET Below(l) /\ k \in Below(l) /\ k \notin Below(k)
    <3>1. k \in Nat /\ l \in Nat /\ \A j \in S : j \in Nat
      OBVIOUS
    <3>2. \A j \in S : j < k => j < l
      BY <2>1, <3>1
    <3>3. ~ (k < k)
      BY <3>1
    <3>. QED
      BY <2>1, <3>2, <3>3
  <2>. QED
    BY <1>2, <2>2, FS_Subset, Zenon
<1>4. \A k, l \in S : Cardinality(Below(k)) = Cardinality(Below(l)) => k = l
  BY <1>3
<1>5. IsFiniteSet(T) /\ Cardinality(T) = Cardinality(S)
  <2>1. 0 \in Int /\ Cardinality(S) - 1 \in Int
    BY <1>1
  <2>2. IsFiniteSet(T) /\ Cardinality(T) = IF 0 > Cardinality(S) - 1 THEN 0 ELSE (Cardinality(S) - 1) - 0 + 1
    BY <2>1, FS_Interval, Zenon
  <2>. QED
    BY <1>1, <2>2
<1>6. rank \in Injection(S, T)
  BY <1>2, <1>4 DEF Injection, IsInjective
<1>7. rank \in Surjection(S, T)
  <2>. HIDE DEF T, rank
  <2>. QED
    BY <1>5, <1>6, FS_Injection
<1>8. \A m \in T : \E k \in S : Cardinality(Below(k)) = m
  BY <1>7 DEF Surjection
<1>9. \A m \in T : get_vect_element(S, m) \in S /\ Cardinality(Below(get_vect_element(S, m))) = m
  BY <1>8 DEF get_vect_element
<1>10. \A k \in S : get_vect_element(S, Cardinality(Below(k))) = k
  BY <1>2, <1>4, <1>9
<1>. QED
  BY <1>1, <1>2, <1>9, <1>10

----------------------------------------------------------------------------
(* The parts of the control file.                                          *)
LEMMA LayoutFacts ==
  /\ Len(Layout) \in Nat /\ Len(Layout) >= 5
  /\ Layout[1] = "s_ctr" /\ Layout[2] = "fully_invalid_bands"
  /\ Layout[3] = "b_ctr" /\ Layout[4] = "free_hdd_bufs" /\ Layout[5] = "m_ctr"
  /\ \A k \in 6 .. Len(Layout) : Layout[k] \in Range(MetaVectors)
  /\ \A v \in Range(MetaVectors) : \E k \in 6 .. Len(Layout) : Layout[k] = v
  /\ Range(Layout) = {"s_ctr", "fully_invalid_bands", "b_ctr", "free_hdd_bufs", "m_ctr"} \cup Range(MetaVectors)
<1>. DEFINE first == <<"s_ctr", "fully_invalid_bands", "b_ctr", "free_hdd_bufs", "m_ctr">>
            Names == {"s_ctr", "fully_invalid_bands", "b_ctr", "free_hdd_bufs", "m_ctr"} \cup Range(MetaVectors)
<1>1. first \in Seq(Names) /\ Len(first) = 5 /\ MetaVectors \in Seq(Names)
  <2>1. Len(first) = 5 /\ first \in Seq({"s_ctr", "fully_invalid_bands", "b_ctr", "free_hdd_bufs", "m_ctr"})
    OBVIOUS
  <2>2. MetaVectors \in Seq(Range(MetaVectors))
    BY LifeCycleAssumption, SeqOfRange
  <2>3. /\ {"s_ctr", "fully_invalid_bands", "b_ctr", "free_hdd_bufs", "m_ctr"} \subseteq Names
        /\ Range(MetaVectors) \subseteq Names
    OBVIOUS
  <2>. QED
    <3>. HIDE DEF first, Names
    <3>. QED
      BY <2>1, <2>2, <2>3, SeqMonotonic
<1>2. first[1] = "s_ctr" /\ first[2] = "fully_invalid_bands" /\ first[3] = "b_ctr"
      /\ first[4] = "free_hdd_bufs" /\ first[5] = "m_ctr"
  OBVIOUS
<1>3. Layout = first \o MetaVectors
  BY DEF Layout
<1>4. Len(MetaVectors) \in Nat /\ Range(MetaVectors) = {MetaVectors[i] : i \in 1 .. Len(MetaVectors)}
  BY <1>1, LenProperties, RangeEquality
<1>. HIDE DEF first, Names
<1>5. /\ Layout \in Seq(Names) /\ Len(Layout) = 5 + Len(MetaVectors)
      /\ \A i \in 1 .. 5 + Len(MetaVectors) : Layout[i] = IF i <= 5 THEN first[i] ELSE MetaVectors[i - 5]
  <2>. HIDE DEF first
  <2>1. /\ first \o MetaVectors \in Seq(Names)
        /\ Len(first \o MetaVectors) = Len(first) + Len(MetaVectors)
        /\ \A i \in 1 .. Len(first) + Len(MetaVectors) :
             (first \o MetaVectors)[i] = IF i <= Len(first) THEN first[i] ELSE MetaVectors[i - Len(first)]
    BY <1>1, ConcatProperties, Zenon
  <2>. QED
    BY <1>1, <1>3, <2>1
<1>6. \A k \in 6 .. Len(Layout) : k - 5 \in 1 .. Len(MetaVectors) /\ Layout[k] = MetaVectors[k - 5]
  BY <1>4, <1>5
<1>7. \A i \in 1 .. Len(MetaVectors) : i + 5 \in 6 .. Len(Layout) /\ Layout[i + 5] = MetaVectors[i]
  <2>1. TAKE i \in 1 .. Len(MetaVectors)
  <2>2. i + 5 \in 6 .. Len(Layout) /\ (i + 5) - 5 = i
    BY <1>4, <1>5
  <2>. QED
    BY <2>2, <1>6
<1>8. \A v \in Range(MetaVectors) : \E k \in 6 .. Len(Layout) : Layout[k] = v
  BY <1>4, <1>7
<1>9. \A k \in 6 .. Len(Layout) : Layout[k] \in Range(MetaVectors)
  BY <1>4, <1>6
<1>10. Layout[1] = "s_ctr" /\ Layout[2] = "fully_invalid_bands"
       /\ Layout[3] = "b_ctr" /\ Layout[4] = "free_hdd_bufs" /\ Layout[5] = "m_ctr"
  BY <1>2, <1>4, <1>5
<1>11. Len(Layout) \in Nat /\ Len(Layout) >= 5
  BY <1>4, <1>5
<1>12. Range(Layout) = {Layout[i] : i \in 1 .. Len(Layout)}
  BY <1>5, RangeEquality
<1>13. Range(Layout) = {"s_ctr", "fully_invalid_bands", "b_ctr", "free_hdd_bufs", "m_ctr"} \cup Range(MetaVectors)
  <2>1. ASSUME NEW v \in Range(Layout)
        PROVE  v \in {"s_ctr", "fully_invalid_bands", "b_ctr", "free_hdd_bufs", "m_ctr"} \cup Range(MetaVectors)
    <3>1. PICK i \in 1 .. Len(Layout) : v = Layout[i]
      BY <1>12
    <3>2. i = 1 \/ i = 2 \/ i = 3 \/ i = 4 \/ i = 5 \/ i \in 6 .. Len(Layout)
      BY <1>11
    <3>. QED
      BY <3>1, <3>2, <1>9, <1>10
  <2>2. Range(MetaVectors) \subseteq Range(Layout)
    BY <1>8, <1>12, <1>11
  <2>3. 1 \in 1 .. Len(Layout) /\ 2 \in 1 .. Len(Layout) /\ 3 \in 1 .. Len(Layout)
        /\ 4 \in 1 .. Len(Layout) /\ 5 \in 1 .. Len(Layout)
    BY <1>11
  <2>4. {"s_ctr", "fully_invalid_bands", "b_ctr", "free_hdd_bufs", "m_ctr"} \subseteq Range(Layout)
    BY <1>10, <1>12, <2>3
  <2>. QED
    BY <2>1, <2>2, <2>4
<1>. QED
  BY <1>8, <1>9, <1>10, <1>11, <1>13

(* A vector comes after the structure with its length.                     *)
LEMMA LengthComesFirst ==
  /\ \A s \in Structures : VectorsOf(s) \subseteq Vectors /\ \E k \in 1 .. 5 : Layout[k] = s
  /\ \A k \in 1 .. Len(Layout) : Layout[k] \in Structures \cup Vectors
  /\ \A k \in 1 .. Len(Layout) :
       Layout[k] \notin Structures =>
         \E j \in 1 .. k - 1 : Layout[j] \in Structures /\ Layout[k] \in VectorsOf(Layout[j])
  /\ \A v \in Vectors : \E k \in 1 .. Len(Layout) : Layout[k] = v
<1>. USE LayoutFacts
<1>1. Vectors = {"fully_invalid_bands", "free_hdd_bufs"} \cup Range(MetaVectors)
  BY NamesAssumption DEF Vectors, Structures
<1>2. /\ VectorsOf("s_ctr") = {"fully_invalid_bands"}
      /\ VectorsOf("b_ctr") = {"free_hdd_bufs"}
      /\ VectorsOf("m_ctr") = Range(MetaVectors)
  BY Zenon DEF VectorsOf
<1>3. \A s \in Structures : VectorsOf(s) \subseteq Vectors /\ \E k \in 1 .. 5 : Layout[k] = s
  BY <1>1, <1>2 DEF Structures
<1>4. \A k \in 1 .. Len(Layout) : k = 1 \/ k = 2 \/ k = 3 \/ k = 4 \/ k = 5 \/ k \in 6 .. Len(Layout)
  OBVIOUS
<1>5. \A k \in 1 .. Len(Layout) : Layout[k] \in Structures \cup Vectors
  BY <1>1, <1>4 DEF Structures
<1>6. ASSUME NEW k \in 1 .. Len(Layout), Layout[k] \notin Structures
      PROVE  \E j \in 1 .. k - 1 : Layout[j] \in Structures /\ Layout[k] \in VectorsOf(Layout[j])
  <2>1. k = 2 \/ k = 4 \/ k \in 6 .. Len(Layout)
    BY <1>4, <1>6 DEF Structures
  <2>2. CASE k = 2
    <3>1. 1 \in 1 .. k - 1
      BY <2>2
    <3>. QED
      BY <2>2, <3>1, <1>2 DEF Structures
  <2>3. CASE k = 4
    <3>1. 3 \in 1 .. k - 1
      BY <2>3
    <3>. QED
      BY <2>3, <3>1, <1>2 DEF Structures
  <2>4. CASE k \in 6 .. Len(Layout)
    <3>1. 5 \in 1 .. k - 1
      BY <2>4
    <3>2. Layout[k] \in Range(MetaVectors)
      BY <2>4
    <3>. QED
      BY <3>1, <3>2, <1>2 DEF Structures
  <2>. QED
    BY <2>1, <2>2, <2>3, <2>4
<1>7. \A v \in Vectors : \E k \in 1 .. Len(Layout) : Layout[k] = v
  <2>1. 2 \in 1 .. Len(Layout) /\ 4 \in 1 .. Len(Layout) /\ 6 .. Len(Layout) \subseteq 1 .. Len(Layout)
    OBVIOUS
  <2>. QED
    BY <1>1, <2>1
<1>. QED
  BY <1>3, <1>5, <1>6, <1>7

----------------------------------------------------------------------------
(* What an action that leaves the files alone does not disturb.            *)
LEMMA FilesKept ==
  ASSUME SavedOK, CtrlOK, UNCHANGED <<files, saved>>
  PROVE  SavedOK' /\ CtrlOK'
BY DEF SavedOK, CtrlOK, CellOK, files

LEMMA SizeOfImage ==
  /\ ImageSize \in Nat \ {0} /\ EXT2_BLOCK_SIZE \in Nat \ {0}
  /\ \A j \in Nat : j * EXT2_BLOCK_SIZE < ImageSize => j * EXT2_BLOCK_SIZE + EXT2_BLOCK_SIZE <= ImageSize
<1>. DEFINE T == TOTAL_SMR_BLOCKS_CNT
            B == EXT2_BLOCK_SIZE
<1>1. T \in Nat \ {0} /\ B \in Nat \ {0} /\ ImageSize = T * B
  BY LifeCycleAssumption DEF ImageSize
<1>. HIDE DEF T, B
<1>2. T * B \in Nat \ {0}
  BY <1>1
<1>3. ASSUME NEW j \in Nat, j * B < T * B PROVE j * B + B <= T * B
  <2>1. j + 1 <= T
    <3>1. SUFFICES ASSUME T <= j PROVE FALSE
      BY <1>1
    <3>2. T * B <= j * B
      BY <1>1, <3>1
    <3>. QED
      BY <1>1, <1>3, <3>2
  <2>2. (j + 1) * B <= T * B
    BY <1>1, <2>1
  <2>3. (j + 1) * B = j * B + B
    BY <1>1
  <2>. QED
    BY <2>2, <2>3
<1>. QED
  BY <1>1, <1>2, <1>3 DEF B

LEMMA FirstMemory ==
  /\ NewData \in Seq(DataUnits) /\ Len(NewData) = ImageSize
  /\ BodyOK(Zero) /\ NoLengths \in [Vectors -> Nat] /\ VectOK(NoElements)
<1>1. NewData \in Seq(DataUnits) /\ Len(NewData) = ImageSize
  <2>1. Junk \in DataUnits
    BY DEF DataUnits
  <2>2. NewData \in [1 .. ImageSize -> DataUnits] /\ ImageSize \in Nat
    BY <2>1, SizeOfImage DEF NewData
  <2>3. NewData \in Seq(DataUnits)
    BY <2>2, SeqDef
  <2>4. Len(NewData) \in Nat /\ DOMAIN NewData = 1 .. Len(NewData)
    BY <2>3, LenProperties
  <2>. QED
    BY <2>2, <2>3, <2>4
<1>2. BodyOK(Zero)
  <2>1. Zero = [s \in Structures |-> Zero[s]]
    BY DEF Zero, Structures
  <2>. QED
    BY <2>1 DEF BodyOK
<1>3. VectOK(NoElements) /\ NoLengths \in [Vectors -> Nat]
  BY FS_EmptySet DEF VectOK, NoElements, NoLengths
<1>. QED
  BY <1>1, <1>2, <1>3

LEMMA InitIInv == Init => IInv
<1>. SUFFICES ASSUME Init PROVE IInv
  OBVIOUS
<1>. USE DEF Init
<1>1. TypeOK
  <2>1. <<>> \in Seq(DataUnits) /\ Len(<<>>) = 0
    BY EmptySeq
  <2>2. 0 <= ImageSize /\ 0 \in 0 .. MAX_FAULTS
    BY SizeOfImage, LifeCycleAssumption
  <2>3. 1 \in 1 .. Len(Layout) + 1
    BY LayoutFacts
  <2>. QED
    BY <2>1, <2>2, <2>3, FirstMemory DEF TypeOK
<1>2. CtrlOK
  BY DEF CtrlOK
<1>. QED
  BY <1>1, <1>2 DEF IInv, DiskOK, SaveOK, SavedOK, LoadOK, LoadRestores

----------------------------------------------------------------------------
(* What a transfer of the image does to the two positions.                 *)
LEMMA FirstInStep ==
  ASSUME pos' = 0, rw_ptr' = 0
  PROVE  InStep' /\ Agree'
<1>1. 0 \in Nat /\ 0 = 0 * EXT2_BLOCK_SIZE
  BY SizeOfImage
<1>2. InStep'
  BY <1>1, SizeOfImage DEF InStep
<1>. QED
  BY <1>2 DEF Agree

LEMMA NextBlock ==
  ASSUME InStep, rw_ptr' = rw_ptr + EXT2_BLOCK_SIZE
  PROVE  \E j \in Nat : rw_ptr' = j * EXT2_BLOCK_SIZE
<1>1. PICK j \in Nat : rw_ptr = j * EXT2_BLOCK_SIZE
  BY DEF InStep
<1>2. (j + 1) * EXT2_BLOCK_SIZE = j * EXT2_BLOCK_SIZE + EXT2_BLOCK_SIZE
  BY SizeOfImage
<1>. QED
  BY <1>1, <1>2

LEMMA BlockInData ==
  ASSUME InStep, InData
  PROVE  rw_ptr + EXT2_BLOCK_SIZE <= ImageSize
BY SizeOfImage DEF InStep, InData

LEMMA MovedInStep ==
  ASSUME InStep, pos \in Nat, rw_ptr \in Nat, InData, NEW k \in 1 .. EXT2_BLOCK_SIZE,
         pos' = pos + k, rw_ptr' = rw_ptr + EXT2_BLOCK_SIZE
  PROVE  /\ InStep' /\ pos + k <= ImageSize /\ rw_ptr + k <= ImageSize
         /\ pos' = rw_ptr' => pos = rw_ptr
<1>1. pos <= rw_ptr /\ rw_ptr + EXT2_BLOCK_SIZE <= ImageSize
  BY BlockInData DEF InStep
<1>2. \E j \in Nat : rw_ptr' = j * EXT2_BLOCK_SIZE
  BY NextBlock
<1>. QED
  BY <1>1, <1>2, SizeOfImage DEF InStep

LEMMA PassedInStep ==
  ASSUME InStep, more, pos \in Nat, rw_ptr \in Nat,
         pos' = pos, rw_ptr' = rw_ptr + EXT2_BLOCK_SIZE
  PROVE  InStep' /\ pos' # rw_ptr'
<1>1. \E j \in Nat : rw_ptr' = j * EXT2_BLOCK_SIZE
  BY NextBlock
<1>2. pos <= rw_ptr /\ EXT2_BLOCK_SIZE \in Nat \ {0} /\ pos < ImageSize /\ ImageSize \in Nat
  BY SizeOfImage DEF InStep, more
<1>3. pos' < rw_ptr' /\ pos' <= ImageSize /\ pos' # ImageSize
  BY <1>2
<1>4. pos' \in Nat /\ rw_ptr' \in Nat
  BY <1>2
<1>5. pos' <= rw_ptr' /\ pos' # rw_ptr'
  BY <1>3, <1>4
<1>. QED
  BY <1>1, <1>3, <1>5 DEF InStep

LEMMA BehindData ==
  ASSUME InStep, more, pos \in Nat, rw_ptr \in Nat, ~InData
  PROVE  pos < rw_ptr
BY SizeOfImage DEF InStep, more, InData

(* k units of one sequence copied into another.                            *)
UnitsCopied(new, to, at, from, start, k) ==
  /\ new \in Seq(DataUnits) /\ Len(new) \in Nat
  /\ Len(new) = IF Len(to) >= at + k THEN Len(to) ELSE at + k
  /\ \A i \in 1 .. at : new[i] = to[i]
  /\ \A i \in 1 .. k : new[at + i] = from[start + i]

LEMMA UnitsOverwritten ==
  ASSUME NEW to \in Seq(DataUnits), NEW at \in Nat, at <= Len(to),
         NEW from \in Seq(DataUnits), NEW start \in Nat, NEW k \in Nat, start + k <= Len(from),
         NEW new, new = Overwrite(to, at, SubSeq(from, start + 1, start + k))
  PROVE  UnitsCopied(new, to, at, from, start, k)
<1>. DEFINE cells == SubSeq(from, start + 1, start + k)
<1>1. Len(to) \in Nat /\ Len(from) \in Nat
  BY LenProperties
<1>2. cells \in Seq(DataUnits) /\ Len(cells) = k /\ \A i \in 1 .. k : cells[i] = from[start + i]
  BY <1>1, ManyElements
<1>. HIDE DEF cells
<1>3. cells \in Seq(Range(cells)) /\ to \in Seq(Range(to))
  BY <1>2, SeqOfRange
<1>4. Overwritten(new, to, at, cells)
  BY <1>3, OverwriteFacts DEF cells
<1>5. \A i \in 1 .. Len(new) : new[i] \in DataUnits
  BY <1>1, <1>2, <1>4, ElementOfSeq DEF Overwritten
<1>6. new \in Seq(DataUnits)
  <2>1. \A x \in Range(new) : x \in DataUnits
    BY <1>4, <1>5, RangeEquality DEF Overwritten
  <2>. QED
    BY <1>4, <2>1, SeqMonotonic DEF Overwritten
<1>7. Len(new) = IF Len(to) >= at + k THEN Len(to) ELSE at + k
  BY <1>1, <1>2, <1>4 DEF Overwritten
<1>8. \A i \in 1 .. at : new[i] = to[i]
  BY <1>4 DEF Overwritten
<1>9. \A i \in 1 .. k : new[at + i] = from[start + i]
  BY <1>2, <1>4 DEF Overwritten
<1>. QED
  BY <1>4, <1>6, <1>7, <1>8, <1>9 DEF UnitsCopied, Overwritten

----------------------------------------------------------------------------
(* Loading the image.                                                      *)
LEMMA LoadOpenKeeps ==
  ASSUME IInv, LoadOpen
  PROVE  IInv'
<1>1. SavedOK' /\ CtrlOK'
  BY FilesKept DEF IInv, LoadOpen
<1>2. TypeOK'
  <2>1. 1 \in 1 .. Len(Layout) + 1
    BY LayoutFacts
  <2>2. faults' \in 0 .. MAX_FAULTS
    BY LifeCycleAssumption DEF IInv, TypeOK, LoadOpen, Works, Fails
  <2>3. data' = data /\ body' = body /\ len' = len /\ vect' = vect
        /\ disk_file' = disk_file /\ exist' = exist
    BY DEF LoadOpen, memory, files
  <2>. QED
    BY <2>1, <2>2, <2>3 DEF IInv, TypeOK, LoadOpen
<1>3. DiskOK'
  <2>1. InStep' /\ Agree'
    BY FirstInStep DEF LoadOpen
  <2>. QED
    BY <2>1 DEF IInv, LoadOpen, DiskOK, files, memory
<1>. QED
  BY <1>1, <1>2, <1>3 DEF IInv, LoadOpen, SaveOK, LoadOK, LoadRestores

LEMMA LoadBlockKeeps ==
  ASSUME IInv, LoadBlock
  PROVE  IInv'
<1>1. SavedOK' /\ CtrlOK'
  BY FilesKept DEF IInv, LoadBlock
<1>2. /\ InStep /\ n = 1 /\ pos \in Nat /\ rw_ptr \in Nat /\ more /\ pc = "load_disk"
      /\ Len(disk_file) = ImageSize /\ Agree
      /\ data \in Seq(DataUnits) /\ disk_file \in Seq(DataUnits) /\ Len(data) = ImageSize
  BY DEF IInv, TypeOK, DiskOK, LoadBlock
<1>3. /\ body' = body /\ len' = len /\ vect' = vect /\ n' = n /\ ret' = ret /\ save' = save
      /\ disk_file' = disk_file /\ exist' = exist /\ unnoticed' = unnoticed
      /\ rw_ptr' = IF pc' = "oops" THEN rw_ptr ELSE rw_ptr + EXT2_BLOCK_SIZE
  BY DEF LoadBlock, files
<1>4. ASSUME NEW k \in 1 .. EXT2_BLOCK_SIZE, InData, Moves(k), pos' = pos + k, pc' = pc,
             data' = Overwrite(data, rw_ptr, SubSeq(disk_file, pos + 1, pos + k))
      PROVE  IInv'
  <2>1. rw_ptr' = rw_ptr + EXT2_BLOCK_SIZE
    BY <1>2, <1>3, <1>4
  <2>2. /\ InStep' /\ pos + k <= ImageSize /\ rw_ptr + k <= ImageSize
        /\ pos' = rw_ptr' => pos = rw_ptr
    BY <1>2, <1>4, <2>1, MovedInStep
  <2>3. /\ data' \in Seq(DataUnits) /\ Len(data') = ImageSize
        /\ \A i \in 1 .. rw_ptr : data'[i] = data[i]
        /\ \A i \in 1 .. k : data'[rw_ptr + i] = disk_file[pos + i]
    <3>1. rw_ptr + k <= Len(data) /\ rw_ptr <= Len(data) /\ pos + k <= Len(disk_file) /\ k \in Nat
      BY <1>2, <1>4, <2>2, SizeOfImage DEF InData
    <3>2. UnitsCopied(data', data, rw_ptr, disk_file, pos, k)
      BY <1>2, <1>4, <3>1, UnitsOverwritten
    <3>. QED
      BY <1>2, <2>2, <3>2, SizeOfImage DEF UnitsCopied
  <2>4. Agree'
    <3>1. SUFFICES ASSUME pos' = rw_ptr', NEW i \in 1 .. pos' PROVE data'[i] = disk_file[i]
      BY <1>3 DEF Agree
    <3>2. pos = rw_ptr /\ pos' = pos + k /\ i \in Nat
      BY <1>2, <1>4, <2>2, <3>1
    <3>3. CASE i \in 1 .. pos
      BY <1>2, <2>3, <3>2, <3>3 DEF Agree
    <3>4. CASE i \notin 1 .. pos
      <4>1. i - pos \in 1 .. k /\ pos + (i - pos) = i /\ rw_ptr + (i - pos) = i
        BY <1>2, <3>1, <3>2, <3>4
      <4>. QED
        BY <2>3, <4>1
    <3>. QED
      BY <3>3, <3>4
  <2>5. TypeOK'
    <3>1. pos' \in Nat /\ rw_ptr' \in Nat
      BY <1>2, <1>4, <2>1, SizeOfImage
    <3>2. faults' \in 0 .. MAX_FAULTS
      BY <1>4, LifeCycleAssumption DEF IInv, TypeOK, Moves, Works, Fails
    <3>. QED
      BY <1>3, <1>4, <2>3, <3>1, <3>2 DEF IInv, TypeOK
  <2>6. DiskOK'
    BY <1>2, <1>3, <1>4, <2>2, <2>4 DEF DiskOK
  <2>. QED
    BY <1>1, <1>2, <1>4, <2>5, <2>6 DEF IInv, SaveOK, LoadOK, LoadRestores
<1>5. ASSUME UNCHANGED <<data, pos>>,
             \/ Moves(0) /\ UNCHANGED pc
             \/ Fails("read") /\ pc' = "load_failed"
             \/ Overruns("load_failed")
      PROVE  IInv'
  <2>1. TypeOK'
    <3>1. rw_ptr' \in Nat
      BY <1>2, <1>3, SizeOfImage
    <3>2. faults' \in 0 .. MAX_FAULTS
      BY <1>5, LifeCycleAssumption DEF IInv, TypeOK, Moves, Overruns, Works, Fails
    <3>3. pc' \in {"load_disk", "load_failed", "oops"}
      BY <1>2, <1>5 DEF Overruns
    <3>. QED
      BY <1>3, <1>5, <3>1, <3>2, <3>3 DEF IInv, TypeOK
  <2>2. CASE pc' = "load_disk"
    <3>1. rw_ptr' = rw_ptr + EXT2_BLOCK_SIZE /\ pos' = pos /\ Moves(0)
      BY <1>3, <1>5, <2>2 DEF Overruns
    <3>2. InStep' /\ Agree'
      BY <1>2, <3>1, PassedInStep DEF Agree
    <3>3. DiskOK'
      BY <1>2, <1>3, <2>2, <3>2 DEF DiskOK
    <3>. QED
      BY <1>1, <2>1, <2>2, <3>3 DEF IInv, SaveOK, LoadOK, LoadRestores
  <2>3. CASE pc' = "load_failed"
    BY <1>1, <2>1, <2>3 DEF IInv, DiskOK, SaveOK, LoadOK, LoadRestores
  <2>4. CASE pc' = "oops"
    <3>1. pos < rw_ptr
      BY <1>2, <1>5, <2>4, BehindData DEF Overruns
    <3>2. pos' < rw_ptr'
      BY <1>3, <1>5, <2>4, <3>1
    <3>. QED
      BY <1>1, <2>1, <2>4, <3>2 DEF IInv, DiskOK, SaveOK, LoadOK, LoadRestores
  <2>. QED
    BY <1>2, <1>5, <2>2, <2>3, <2>4 DEF Overruns
<1>. QED
  BY <1>4, <1>5 DEF LoadBlock

LEMMA LoadedDiskKeeps ==
  ASSUME IInv, LoadedDisk
  PROVE  IInv'
<1>1. SavedOK' /\ CtrlOK'
  BY FilesKept DEF IInv, LoadedDisk
<1>2. /\ data' = data /\ body' = body /\ len' = len /\ vect' = vect /\ n' = n /\ ret' = ret /\ save' = save
      /\ disk_file' = disk_file /\ ctrl_file' = ctrl_file /\ exist' = exist /\ unnoticed' = unnoticed
      /\ saved' = saved /\ faults' = faults /\ rw_ptr' = rw_ptr /\ pos' = 0 /\ pc' = "load_ctrl"
  BY DEF LoadedDisk, files, memory
<1>3. TypeOK'
  BY <1>2 DEF IInv, TypeOK
<1>4. data = disk_file /\ rw_ptr = ImageSize
  <2>1. /\ data \in Seq(DataUnits) /\ disk_file \in Seq(DataUnits)
        /\ Len(data) = ImageSize /\ Len(disk_file) = ImageSize
        /\ pos = ImageSize /\ rw_ptr = ImageSize
        /\ \A i \in 1 .. pos : data[i] = disk_file[i]
    <3>1. pos = ImageSize /\ rw_ptr = ImageSize
      BY SizeOfImage DEF IInv, TypeOK, DiskOK, LoadedDisk, more, InStep
    <3>. QED
      BY <3>1 DEF IInv, TypeOK, DiskOK, LoadedDisk, Agree
  <2>2. \A i \in 1 .. Len(data) : data[i] = disk_file[i]
    BY <2>1
  <2>. QED
    BY <2>1, <2>2, SeqEqual
<1>5. DiskOK'
  BY <1>2, <1>4 DEF DiskOK
<1>6. LoadOK'
  <2>1. SUFFICES ASSUME saved # Junk
                 PROVE  /\ ReadSoFar(saved)'
                        /\ \E off \in [1 .. Len(Layout) + 1 -> Nat] :
                             LaidAt(saved, ctrl_file, off, Len(Layout) + 1) /\ off[1] = 0
    <3>1. n = 1
      BY DEF IInv, DiskOK, LoadedDisk
    <3>. QED
      BY <1>2, <2>1, <3>1 DEF LoadOK
  <2>2. ReadSoFar(saved)'
    <3>1. n' = 1
      BY <1>2 DEF IInv, DiskOK, LoadedDisk
    <3>. QED
      BY <3>1 DEF ReadSoFar
  <2>3. PICK at \in Nat : Laid(saved, ctrl_file, Len(Layout) + 1, at)
    BY <2>1 DEF IInv, SavedOK
  <2>. QED
    BY <2>2, <2>3 DEF Laid, LaidAt
<1>. QED
  BY <1>1, <1>2, <1>3, <1>5, <1>6 DEF IInv, SaveOK, LoadRestores

----------------------------------------------------------------------------
(* Loading the control data.                                               *)
LEMMA StructureReplaced ==
  ASSUME NEW b, BodyOK(b), NEW s \in Structures, NEW x, DOMAIN x = DOMAIN Zero[s],
         NEW c, c = [b EXCEPT ![s] = x]
  PROVE  BodyOK(c) /\ c[s] = x /\ \A t \in Structures \ {s} : c[t] = b[t]
<1>1. DOMAIN b = Structures
  BY DEF BodyOK
<1>2. c = [t \in Structures |-> IF t = s THEN x ELSE b[t]]
  BY <1>1
<1>3. c[s] = x /\ \A t \in Structures \ {s} : c[t] = b[t]
  BY <1>2
<1>4. DOMAIN c = Structures /\ c = [t \in Structures |-> c[t]]
  BY <1>2
<1>5. \A t \in Structures : DOMAIN c[t] = DOMAIN Zero[t]
  BY <1>3 DEF BodyOK
<1>. QED
  BY <1>3, <1>4, <1>5 DEF BodyOK

LEMMA LengthsReplaced ==
  ASSUME NEW s \in Structures, NEW l \in [VectorsOf(s) -> Nat], len \in [Vectors -> Nat]
  PROVE  /\ WithLengths(s, l) \in [Vectors -> Nat]
         /\ \A v \in Vectors : WithLengths(s, l)[v] = IF v \in VectorsOf(s) THEN l[v] ELSE len[v]
BY LengthComesFirst DEF WithLengths

(* The next part of the saved context is found where it is looked for, if  *)
(* its size is known, and the one after it behind it.                      *)
FoundInPlace(size) ==
  /\ pos + size <= Len(ctrl_file)
  /\ \A i \in 1 .. size : ctrl_file[pos + i] = CellOf(saved, Layout[n], i)
  /\ \E off \in [1 .. Len(Layout) + 1 -> Nat] :
       LaidAt(saved, ctrl_file, off, Len(Layout) + 1) /\ off[n + 1] = pos + size

LEMMA NextPartFound ==
  ASSUME IInv, pc = "load_ctrl", saved # Junk, ~unnoticed, n \in 1 .. Len(Layout),
         NEW size \in Nat, Size(saved, Layout[n]) = size
  PROVE  FoundInPlace(size)
<1>1. Len(Layout) \in Nat /\ Len(ctrl_file) \in Nat
  BY LayoutFacts, SeqIsFunction DEF IInv, CtrlOK
<1>. DEFINE last == Len(Layout) + 1
<1>2. PICK off \in [1 .. last -> Nat] : LaidAt(saved, ctrl_file, off, last) /\ off[n] = pos
  BY DEF IInv, LoadOK
<1>3. /\ \A k \in 1 .. last - 1 : off[k + 1] = off[k] + Size(saved, Layout[k])
      /\ \A k \in 1 .. last : off[k] <= off[last]
      /\ off[last] <= Len(ctrl_file)
      /\ \A k \in 1 .. last - 1 : \A i \in 1 .. Size(saved, Layout[k]) :
           ctrl_file[off[k] + i] = CellOf(saved, Layout[k], i)
  BY <1>2 DEF LaidAt
<1>4. n + 1 \in 1 .. last /\ n \in 1 .. last - 1 /\ last \in 1 .. last /\ n \in 1 .. last
  BY <1>1
<1>5. off[n + 1] = pos + size /\ off[n + 1] \in Nat /\ off[last] \in Nat
      /\ off[n + 1] <= off[last] /\ off[last] <= Len(ctrl_file)
  <2>. HIDE DEF last
  <2>. QED
    BY <1>2, <1>3, <1>4
<1>6. \A i \in 1 .. size : ctrl_file[pos + i] = CellOf(saved, Layout[n], i)
  <2>. HIDE DEF last
  <2>. QED
    BY <1>2, <1>3, <1>4
<1>7. pos + size <= Len(ctrl_file)
  BY <1>1, <1>5
<1>. QED
  BY <1>2, <1>5, <1>6, <1>7 DEF FoundInPlace

LEMMA LoadStructureKeeps ==
  ASSUME IInv, LoadCtrl, Layout[n] \in Structures
  PROVE  IInv'
<1>. DEFINE s == Layout[n]
<1>0. SavedOK' /\ CtrlOK'
  BY FilesKept DEF IInv, LoadCtrl
<1>1. /\ data' = data /\ vect' = vect /\ ret' = ret /\ save' = save /\ rw_ptr' = rw_ptr
      /\ disk_file' = disk_file /\ ctrl_file' = ctrl_file /\ exist' = exist /\ saved' = saved
      /\ n \in 1 .. Len(Layout) /\ Len(Layout) \in Nat /\ pc = "load_ctrl" /\ LoadStructure(s)
      /\ s \in Structures
  <2>1. pc = "load_ctrl" /\ n <= Len(Layout) /\ LoadStructure(s) /\ UNCHANGED <<data, rw_ptr, files, ret, save, saved>>
    BY DEF LoadCtrl
  <2>2. vect' = vect
    <3>. HIDE DEF s
    <3>. QED
      BY <2>1 DEF LoadStructure
  <2>3. n \in 1 .. Len(Layout) /\ Len(Layout) \in Nat
    BY <2>1, LayoutFacts DEF IInv, TypeOK
  <2>. QED
    BY <2>1, <2>2, <2>3 DEF files
<1>. HIDE DEF s
<1>2. BodyOK(body) /\ len \in [Vectors -> Nat] /\ pos \in Nat /\ Len(ctrl_file) \in Nat
  BY SeqIsFunction DEF IInv, TypeOK, CtrlOK
<1>3. CASE Fails("read") /\ pc' = "load_failed" /\ UNCHANGED <<body, len, vect, pos, n, unnoticed>>
  <2>1. TypeOK'
    BY <1>1, <1>3, LifeCycleAssumption DEF IInv, TypeOK, Fails
  <2>. QED
    BY <1>0, <1>3, <2>1 DEF IInv, DiskOK, SaveOK, LoadOK, LoadRestores
<1>5. CASE /\ \/ pos >= Len(ctrl_file) /\ Works /\ UNCHANGED unnoticed
              \/ Fails("short") /\ unnoticed' = TRUE
           /\ n' = n + 1
           /\ UNCHANGED <<pc, body, len, vect, pos>>
  <2>1. TypeOK'
    <3>1. n' \in 1 .. Len(Layout) + 1 /\ unnoticed' \in BOOLEAN
      <4>1. n' \in 1 .. Len(Layout) + 1
        BY <1>1, <1>5
      <4>2. unnoticed' = unnoticed \/ unnoticed' = TRUE
        BY <1>5
      <4>. QED
        BY <4>1, <4>2 DEF IInv, TypeOK
    <3>2. faults' \in 0 .. MAX_FAULTS
      BY <1>5, LifeCycleAssumption DEF IInv, TypeOK, Works, Fails
    <3>. QED
      BY <1>1, <1>5, <3>1, <3>2 DEF IInv, TypeOK
  <2>2. ~ (saved # Junk /\ ~unnoticed')
    <3>1. SUFFICES ASSUME saved # Junk, ~unnoticed' PROVE FALSE
      OBVIOUS
    <3>2. Size(saved, Layout[n]) = 1 /\ ~unnoticed /\ pos >= Len(ctrl_file)
      BY <1>1, <1>5, <3>1 DEF Size, s
    <3>3. FoundInPlace(1)
      BY <1>1, <3>1, <3>2, NextPartFound
    <3>. QED
      BY <1>2, <3>2, <3>3 DEF FoundInPlace
  <2>. QED
    BY <1>0, <1>1, <1>5, <2>1, <2>2 DEF IInv, DiskOK, SaveOK, LoadOK, LoadRestores
<1>4. CASE /\ pos < Len(ctrl_file) /\ Works
           /\ LET cell == ctrl_file[pos + 1]
              IN  IF "name" \in DOMAIN cell /\ cell.name = s
                  THEN body' = [body EXCEPT ![s] = cell.body] /\ len' = WithLengths(s, cell.len)
                  ELSE /\ body' = [body EXCEPT ![s] = Wrong[s]]
                       /\ \E l \in 0 .. MAX_LEN : len' = WithLengths(s, [v \in VectorsOf(s) |-> l])
           /\ pos' = pos + 1
           /\ n' = n + 1
           /\ UNCHANGED <<pc, vect, unnoticed>>
  <2>. DEFINE cell == ctrl_file[pos + 1]
  <2>2. CASE "name" \in DOMAIN cell /\ cell.name = s
    <3>1. pos' = pos + 1 /\ body' = [body EXCEPT ![s] = cell.body] /\ len' = WithLengths(s, cell.len)
      BY <1>4, <2>2
    <3>2. pos + 1 \in 1 .. Len(ctrl_file)
      BY <1>2, <1>4
    <3>3. CellOK(cell)
      BY <3>2 DEF IInv, CtrlOK
    <3>4. DOMAIN cell.body = DOMAIN Zero[s] /\ cell.len \in [VectorsOf(s) -> Nat]
      <4>1. DOMAIN cell # {"number"}
        BY <2>2
      <4>. QED
        BY <2>2, <3>3, <4>1 DEF CellOK
    <3>. HIDE DEF cell
    <3>5. BodyOK(body') /\ body'[s] = cell.body /\ \A t \in Structures \ {s} : body'[t] = body[t]
      <4>. DEFINE x == cell.body
      <4>1. DOMAIN x = DOMAIN Zero[s] /\ body' = [body EXCEPT ![s] = x]
        BY <3>1, <3>4
      <4>. HIDE DEF x
      <4>2. BodyOK(body')
        BY <1>1, <1>2, <4>1, StructureReplaced
      <4>3. DOMAIN body = Structures
        BY <1>2 DEF BodyOK
      <4>. QED
        BY <1>1, <4>1, <4>2, <4>3 DEF x
    <3>6. len' \in [Vectors -> Nat] /\ \A v \in Vectors : len'[v] = IF v \in VectorsOf(s) THEN cell.len[v] ELSE len[v]
      BY <1>1, <1>2, <3>1, <3>4, LengthsReplaced
    <3>7. TypeOK'
      <4>1. pos' \in Nat /\ n' \in 1 .. Len(Layout) + 1
        BY <1>1, <1>2, <1>4, <3>1
      <4>. QED
        BY <1>1, <1>4, <3>5, <3>6, <4>1 DEF IInv, TypeOK, Works
    <3>8. LoadOK'
      <4>1. SUFFICES ASSUME saved # Junk, ~unnoticed
                     PROVE  /\ ReadSoFar(saved)'
                            /\ \E off \in [1 .. Len(Layout) + 1 -> Nat] :
                                 LaidAt(saved, ctrl_file, off, Len(Layout) + 1) /\ off[n + 1] = pos + 1
        BY <1>1, <1>4, <3>1 DEF LoadOK
      <4>2. Size(saved, Layout[n]) = 1
        BY <1>1 DEF Size, s
      <4>3. FoundInPlace(1)
        BY <1>1, <4>1, <4>2, NextPartFound
      <4>4. ctrl_file[pos + 1] = CellOf(saved, s, 1)
        BY <4>3 DEF s, FoundInPlace
      <4>5. cell.body = saved.body[s] /\ \A v \in VectorsOf(s) : cell.len[v] = Cardinality(saved.vect[v])
        BY <1>1, <4>4 DEF CellOf, cell
      <4>6. ReadSoFar(saved)
        BY <1>1, <4>1 DEF IInv, LoadOK
      <4>7. ASSUME NEW k \in 1 .. n
            PROVE  IF Layout[k] \in Structures
                   THEN /\ body'[Layout[k]] = saved.body[Layout[k]]
                        /\ \A v \in VectorsOf(Layout[k]) : len'[v] = Cardinality(saved.vect[v])
                   ELSE vect'[Layout[k]] = saved.vect[Layout[k]]
        <5>1. CASE Layout[k] = s
          <6>1. \A v \in VectorsOf(s) : v \in Vectors
            BY <1>1, LengthComesFirst
          <6>. QED
            BY <1>1, <3>5, <3>6, <4>5, <5>1, <6>1
        <5>2. CASE Layout[k] # s
          <6>1. k \in 1 .. n - 1
            BY <1>1, <5>2 DEF s
          <6>2. \A v \in VectorsOf(Layout[k]) : Layout[k] \in Structures => v \in Vectors
            BY LengthComesFirst
          <6>. QED
            BY <1>1, <3>5, <3>6, <4>5, <4>6, <5>2, <6>1, <6>2 DEF ReadSoFar
        <5>. QED
          BY <5>1, <5>2
      <4>8. ReadSoFar(saved)'
        <5>1. n' - 1 = n
          BY <1>1, <1>4
        <5>. QED
          BY <1>1, <4>7, <5>1 DEF ReadSoFar
      <4>. QED
        BY <4>3, <4>8 DEF FoundInPlace
    <3>. QED
      BY <1>0, <1>1, <1>4, <3>7, <3>8 DEF IInv, DiskOK, SaveOK, LoadRestores
  <2>3. CASE ~ ("name" \in DOMAIN cell /\ cell.name = s)
    <3>1. /\ pos' = pos + 1 /\ body' = [body EXCEPT ![s] = Wrong[s]]
          /\ \E l \in 0 .. MAX_LEN : len' = WithLengths(s, [v \in VectorsOf(s) |-> l])
      BY <1>4, <2>3
    <3>2. BodyOK(body')
      <4>1. DOMAIN Wrong[s] = DOMAIN Zero[s]
        BY <1>1 DEF Wrong
      <4>. QED
        BY <1>1, <1>2, <3>1, <4>1, StructureReplaced
    <3>3. len' \in [Vectors -> Nat]
      <4>1. PICK l \in 0 .. MAX_LEN : len' = WithLengths(s, [v \in VectorsOf(s) |-> l])
        BY <3>1
      <4>2. [v \in VectorsOf(s) |-> l] \in [VectorsOf(s) -> Nat]
        BY LifeCycleAssumption
      <4>. QED
        BY <1>1, <1>2, <4>1, <4>2, LengthsReplaced
    <3>4. TypeOK'
      <4>1. pos' \in Nat /\ n' \in 1 .. Len(Layout) + 1
        BY <1>1, <1>2, <1>4, <3>1
      <4>. QED
        BY <1>1, <1>4, <3>2, <3>3, <4>1 DEF IInv, TypeOK, Works
    <3>5. ~ (saved # Junk /\ ~unnoticed)
      <4>1. SUFFICES ASSUME saved # Junk, ~unnoticed PROVE FALSE
        OBVIOUS
      <4>3. Size(saved, Layout[n]) = 1
        BY <1>1 DEF Size, s
      <4>4. FoundInPlace(1)
        BY <1>1, <4>1, <4>3, NextPartFound
      <4>5. cell = CellOf(saved, s, 1)
        BY <4>4 DEF s, FoundInPlace
      <4>6. "name" \in DOMAIN CellOf(saved, s, 1) /\ CellOf(saved, s, 1).name = s
        BY <1>1 DEF CellOf
      <4>. QED
        BY <2>3, <4>5, <4>6
    <3>. QED
      BY <1>0, <1>1, <1>4, <3>4, <3>5 DEF IInv, DiskOK, SaveOK, LoadOK, LoadRestores
  <2>. QED
    BY <2>2, <2>3
<1>. QED
  BY <1>1, <1>3, <1>4, <1>5 DEF LoadStructure

(* The numbers among some cells: finitely many, each of one of them.       *)
LEMMA NumbersOfCells ==
  ASSUME NEW cells, cells \in Seq(Range(cells)), \A i \in 1 .. Len(cells) : CellOK(cells[i]),
         NEW numbers, numbers = {c.number : c \in {d \in Range(cells) : "number" \in DOMAIN d}}
  PROVE  numbers \in SUBSET Nat /\ IsFiniteSet(numbers)
<1>. DEFINE I == {i \in 1 .. Len(cells) : "number" \in DOMAIN cells[i]}
            f == [i \in I |-> cells[i].number]
<1>1. Range(cells) = {cells[i] : i \in 1 .. Len(cells)} /\ Len(cells) \in Nat
  BY RangeEquality, SeqIsFunction
<1>2. numbers = {cells[i].number : i \in I}
  <2>1. \A x \in numbers : \E i \in I : x = cells[i].number
    <3>1. TAKE x \in numbers
    <3>2. PICK d \in Range(cells) : "number" \in DOMAIN d /\ x = d.number
      OBVIOUS
    <3>3. PICK i \in 1 .. Len(cells) : d = cells[i]
      BY <1>1, <3>2
    <3>. QED
      BY <3>2, <3>3
  <2>2. \A i \in I : cells[i].number \in numbers
    BY <1>1
  <2>. QED
    BY <2>1, <2>2
<1>3. \A i \in I : cells[i].number \in Nat
  <2>1. TAKE i \in I
  <2>2. CellOK(cells[i]) /\ "number" \in DOMAIN cells[i]
    OBVIOUS
  <2>. QED
    BY <2>2 DEF CellOK
<1>4. IsFiniteSet(I)
  <2>1. IsFiniteSet(1 .. Len(cells))
    BY <1>1, FS_Interval
  <2>2. I \in SUBSET (1 .. Len(cells))
    OBVIOUS
  <2>. QED
    <3>. HIDE DEF I
    <3>. QED
      BY <2>1, <2>2, FS_Subset
<1>5. f \in Surjection(I, numbers)
  BY <1>2 DEF Surjection
<1>6. IsFiniteSet(numbers)
  <2>. HIDE DEF f, I
  <2>. QED
    BY <1>4, <1>5, FS_Surjection, Zenon
<1>. QED
  BY <1>2, <1>3, <1>6

(* The cells that load_sorted_vector finds, len of them if the file does   *)
(* not end before.                                                         *)
LEMMA CellsFound ==
  ASSUME IInv, NEW l \in Nat,
         NEW found, found = SubSeq(ctrl_file, pos + 1, Min({pos + l, Len(ctrl_file)}))
  PROVE  /\ found \in Seq(Range(found)) /\ Len(found) \in Nat
         /\ \A i \in 1 .. Len(found) : CellOK(found[i]) /\ found[i] = ctrl_file[pos + i]
         /\ pos + l <= Len(ctrl_file) => Len(found) = l
<1>. DEFINE hi == Min({pos + l, Len(ctrl_file)})
<1>1. pos \in Nat /\ Len(ctrl_file) \in Nat /\ ctrl_file \in Seq(Range(ctrl_file))
      /\ \A i \in 1 .. Len(ctrl_file) : CellOK(ctrl_file[i])
  BY SeqIsFunction DEF IInv, TypeOK, CtrlOK
<1>2. hi = IF pos + l <= Len(ctrl_file) THEN pos + l ELSE Len(ctrl_file)
  <2>1. pos + l \in Int /\ Len(ctrl_file) \in Int
    BY <1>1
  <2>. QED
    BY <2>1, MinOfTwo
<1>. HIDE DEF hi
<1>3. hi \in Nat /\ hi <= Len(ctrl_file) /\ hi <= pos + l /\ pos + 1 \in Int /\ hi \in Int
  BY <1>1, <1>2
<1>4. \A i \in pos + 1 .. hi : i \in 1 .. Len(ctrl_file) /\ ctrl_file[i] \in Range(ctrl_file)
  <2>1. TAKE i \in pos + 1 .. hi
  <2>2. i \in 1 .. Len(ctrl_file)
    BY <1>1, <1>3
  <2>. QED
    BY <1>1, <2>2, ElementOfSeq
<1>5. /\ found \in Seq(Range(ctrl_file))
      /\ Len(found) = IF pos + 1 <= hi THEN hi - (pos + 1) + 1 ELSE 0
      /\ \A i \in 1 .. hi - (pos + 1) + 1 : found[i] = ctrl_file[pos + 1 + i - 1]
  <2>. DEFINE lo == pos + 1
              T == Range(ctrl_file)
  <2>1. found = SubSeq(ctrl_file, lo, hi)
    BY DEF hi
  <2>2. lo \in Int /\ hi \in Int /\ \A i \in lo .. hi : ctrl_file[i] \in T
    BY <1>3, <1>4
  <2>. HIDE DEF lo, T
  <2>3. /\ found \in Seq(T)
        /\ Len(found) = IF lo <= hi THEN hi - lo + 1 ELSE 0
        /\ \A i \in 1 .. hi - lo + 1 : found[i] = ctrl_file[lo + i - 1]
    <3>1. found \in Seq(T) /\ Len(found) = IF lo <= hi THEN hi - lo + 1 ELSE 0
      BY <2>1, <2>2, PieceOfSeq
    <3>2. ASSUME NEW i \in 1 .. hi - lo + 1 PROVE found[i] = ctrl_file[lo + i - 1]
      BY <2>1, <2>2, ElementOfPiece
    <3>. QED
      BY <3>1, <3>2
  <2>. QED
    BY <2>3 DEF lo, T
<1>6. Len(found) \in Nat /\ \A i \in 1 .. Len(found) :
         i \in 1 .. hi - (pos + 1) + 1 /\ pos + i \in pos + 1 .. hi /\ pos + 1 + i - 1 = pos + i
  <2>1. Len(found) = IF pos + 1 <= hi THEN hi - (pos + 1) + 1 ELSE 0
    BY <1>5
  <2>. DEFINE size == Len(found)
  <2>2. size = IF pos + 1 <= hi THEN hi - (pos + 1) + 1 ELSE 0
    BY <2>1
  <2>. HIDE DEF size
  <2>3. size \in Nat /\ \A i \in 1 .. size :
          i \in 1 .. hi - (pos + 1) + 1 /\ pos + i \in pos + 1 .. hi /\ pos + 1 + i - 1 = pos + i
    BY <1>1, <1>3, <2>2
  <2>. QED
    BY <2>3 DEF size
<1>7. \A i \in 1 .. Len(found) : found[i] = ctrl_file[pos + i] /\ CellOK(found[i])
  BY <1>1, <1>4, <1>5, <1>6
<1>8. pos + l <= Len(ctrl_file) => Len(found) = l
  BY <1>1, <1>2, <1>3, <1>5
<1>9. found \in Seq(Range(found))
  BY <1>5, SeqOfRange
<1>. QED
  BY <1>6, <1>7, <1>8, <1>9

(* Where nothing is missing, the cells of a vector hold its elements.      *)
LEMMA NumbersOfVector ==
  ASSUME NEW S \in SUBSET Nat, IsFiniteSet(S),
         NEW cells, cells \in Seq(Range(cells)), Len(cells) = Cardinality(S),
         \A i \in 1 .. Len(cells) : cells[i] = [number |-> get_vect_element(S, i - 1)]
  PROVE  {c.number : c \in {d \in Range(cells) : "number" \in DOMAIN d}} = S
<1>1. Range(cells) = {cells[i] : i \in 1 .. Len(cells)} /\ Len(cells) \in Nat
  BY RangeEquality, SeqIsFunction
<1>2. \A d \in Range(cells) : \E i \in 1 .. Len(cells) : d = [number |-> get_vect_element(S, i - 1)]
  BY <1>1
<1>3. \A d \in Range(cells) : "number" \in DOMAIN d /\ d.number \in S
  <2>1. TAKE d \in Range(cells)
  <2>2. PICK i \in 1 .. Len(cells) : d = [number |-> get_vect_element(S, i - 1)]
    BY <1>2
  <2>3. i - 1 \in 0 .. Cardinality(S) - 1
    BY <1>1
  <2>4. get_vect_element(S, i - 1) \in S
    BY <2>3, EveryRankTaken
  <2>. QED
    BY <2>2, <2>4
<1>4. \A k \in S : \E d \in Range(cells) : d.number = k
  <2>1. TAKE k \in S
  <2>2. PICK m \in 0 .. Cardinality(S) - 1 : get_vect_element(S, m) = k
    BY EveryRankTaken
  <2>3. m + 1 \in 1 .. Len(cells) /\ (m + 1) - 1 = m
    BY <1>1
  <2>4. cells[m + 1] = [number |-> k] /\ cells[m + 1] \in Range(cells)
    BY <1>1, <2>2, <2>3
  <2>. QED
    BY <2>4
<1>. QED
  BY <1>3, <1>4

LEMMA VectorReplaced ==
  ASSUME VectOK(vect), NEW v \in Vectors, NEW S \in SUBSET Nat, IsFiniteSet(S), vect' = [vect EXCEPT ![v] = S]
  PROVE  VectOK(vect') /\ vect'[v] = S /\ \A w \in Vectors \ {v} : vect'[w] = vect[w]
<1>1. vect \in [Vectors -> SUBSET Nat] /\ \A x \in Vectors : IsFiniteSet(vect[x])
  BY DEF VectOK
<1>2. vect' \in [Vectors -> SUBSET Nat] /\ vect'[v] = S /\ \A w \in Vectors \ {v} : vect'[w] = vect[w]
  BY <1>1
<1>3. \A x \in Vectors : IsFiniteSet(vect'[x])
  BY <1>1, <1>2
<1>. QED
  BY <1>2, <1>3 DEF VectOK

LEMMA LoadVectorKeeps ==
  ASSUME IInv, LoadCtrl, Layout[n] \notin Structures
  PROVE  IInv'
<1>. DEFINE v == Layout[n]
            found == SubSeq(ctrl_file, pos + 1, Min({pos + len[v], Len(ctrl_file)}))
            numbers(k) == {c.number : c \in {d \in Range(SubSeq(found, 1, k)) : "number" \in DOMAIN d}}
            Missing(k) == {J \in SUBSET Slots : Cardinality(J) <= k /\ (k > 0 => J # {})}
<1>0. SavedOK' /\ CtrlOK'
  BY FilesKept DEF IInv, LoadCtrl
<1>1. pc = "load_ctrl" /\ n \in 1 .. Len(Layout) /\ Len(Layout) \in Nat /\ LoadVector(v)
  BY LayoutFacts DEF LoadCtrl, IInv, TypeOK
<1>2. v \in Vectors /\ VectOK(vect) /\ len \in [Vectors -> Nat] /\ len[v] \in Nat /\ pos \in Nat
  BY <1>1, LengthComesFirst DEF IInv, TypeOK
<1>3. /\ \E k \in 0 .. Len(found) :
           /\ \/ k = Len(found) /\ Works /\ UNCHANGED unnoticed
              \/ k < Len(found) /\ Fails("short") /\ unnoticed' = TRUE
              \/ k = 0 /\ len[v] > 0 /\ Fails("read") /\ unnoticed' = TRUE
           /\ pos' = pos + k
           /\ \E J \in Missing(len[v] - Cardinality(numbers(k))) :
                vect' = [vect EXCEPT ![v] = numbers(k) \cup J]
      /\ n' = n + 1
      /\ pc' = pc /\ body' = body /\ len' = len
  <2>. HIDE DEF v
  <2>. QED
    BY <1>1 DEF LoadVector
<1>4. /\ data' = data /\ rw_ptr' = rw_ptr /\ disk_file' = disk_file /\ ctrl_file' = ctrl_file
      /\ exist' = exist /\ ret' = ret /\ save' = save /\ saved' = saved
  BY DEF LoadCtrl, files
<1>5. /\ found \in Seq(Range(found)) /\ Len(found) \in Nat
      /\ \A i \in 1 .. Len(found) : CellOK(found[i]) /\ found[i] = ctrl_file[pos + i]
      /\ pos + len[v] <= Len(ctrl_file) => Len(found) = len[v]
  <2>. HIDE DEF found, v
  <2>. QED
    BY <1>2, CellsFound DEF found
<1>6. \A k \in 0 .. Len(found) : numbers(k) \in SUBSET Nat /\ IsFiniteSet(numbers(k))
  <2>1. TAKE k \in 0 .. Len(found)
  <2>. DEFINE cells == SubSeq(found, 1, k)
              T == Range(found)
  <2>2. k \in Nat /\ 0 + k <= Len(found) /\ 0 + 1 = 1 /\ 0 + k = k
    BY <1>5
  <2>3. found \in Seq(T)
    BY <1>5
  <2>. HIDE DEF T, found
  <2>4. cells \in Seq(T) /\ Len(cells) = k /\ \A i \in 1 .. k : cells[i] = found[0 + i]
    BY <2>2, <2>3, ManyElements, 0 \in Nat
  <2>5. cells \in Seq(Range(cells))
    BY <2>4, SeqOfRange
  <2>6. \A i \in 1 .. Len(cells) : CellOK(cells[i])
    <3>1. \A i \in 1 .. k : i \in 1 .. Len(found) /\ 0 + i = i
      BY <1>5, <2>2
    <3>. QED
      BY <1>5, <2>4, <3>1
  <2>. HIDE DEF cells
  <2>. QED
    BY <2>5, <2>6, NumbersOfCells DEF cells
<1>7. \A k : \A J \in Missing(k) : J \in SUBSET Nat /\ IsFiniteSet(J)
  <2>1. \A J \in SUBSET Slots : J \in SUBSET Nat /\ IsFiniteSet(J)
    BY LifeCycleAssumption, FS_Subset
  <2>. QED
    BY <2>1
<1>. HIDE DEF v, found, numbers, Missing
<1>8. \E S \in SUBSET Nat : IsFiniteSet(S) /\ vect' = [vect EXCEPT ![v] = S]
  <2>1. PICK k \in 0 .. Len(found) : \E J \in Missing(len[v] - Cardinality(numbers(k))) :
                                      vect' = [vect EXCEPT ![v] = numbers(k) \cup J]
    BY <1>3
  <2>2. PICK J \in Missing(len[v] - Cardinality(numbers(k))) : vect' = [vect EXCEPT ![v] = numbers(k) \cup J]
    BY <2>1
  <2>3. J \in SUBSET Nat /\ IsFiniteSet(J)
    BY <1>7, <2>2
  <2>4. numbers(k) \cup J \in SUBSET Nat /\ IsFiniteSet(numbers(k) \cup J)
    BY <1>6, <2>1, <2>3, FS_Union
  <2>. QED
    BY <2>2, <2>4
<1>9. TypeOK'
  <2>1. VectOK(vect')
    BY <1>2, <1>8, VectorReplaced
  <2>2. pos' \in Nat /\ n' \in 1 .. Len(Layout) + 1
    BY <1>1, <1>2, <1>3, <1>5
  <2>3. unnoticed' \in BOOLEAN
    <3>1. unnoticed' = unnoticed \/ unnoticed' = TRUE
      BY <1>3
    <3>. QED
      BY <3>1 DEF IInv, TypeOK
  <2>4. faults' \in 0 .. MAX_FAULTS
    BY <1>3, LifeCycleAssumption DEF IInv, TypeOK, Works, Fails
  <2>. QED
    BY <1>3, <1>4, <2>1, <2>2, <2>3, <2>4 DEF IInv, TypeOK
<1>10. LoadOK'
  <2>1. SUFFICES ASSUME saved # Junk, ~unnoticed'
                 PROVE  /\ ReadSoFar(saved)'
                        /\ \E off \in [1 .. Len(Layout) + 1 -> Nat] :
                             LaidAt(saved, ctrl_file, off, Len(Layout) + 1) /\ off[n + 1] = pos'
    BY <1>3, <1>4 DEF LoadOK
  <2>. DEFINE all == numbers(Len(found))
  <2>2. /\ pos' = pos + Len(found) /\ ~unnoticed
        /\ \E J \in Missing(len[v] - Cardinality(all)) : vect' = [vect EXCEPT ![v] = all \cup J]
    <3>1. PICK k \in 0 .. Len(found) :
             /\ \/ k = Len(found) /\ Works /\ UNCHANGED unnoticed
                \/ k < Len(found) /\ Fails("short") /\ unnoticed' = TRUE
                \/ k = 0 /\ len[v] > 0 /\ Fails("read") /\ unnoticed' = TRUE
             /\ pos' = pos + k
             /\ \E J \in Missing(len[v] - Cardinality(numbers(k))) :
                  vect' = [vect EXCEPT ![v] = numbers(k) \cup J]
      BY <1>3
    <3>2. k = Len(found) /\ ~unnoticed
      BY <2>1, <3>1
    <3>. QED
      BY <3>1, <3>2
  <2>0. all = {c.number : c \in {d \in Range(found) : "number" \in DOMAIN d}}
    <3>1. SubSeq(found, 1, Len(found)) = found
      BY <1>5, WholePiece
    <3>. QED
      BY <3>1 DEF numbers
  <2>. HIDE DEF all
  <2>3. ReadSoFar(saved) /\ VectOK(saved.vect)
    BY <1>1, <2>1, <2>2 DEF IInv, LoadOK, SavedOK
  <2>. DEFINE S == saved.vect[v]
  <2>4. S \in SUBSET Nat /\ IsFiniteSet(S) /\ Cardinality(S) \in Nat
    BY <1>2, <2>3, FS_CardinalityType DEF VectOK
  <2>5. len[v] = Cardinality(S)
    <3>1. PICK j \in 1 .. n - 1 : Layout[j] \in Structures /\ v \in VectorsOf(Layout[j])
      BY <1>1, LengthComesFirst DEF v
    <3>. QED
      BY <2>3, <3>1 DEF ReadSoFar
  <2>6. Size(saved, Layout[n]) = len[v]
    BY <2>5 DEF Size, v
  <2>7. FoundInPlace(len[v])
    BY <1>1, <1>2, <2>1, <2>2, <2>6, NextPartFound
  <2>8. Len(found) = len[v]
    BY <1>5, <2>7 DEF FoundInPlace
  <2>9. \A i \in 1 .. Len(found) : found[i] = [number |-> get_vect_element(S, i - 1)]
    BY <1>5, <2>7, <2>8 DEF FoundInPlace, CellOf, v
  <2>10. all = S
    <3>. HIDE DEF S
    <3>. QED
      BY <1>5, <2>0, <2>4, <2>5, <2>8, <2>9, NumbersOfVector
  <2>11. vect' = [vect EXCEPT ![v] = S]
    <3>1. PICK J \in Missing(len[v] - Cardinality(all)) : vect' = [vect EXCEPT ![v] = all \cup J]
      BY <2>2
    <3>2. J \in SUBSET Slots /\ Cardinality(J) <= 0
      <4>1. len[v] - Cardinality(all) = 0
        BY <2>4, <2>5, <2>10
      <4>. QED
        BY <3>1, <4>1 DEF Missing
    <3>3. IsFiniteSet(J) /\ Cardinality(J) \in Nat
      BY <3>2, LifeCycleAssumption, FS_Subset, FS_CardinalityType
    <3>4. Cardinality(J) = 0
      BY <3>2, <3>3
    <3>5. J = {}
      BY <3>3, <3>4, FS_EmptySet
    <3>. QED
      BY <2>10, <3>1, <3>5
  <2>12. vect'[v] = S /\ \A w \in Vectors \ {v} : vect'[w] = vect[w]
    <3>. HIDE DEF S
    <3>. QED
      BY <1>2, <2>4, <2>11, VectorReplaced
  <2>13. ASSUME NEW k \in 1 .. n
         PROVE  IF Layout[k] \in Structures
                THEN /\ body'[Layout[k]] = saved.body[Layout[k]]
                     /\ \A w \in VectorsOf(Layout[k]) : len'[w] = Cardinality(saved.vect[w])
                ELSE vect'[Layout[k]] = saved.vect[Layout[k]]
    <3>1. CASE Layout[k] = v
      BY <2>12, <3>1 DEF v
    <3>2. CASE Layout[k] # v
      <4>1. k \in 1 .. n - 1 /\ k \in 1 .. Len(Layout)
        BY <1>1, <3>2 DEF v
      <4>2. Layout[k] \in Structures \/ Layout[k] \in Vectors \ {v}
        BY <3>2, <4>1, LengthComesFirst
      <4>. QED
        BY <1>3, <2>3, <2>12, <4>1, <4>2 DEF ReadSoFar
    <3>. QED
      BY <3>1, <3>2
  <2>14. ReadSoFar(saved)'
    <3>1. n' - 1 = n
      BY <1>1, <1>3
    <3>. QED
      BY <1>4, <2>13, <3>1 DEF ReadSoFar
  <2>. QED
    BY <2>2, <2>7, <2>8, <2>14 DEF FoundInPlace
<1>. QED
  BY <1>0, <1>1, <1>3, <1>4, <1>9, <1>10 DEF IInv, DiskOK, SaveOK, LoadRestores

LEMMA LoadCtrlKeeps ==
  ASSUME IInv, LoadCtrl
  PROVE  IInv'
BY LoadStructureKeeps, LoadVectorKeeps

(* All that was saved has been read, into place.                           *)
LEMMA LoadedKeeps ==
  ASSUME IInv, Loaded
  PROVE  IInv'
<1>1. SavedOK' /\ CtrlOK'
  BY FilesKept DEF IInv, Loaded
<1>2. UNCHANGED <<memory, files, local, save, saved, unnoticed, faults>> /\ ret' = 0 /\ pc' = "ready"
  BY DEF Loaded
<1>3. TypeOK'
  BY <1>2 DEF IInv, TypeOK, memory, files, local
<1>4. LoadRestores'
  <2>1. SUFFICES ASSUME saved # Junk, ~unnoticed PROVE Context = saved
    BY <1>2 DEF LoadRestores, Context, memory
  <2>2. pc = "load_ctrl" /\ n - 1 = Len(Layout) /\ Len(Layout) \in Nat
    BY LayoutFacts DEF Loaded, IInv, TypeOK
  <2>3. ReadSoFar(saved) /\ data = saved.data /\ BodyOK(saved.body) /\ VectOK(saved.vect)
        /\ BodyOK(body) /\ VectOK(vect)
        /\ saved = [data |-> saved.data, body |-> saved.body, vect |-> saved.vect]
    BY <2>1, <2>2 DEF IInv, TypeOK, LoadOK, DiskOK, SavedOK
  <2>4. \A s \in Structures : body[s] = saved.body[s]
    <3>1. TAKE s \in Structures
    <3>2. PICK k \in 1 .. Len(Layout) : Layout[k] = s
      BY LengthComesFirst, LayoutFacts
    <3>. QED
      BY <2>2, <2>3, <3>2 DEF ReadSoFar
  <2>5. \A v \in Vectors : vect[v] = saved.vect[v]
    <3>1. TAKE v \in Vectors
    <3>2. PICK k \in 1 .. Len(Layout) : Layout[k] = v
      BY LengthComesFirst
    <3>3. v \notin Structures
      BY DEF Vectors
    <3>. QED
      BY <2>2, <2>3, <3>2, <3>3 DEF ReadSoFar
  <2>6. body = saved.body
    BY <2>3, <2>4 DEF BodyOK
  <2>7. vect = saved.vect
    BY <2>3, <2>5 DEF VectOK
  <2>. QED
    BY <2>3, <2>6, <2>7 DEF Context
<1>. QED
  BY <1>1, <1>2, <1>3, <1>4 DEF IInv, DiskOK, SaveOK, LoadOK

----------------------------------------------------------------------------
(* Between loading and saving.                                             *)
LEMMA InsmodKeeps ==
  ASSUME IInv, Insmod
  PROVE  IInv'
<1>1. SavedOK' /\ CtrlOK'
  BY FilesKept DEF IInv, Insmod
<1>2. TypeOK'
  BY DEF IInv, TypeOK, Insmod, memory, files, local
<1>. QED
  BY <1>1, <1>2 DEF IInv, Insmod, DiskOK, SaveOK, LoadOK, LoadRestores

LEMMA InitSmrDiskKeeps ==
  ASSUME IInv, init_smr_disk
  PROVE  IInv'
<1>1. SavedOK' /\ CtrlOK'
  BY FilesKept DEF IInv, init_smr_disk
<1>2. /\ UNCHANGED <<data, len, files, local, save, saved, unnoticed, faults>>
      /\ body' = InitialBody /\ vect' = InitialVectors /\ ret' = -1 /\ pc' = "ready"
  BY DEF init_smr_disk
<1>3. BodyOK(body)
  BY DEF IInv, TypeOK
<1>4. BodyOK(body')
  <2>1. "s_ctr" \in DOMAIN body /\ "m_ctr" \in DOMAIN body /\ DOMAIN body = Structures
        /\ DOMAIN body["s_ctr"] = DOMAIN Zero["s_ctr"] /\ DOMAIN body["m_ctr"] = DOMAIN Zero["m_ctr"]
    BY <1>3 DEF BodyOK, Structures
  <2>3. body' = [s \in Structures |->
                   CASE s = "s_ctr" -> [body["s_ctr"] EXCEPT !["tables"] = "invalid"]
                     [] s = "m_ctr" -> [body["m_ctr"] EXCEPT !["status"] = "NO_SB0"]
                     [] OTHER -> body[s]]
    BY <1>2, <2>1 DEF InitialBody
  <2>4. "s_ctr" \in Structures /\ "m_ctr" \in Structures
    BY DEF Structures
  <2>5. /\ body'["s_ctr"] = [body["s_ctr"] EXCEPT !["tables"] = "invalid"]
        /\ body'["m_ctr"] = [body["m_ctr"] EXCEPT !["status"] = "NO_SB0"]
        /\ \A s \in Structures \ {"s_ctr", "m_ctr"} : body'[s] = body[s]
    BY <2>3, <2>4
  <2>6. DOMAIN body'["s_ctr"] = DOMAIN Zero["s_ctr"] /\ DOMAIN body'["m_ctr"] = DOMAIN Zero["m_ctr"]
    BY <2>1, <2>5
  <2>7. \A s \in Structures : DOMAIN body'[s] = DOMAIN Zero[s]
    BY <1>3, <2>5, <2>6 DEF BodyOK
  <2>8. DOMAIN body' = Structures /\ body' = [s \in Structures |-> body'[s]]
    BY <2>3
  <2>. QED
    BY <2>7, <2>8 DEF BodyOK
<1>5. VectOK(vect')
  <2>1. vect' = [v \in Vectors |-> IF v = "free_hdd_bufs" THEN Slots ELSE {}]
    BY <1>2 DEF InitialVectors
  <2>2. Slots \in SUBSET Nat /\ IsFiniteSet(Slots) /\ IsFiniteSet({})
    BY LifeCycleAssumption, FS_EmptySet
  <2>. QED
    BY <2>1, <2>2 DEF VectOK
<1>6. TypeOK'
  BY <1>2, <1>4, <1>5 DEF IInv, TypeOK, files, local
<1>. QED
  BY <1>1, <1>2, <1>6 DEF IInv, DiskOK, SaveOK, LoadOK, LoadRestores

LEMMA ContextTyped ==
  ASSUME TypeOK, LeaveContext \/ UNCHANGED memory
  PROVE  /\ data' \in Seq(DataUnits) /\ Len(data') = ImageSize
         /\ BodyOK(body') /\ len' \in [Vectors -> Nat] /\ VectOK(vect')
BY ContextAssumption DEF TypeOK, LeaveContext, memory

LEMMA PowerOnKeeps ==
  ASSUME IInv, PowerOn
  PROVE  IInv'
<1>1. SavedOK' /\ CtrlOK'
  BY FilesKept DEF IInv, PowerOn
<1>2. 1 \in 1 .. Len(Layout) + 1
  BY LayoutFacts
<1>3. /\ data' \in Seq(DataUnits) /\ Len(data') = ImageSize
      /\ BodyOK(body') /\ len' \in [Vectors -> Nat] /\ VectOK(vect')
  BY ContextTyped DEF IInv, PowerOn
<1>4. TypeOK'
  BY <1>2, <1>3 DEF IInv, TypeOK, PowerOn, files
<1>. QED
  BY <1>1, <1>4 DEF IInv, PowerOn, DiskOK, SaveOK, LoadOK, LoadRestores

LEMMA RequestKeeps ==
  ASSUME IInv, NEW sector, NEW nsect, do_request(sector, nsect)
  PROVE  IInv'
<1>1. SavedOK' /\ CtrlOK'
  BY FilesKept DEF IInv, do_request
<1>2. /\ data' \in Seq(DataUnits) /\ Len(data') = ImageSize
      /\ BodyOK(body') /\ len' \in [Vectors -> Nat] /\ VectOK(vect')
  BY ContextTyped DEF IInv, do_request
<1>3. TypeOK'
  BY <1>2 DEF IInv, TypeOK, do_request, files, local
<1>. QED
  BY <1>1, <1>3 DEF IInv, do_request, DiskOK, SaveOK, LoadOK, LoadRestores

LEMMA RmmodKeeps ==
  ASSUME IInv, Rmmod
  PROVE  IInv'
<1>1. SavedOK' /\ CtrlOK'
  BY FilesKept DEF IInv, Rmmod
<1>2. pc' \in {"save", "release"}
  BY DEF Rmmod
<1>3. TypeOK'
  BY <1>2 DEF IInv, TypeOK, Rmmod, memory, files, local
<1>. QED
  BY <1>1, <1>2, <1>3 DEF IInv, Rmmod, DiskOK, SaveOK, LoadOK, LoadRestores

LEMMA ReleaseKeeps ==
  ASSUME IInv, Release
  PROVE  IInv'
<1>1. SavedOK' /\ CtrlOK'
  BY FilesKept DEF IInv, Release
<1>2. TypeOK'
  <2>1. /\ NewData \in Seq(DataUnits) /\ Len(NewData) = ImageSize
        /\ BodyOK(Zero) /\ NoLengths \in [Vectors -> Nat] /\ VectOK(NoElements)
    BY FirstMemory
  <2>2. 1 \in 1 .. Len(Layout) + 1
    BY LayoutFacts
  <2>. QED
    BY <2>1, <2>2 DEF IInv, TypeOK, Release, files
<1>. QED
  BY <1>1, <1>2 DEF IInv, Release, DiskOK, SaveOK, LoadOK, LoadRestores

----------------------------------------------------------------------------
(* Saving the image.                                                       *)
LEMMA SaveOpenKeeps ==
  ASSUME IInv, SaveOpen
  PROVE  IInv'
<1>1. /\ UNCHANGED <<memory, disk_file, ctrl_file, ret, save, saved, unnoticed>>
      /\ pos' = 0 /\ rw_ptr' = 0 /\ n' = 1
      /\ pc' \in {"save_disk", "release"} /\ exist' \subseteq FilePaths
      /\ Works \/ Fails("open")
  BY DEF IInv, TypeOK, SaveOpen
<1>2. SavedOK' /\ CtrlOK'
  BY <1>1 DEF IInv, SavedOK, CtrlOK, CellOK
<1>3. TypeOK'
  <2>1. 1 \in 1 .. Len(Layout) + 1
    BY LayoutFacts
  <2>2. faults' \in 0 .. MAX_FAULTS
    BY <1>1, LifeCycleAssumption DEF IInv, TypeOK, Works, Fails
  <2>. QED
    BY <1>1, <2>1, <2>2 DEF IInv, TypeOK, memory
<1>4. DiskOK'
  <2>1. 0 <= Len(disk_file)
    BY LenProperties DEF IInv, TypeOK
  <2>2. InStep' /\ Agree'
    BY <1>1, FirstInStep
  <2>. QED
    BY <1>1, <2>1, <2>2 DEF DiskOK, memory
<1>. QED
  BY <1>1, <1>2, <1>3, <1>4 DEF IInv, SaveOK, LoadOK, LoadRestores

LEMMA SaveBlockKeeps ==
  ASSUME IInv, SaveBlock
  PROVE  IInv'
<1>1. /\ InStep /\ n = 1 /\ pos \in Nat /\ rw_ptr \in Nat /\ more /\ pc = "save_disk"
      /\ pos <= Len(disk_file) /\ Agree
      /\ pos > 0 => saved = Junk
      /\ data \in Seq(DataUnits) /\ disk_file \in Seq(DataUnits) /\ Len(data) = ImageSize
      /\ Len(disk_file) \in Nat /\ Len(disk_file) <= ImageSize
  BY LenProperties DEF IInv, TypeOK, DiskOK, SaveBlock
<1>2. /\ UNCHANGED <<memory, ctrl_file, exist, n, ret, save, unnoticed>>
      /\ rw_ptr' = IF pc' = "oops" THEN rw_ptr ELSE rw_ptr + EXT2_BLOCK_SIZE
  BY DEF SaveBlock
<1>3. CtrlOK'
  BY <1>2 DEF IInv, CtrlOK, CellOK
<1>4. ASSUME NEW k \in 1 .. EXT2_BLOCK_SIZE, InData, Moves(k), pos' = pos + k, pc' = pc, saved' = Junk,
             disk_file' = Overwrite(disk_file, pos, SubSeq(data, rw_ptr + 1, rw_ptr + k))
      PROVE  IInv'
  <2>1. rw_ptr' = rw_ptr + EXT2_BLOCK_SIZE
    BY <1>1, <1>2, <1>4
  <2>2. /\ InStep' /\ pos + k <= ImageSize /\ rw_ptr + k <= ImageSize
        /\ pos' = rw_ptr' => pos = rw_ptr
    BY <1>1, <1>4, <2>1, MovedInStep
  <2>3. /\ disk_file' \in Seq(DataUnits) /\ Len(disk_file') <= ImageSize /\ pos + k <= Len(disk_file')
        /\ \A i \in 1 .. pos : disk_file'[i] = disk_file[i]
        /\ \A i \in 1 .. k : disk_file'[pos + i] = data[rw_ptr + i]
    <3>1. rw_ptr + k <= Len(data) /\ k \in Nat
      BY <1>1, <1>4, <2>2, SizeOfImage DEF InData
    <3>2. UnitsCopied(disk_file', disk_file, pos, data, rw_ptr, k)
      BY <1>1, <1>4, <3>1, UnitsOverwritten
    <3>. QED
      BY <1>1, <2>2, <3>1, <3>2, SizeOfImage DEF UnitsCopied
  <2>4. Agree'
    <3>1. SUFFICES ASSUME pos' = rw_ptr', NEW i \in 1 .. pos' PROVE data[i] = disk_file'[i]
      BY <1>2 DEF Agree, memory
    <3>2. pos = rw_ptr /\ pos' = pos + k /\ i \in Nat
      BY <1>1, <1>4, <2>2, <3>1
    <3>3. CASE i \in 1 .. pos
      BY <1>1, <2>3, <3>2, <3>3 DEF Agree
    <3>4. CASE i \notin 1 .. pos
      <4>1. i - pos \in 1 .. k /\ pos + (i - pos) = i /\ rw_ptr + (i - pos) = i
        BY <1>1, <3>1, <3>2, <3>4
      <4>. QED
        BY <2>3, <4>1
    <3>. QED
      BY <3>3, <3>4
  <2>5. TypeOK'
    <3>1. pos' \in Nat /\ rw_ptr' \in Nat
      BY <1>1, <1>4, <2>1, SizeOfImage
    <3>2. faults' \in 0 .. MAX_FAULTS
      BY <1>4, LifeCycleAssumption DEF IInv, TypeOK, Moves, Works, Fails
    <3>. QED
      BY <1>2, <1>4, <2>3, <3>1, <3>2 DEF IInv, TypeOK, memory
  <2>6. DiskOK'
    BY <1>1, <1>2, <1>4, <2>2, <2>3, <2>4 DEF DiskOK
  <2>. QED
    BY <1>1, <1>3, <1>4, <2>5, <2>6 DEF IInv, SavedOK, SaveOK, LoadOK, LoadRestores
<1>5. ASSUME UNCHANGED <<disk_file, pos, saved>>,
             \/ Moves(0) /\ UNCHANGED pc
             \/ Fails("write") /\ pc' = "release"
             \/ Overruns("release")
      PROVE  IInv'
  <2>1. TypeOK'
    <3>1. rw_ptr' \in Nat
      BY <1>1, <1>2, SizeOfImage
    <3>2. faults' \in 0 .. MAX_FAULTS
      BY <1>5, LifeCycleAssumption DEF IInv, TypeOK, Moves, Overruns, Works, Fails
    <3>3. pc' \in {"save_disk", "release", "oops"}
      BY <1>1, <1>5 DEF Overruns
    <3>. QED
      BY <1>2, <1>5, <3>1, <3>2, <3>3 DEF IInv, TypeOK, memory
  <2>2. SavedOK'
    BY <1>2, <1>5 DEF IInv, SavedOK
  <2>3. CASE pc' = "save_disk"
    <3>1. rw_ptr' = rw_ptr + EXT2_BLOCK_SIZE /\ pos' = pos /\ Moves(0)
      BY <1>2, <1>5, <2>3 DEF Overruns
    <3>2. InStep' /\ Agree'
      BY <1>1, <3>1, PassedInStep DEF Agree
    <3>3. DiskOK'
      BY <1>1, <1>2, <1>5, <2>3, <3>2 DEF DiskOK
    <3>. QED
      BY <1>3, <2>1, <2>2, <2>3, <3>3 DEF IInv, SaveOK, LoadOK, LoadRestores
  <2>4. CASE pc' = "release"
    BY <1>3, <2>1, <2>2, <2>4 DEF IInv, DiskOK, SaveOK, LoadOK, LoadRestores
  <2>5. CASE pc' = "oops"
    <3>1. pos < rw_ptr
      BY <1>1, <1>5, <2>5, BehindData DEF Overruns
    <3>2. pos' < rw_ptr'
      BY <1>2, <1>5, <2>5, <3>1
    <3>. QED
      BY <1>3, <2>1, <2>2, <2>5, <3>2 DEF IInv, DiskOK, SaveOK, LoadOK, LoadRestores
  <2>. QED
    BY <1>1, <1>5, <2>3, <2>4, <2>5 DEF Overruns
<1>. QED
  BY <1>4, <1>5 DEF SaveBlock

LEMMA SavedDiskKeeps ==
  ASSUME IInv, SavedDisk
  PROVE  IInv'
<1>1. SavedOK' /\ CtrlOK'
  BY FilesKept DEF IInv, SavedDisk
<1>2. UNCHANGED <<memory, files, rw_ptr, n, ret, save, saved, unnoticed, faults>> /\ pc' = "save_ctrl" /\ pos' = 0
  BY DEF SavedDisk
<1>3. TypeOK'
  BY <1>2 DEF IInv, TypeOK, memory, files
<1>4. /\ data \in Seq(DataUnits) /\ disk_file \in Seq(DataUnits)
      /\ Len(data) = ImageSize /\ Len(disk_file) <= ImageSize
      /\ pos <= Len(disk_file) /\ pos = ImageSize /\ rw_ptr = ImageSize
      /\ ImageSize \in Nat \ {0}
      /\ \A i \in 1 .. pos : disk_file[i] = data[i]
      /\ pos > 0 => saved = Junk
      /\ Len(disk_file) \in Nat
      /\ n = 1
  <2>1. pos = ImageSize /\ rw_ptr = ImageSize
    BY SizeOfImage DEF IInv, TypeOK, DiskOK, SavedDisk, more, InStep
  <2>. QED
    BY <2>1, SizeOfImage, LenProperties DEF IInv, TypeOK, DiskOK, SavedDisk, Agree
<1>5. saved = Junk /\ Len(disk_file) = Len(data) /\ pos = Len(data)
  BY <1>4
<1>6. data = disk_file
  BY <1>4, <1>5, SeqEqual
<1>7. DiskOK'
  BY <1>2, <1>4, <1>5, <1>6 DEF DiskOK, memory, files
<1>8. Laid(Context, ctrl_file, 1, 0)
  <2>. DEFINE off == [k \in 1 .. 1 |-> 0]
  <2>1. off \in [1 .. 1 -> Nat] /\ off[1] = 0
    OBVIOUS
  <2>2. Len(ctrl_file) \in Nat
    BY SeqIsFunction DEF IInv, CtrlOK
  <2>3. LaidAt(Context, ctrl_file, off, 1)
    <3>1. 1 .. 1 - 1 = {}
      OBVIOUS
    <3>2. \A k \in 1 .. 1 : off[k] <= off[1]
      OBVIOUS
    <3>. HIDE DEF off
    <3>. QED
      BY <2>1, <2>2, <3>1, <3>2 DEF LaidAt
  <2>. HIDE DEF off
  <2>. QED
    BY <2>1, <2>3 DEF Laid
<1>9. SaveOK'
  <2>1. 0 <= Len(ctrl_file)
    BY SeqIsFunction DEF IInv, CtrlOK
  <2>. QED
    BY <1>2, <1>4, <1>8, <2>1 DEF SaveOK, Context, memory, files
<1>. QED
  BY <1>1, <1>2, <1>3, <1>7, <1>9 DEF IInv, LoadOK, LoadRestores

----------------------------------------------------------------------------
(* Saving the control data.                                                *)
LEMMA SizeType ==
  ASSUME NEW c, VectOK(c.vect), NEW k \in 1 .. Len(Layout)
  PROVE  Size(c, Layout[k]) \in Nat
<1>1. CASE Layout[k] \in Structures
  BY <1>1 DEF Size
<1>2. CASE Layout[k] \notin Structures
  <2>1. Layout[k] \in Vectors
    BY <1>2, LengthComesFirst
  <2>2. IsFiniteSet(c.vect[Layout[k]])
    BY <2>1 DEF VectOK
  <2>. QED
    BY <1>2, <2>2, FS_CardinalityType DEF Size
<1>. QED
  BY <1>1, <1>2

(* A part written behind those that are laid extends them.                 *)
LEMMA LaidExtended ==
  ASSUME NEW c, VectOK(c.vect), NEW m \in 1 .. Len(Layout),
         NEW file, file \in Seq(Range(file)), NEW at \in Nat, Laid(c, file, m, at),
         NEW cells, cells \in Seq(Range(cells)), Len(cells) = Size(c, Layout[m]),
         \A i \in 1 .. Len(cells) : cells[i] = CellOf(c, Layout[m], i),
         NEW new, new = Overwrite(file, at, cells)
  PROVE  Laid(c, new, m + 1, at + Len(cells))
<1>1. m \in Nat /\ m <= Len(Layout) /\ Len(Layout) \in Nat /\ m >= 1 /\ Len(file) \in Nat /\ Len(cells) \in Nat
  BY LayoutFacts, SeqIsFunction
<1>2. PICK off \in [1 .. m -> Nat] : LaidAt(c, file, off, m) /\ off[m] = at
  BY DEF Laid
<1>3. /\ off[1] = 0 /\ at <= Len(file)
      /\ \A k \in 1 .. m - 1 : off[k + 1] = off[k] + Size(c, Layout[k])
      /\ \A k \in 1 .. m : off[k] <= at
      /\ \A k \in 1 .. m - 1 : \A i \in 1 .. Size(c, Layout[k]) : file[off[k] + i] = CellOf(c, Layout[k], i)
  BY <1>2 DEF LaidAt
<1>4. Overwritten(new, file, at, cells)
  BY <1>3, OverwriteFacts
<1>. DEFINE off2 == [k \in 1 .. m + 1 |-> IF k = m + 1 THEN at + Len(cells) ELSE off[k]]
<1>5. /\ off2 \in [1 .. m + 1 -> Nat] /\ off2[m + 1] = at + Len(cells)
      /\ \A k \in 1 .. m : off2[k] = off[k] /\ off[k] \in Nat
  BY <1>1, <1>2
<1>. HIDE DEF off2
<1>6. off2[1] = 0
  <2>1. 1 \in 1 .. m
    BY <1>1
  <2>. QED
    BY <1>3, <1>5, <2>1
<1>7. \A k \in 1 .. m : off2[k + 1] = off2[k] + Size(c, Layout[k])
  <2>1. TAKE k \in 1 .. m
  <2>2. CASE k = m
    BY <1>1, <1>2, <1>5, <2>2
  <2>3. CASE k # m
    <3>1. k \in 1 .. m - 1 /\ k + 1 \in 1 .. m
      BY <1>1, <2>3
    <3>. QED
      BY <1>3, <1>5, <3>1
  <2>. QED
    BY <2>2, <2>3
<1>8. \A k \in 1 .. m + 1 : off2[k] <= off2[m + 1]
  <2>1. TAKE k \in 1 .. m + 1
  <2>2. CASE k = m + 1
    BY <1>1, <1>5, <2>2
  <2>3. CASE k # m + 1
    <3>1. k \in 1 .. m
      BY <1>1, <2>3
    <3>. QED
      BY <1>1, <1>3, <1>5, <3>1
  <2>. QED
    BY <2>2, <2>3
<1>9. \A k \in 1 .. m : \A i \in 1 .. Size(c, Layout[k]) : new[off2[k] + i] = CellOf(c, Layout[k], i)
  <2>1. TAKE k \in 1 .. m
  <2>2. TAKE i \in 1 .. Size(c, Layout[k])
  <2>3. CASE k = m
    <3>1. i \in 1 .. Len(cells) /\ off2[k] = at
      BY <1>1, <1>2, <1>5, <2>3
    <3>. QED
      BY <1>4, <2>3, <3>1 DEF Overwritten
  <2>4. CASE k # m
    <3>1. k \in 1 .. m - 1 /\ k + 1 \in 1 .. m /\ k \in 1 .. Len(Layout)
      BY <1>1, <2>4
    <3>2. off[k + 1] = off[k] + Size(c, Layout[k]) /\ off[k + 1] <= at /\ off[k] \in Nat
      BY <1>3, <1>5, <3>1
    <3>3. Size(c, Layout[k]) \in Nat
      BY <3>1, SizeType
    <3>4. off[k] + i \in 1 .. at
      BY <3>2, <3>3
    <3>5. new[off[k] + i] = file[off[k] + i]
      BY <1>4, <3>4 DEF Overwritten
    <3>. QED
      BY <1>3, <1>5, <3>1, <3>5
  <2>. QED
    BY <2>3, <2>4
<1>10. off2[m + 1] <= Len(new)
  BY <1>4, <1>5 DEF Overwritten
<1>11. (m + 1) - 1 = m
  BY <1>1
<1>12. LaidAt(c, new, off2, m + 1)
  BY <1>5, <1>6, <1>7, <1>8, <1>9, <1>10, <1>11 DEF LaidAt
<1>. QED
  BY <1>5, <1>12 DEF Laid

(* What save_smr_ctrl writes is the next part of the context.              *)
LEMMA CellsWritten ==
  ASSUME TypeOK, n \in 1 .. Len(Layout),
         len' = IF Layout[n] \in Structures THEN Measured(Layout[n]) ELSE len,
         NEW cells, cells = Cells(Layout[n])
  PROVE  /\ cells \in Seq(Range(cells)) /\ Len(cells) = Size(Context, Layout[n])
         /\ \A i \in 1 .. Len(cells) : cells[i] = CellOf(Context, Layout[n], i) /\ CellOK(cells[i])
         /\ len' \in [Vectors -> Nat]
<1>. DEFINE part == Layout[n]
<1>1. Context.body = body /\ Context.vect = vect /\ BodyOK(body) /\ VectOK(vect) /\ len \in [Vectors -> Nat]
  BY DEF Context, TypeOK
<1>2. CASE part \in Structures
  <2>. DEFINE measured == [v \in VectorsOf(part) |-> Cardinality(vect[v])]
              cell == [name |-> part, body |-> body[part], len |-> measured]
  <2>1. VectorsOf(part) \subseteq Vectors
    BY <1>2, LengthComesFirst
  <2>2. \A v \in VectorsOf(part) : Cardinality(vect[v]) \in Nat
    BY <1>1, <2>1, FS_CardinalityType DEF VectOK
  <2>3. measured \in [VectorsOf(part) -> Nat] /\ len' = WithLengths(part, measured)
    BY <1>2, <2>2 DEF Measured
  <2>4. /\ len' \in [Vectors -> Nat]
        /\ \A v \in Vectors : len'[v] = IF v \in VectorsOf(part) THEN measured[v] ELSE len[v]
    <3>. HIDE DEF part, measured
    <3>. QED
      BY <1>1, <1>2, <2>3, LengthsReplaced
  <2>5. [v \in VectorsOf(part) |-> len'[v]] = measured
    BY <2>1, <2>4
  <2>6. cells = <<cell>>
    BY <1>2, <2>5 DEF Cells
  <2>7. Len(cells) = 1 /\ cells[1] = cell /\ cells = [i \in 1 .. 1 |-> cells[i]]
    <3>. HIDE DEF cell
    <3>. QED
      BY <2>6
  <2>8. cells \in Seq(Range(cells))
    BY <2>7, FunctionIsSeq
  <2>9. CellOf(Context, part, 1) = cell /\ Size(Context, part) = 1
    BY <1>1, <1>2 DEF CellOf, Size
  <2>10. CellOK(cell)
    <3>1. DOMAIN cell = {"name", "body", "len"} /\ cell.name = part /\ cell.body = body[part] /\ cell.len = measured
      OBVIOUS
    <3>2. DOMAIN body[part] = DOMAIN Zero[part]
      BY <1>1, <1>2 DEF BodyOK
    <3>. HIDE DEF cell, measured, part
    <3>. QED
      BY <1>2, <2>3, <3>1, <3>2 DEF CellOK
  <2>. HIDE DEF cell
  <2>11. \A i \in 1 .. Len(cells) : cells[i] = CellOf(Context, part, i) /\ CellOK(cells[i])
    <3>1. \A i \in 1 .. 1 : i = 1
      OBVIOUS
    <3>. QED
      BY <2>7, <2>9, <2>10, <3>1
  <2>. QED
    BY <2>4, <2>7, <2>8, <2>9, <2>11
<1>3. CASE part \notin Structures
  <2>. DEFINE S == vect[part]
  <2>1. part \in Vectors
    BY <1>3, LengthComesFirst
  <2>2. S \in SUBSET Nat /\ IsFiniteSet(S) /\ Cardinality(S) \in Nat
    BY <1>1, <2>1, FS_CardinalityType DEF VectOK
  <2>3. cells = [i \in 1 .. Cardinality(S) |-> [number |-> get_vect_element(S, i - 1)]]
    BY <1>3 DEF Cells
  <2>4. /\ Size(Context, part) = Cardinality(S)
        /\ \A i : CellOf(Context, part, i) = [number |-> get_vect_element(S, i - 1)]
    BY <1>1, <1>3 DEF CellOf, Size
  <2>. HIDE DEF S
  <2>5. cells = [i \in 1 .. Cardinality(S) |-> cells[i]]
    BY <2>3
  <2>6. cells \in Seq(Range(cells)) /\ Len(cells) = Cardinality(S)
    BY <2>2, <2>5, FunctionIsSeq
  <2>7. \A i \in 1 .. Len(cells) : cells[i] = [number |-> get_vect_element(S, i - 1)]
    BY <2>3, <2>6
  <2>8. \A i \in 1 .. Len(cells) : CellOK(cells[i])
    <3>1. TAKE i \in 1 .. Len(cells)
    <3>2. i - 1 \in 0 .. Cardinality(S) - 1
      BY <2>2, <2>6
    <3>3. get_vect_element(S, i - 1) \in Nat
      BY <2>2, <3>2, EveryRankTaken
    <3>. DEFINE x == get_vect_element(S, i - 1)
                cell == [number |-> x]
    <3>4. DOMAIN cell = {"number"} /\ cell.number = x /\ cells[i] = cell
      <4>1. DOMAIN cell = {"number"}
        OBVIOUS
      <4>2. cell.number = x
        OBVIOUS
      <4>3. cells[i] = cell
        BY <2>7
      <4>. QED
        BY <4>1, <4>2, <4>3
    <3>. HIDE DEF cell, x
    <3>5. CellOK(cell)
      BY <3>3, <3>4 DEF CellOK, x
    <3>. QED
      BY <3>4, <3>5
  <2>9. len' \in [Vectors -> Nat]
    BY <1>1, <1>3
  <2>. QED
    BY <2>4, <2>6, <2>7, <2>8, <2>9
<1>. QED
  BY <1>2, <1>3

LEMMA SaveCtrlKeeps ==
  ASSUME IInv, SaveCtrl
  PROVE  IInv'
<1>. DEFINE cells == Cells(Layout[n])
<1>1. /\ pc = "save_ctrl" /\ n \in 1 .. Len(Layout) /\ Len(Layout) \in Nat
      /\ len' = IF Layout[n] \in Structures THEN Measured(Layout[n]) ELSE len
      /\ UNCHANGED <<data, body, vect, disk_file, exist, rw_ptr, ret, save, saved>>
      /\ pos \in Nat /\ VectOK(vect)
      /\ saved = Junk /\ disk_file = data /\ rw_ptr = ImageSize /\ pos <= Len(ctrl_file)
      /\ ~unnoticed => Laid(Context, ctrl_file, n, pos)
  BY LayoutFacts DEF IInv, TypeOK, DiskOK, SaveOK, SaveCtrl
<1>2. /\ cells \in Seq(Range(cells)) /\ Len(cells) = Size(Context, Layout[n])
      /\ \A i \in 1 .. Len(cells) : cells[i] = CellOf(Context, Layout[n], i) /\ CellOK(cells[i])
      /\ len' \in [Vectors -> Nat]
  <2>. HIDE DEF cells
  <2>. QED
    BY <1>1, CellsWritten DEF IInv, cells
<1>3. \/ /\ \E k \in 0 .. Len(cells) :
              /\ \/ k = Len(cells) /\ Works /\ UNCHANGED unnoticed
                 \/ k < Len(cells) /\ Fails("short") /\ unnoticed' = TRUE
              /\ ctrl_file' = Overwrite(ctrl_file, pos, SubSeq(cells, 1, k))
              /\ pos' = pos + k
              /\ n' = n + 1
              /\ UNCHANGED pc
      \/ Fails("write") /\ pc' = "release" /\ UNCHANGED <<ctrl_file, pos, n, unnoticed>>
  BY DEF SaveCtrl
<1>. HIDE DEF cells
<1>4. Len(cells) \in Nat /\ Len(ctrl_file) \in Nat /\ ctrl_file \in Seq(Range(ctrl_file))
      /\ \A i \in 1 .. Len(ctrl_file) : CellOK(ctrl_file[i])
  BY <1>2, SeqIsFunction DEF IInv, CtrlOK
<1>5. SavedOK'
  BY <1>1 DEF SavedOK
<1>6. CASE Fails("write") /\ pc' = "release" /\ UNCHANGED <<ctrl_file, pos, n, unnoticed>>
  <2>1. TypeOK'
    BY <1>1, <1>2, <1>6, LifeCycleAssumption DEF IInv, TypeOK, Fails
  <2>2. CtrlOK'
    BY <1>6 DEF IInv, CtrlOK, CellOK
  <2>. QED
    BY <1>5, <1>6, <2>1, <2>2 DEF IInv, DiskOK, SaveOK, LoadOK, LoadRestores
<1>7. ASSUME NEW k \in 0 .. Len(cells),
             \/ k = Len(cells) /\ Works /\ UNCHANGED unnoticed
             \/ k < Len(cells) /\ Fails("short") /\ unnoticed' = TRUE,
             ctrl_file' = Overwrite(ctrl_file, pos, SubSeq(cells, 1, k)),
             pos' = pos + k, n' = n + 1, pc' = pc
      PROVE  IInv'
  <2>. DEFINE written == SubSeq(cells, 1, k)
  <2>1. TypeOK'
    <3>1. pos' \in Nat /\ n' \in 1 .. Len(Layout) + 1
      BY <1>1, <1>4, <1>7
    <3>2. faults' \in 0 .. MAX_FAULTS /\ unnoticed' \in BOOLEAN
      <4>1. faults' \in 0 .. MAX_FAULTS
        BY <1>7, LifeCycleAssumption DEF IInv, TypeOK, Works, Fails
      <4>2. unnoticed' = unnoticed \/ unnoticed' = TRUE
        BY <1>7
      <4>. QED
        BY <4>1, <4>2 DEF IInv, TypeOK
    <3>. QED
      BY <1>1, <1>2, <1>7, <3>1, <3>2 DEF IInv, TypeOK
  <2>2. /\ written \in Seq(Range(written)) /\ Len(written) = k
        /\ \A i \in 1 .. k : written[i] = cells[i]
    <3>. DEFINE T == Range(cells)
    <3>1. cells \in Seq(T) /\ k \in Nat /\ 0 \in Nat /\ 0 + k <= Len(cells) /\ 0 + 1 = 1 /\ 0 + k = k
      BY <1>2, <1>4, <1>7
    <3>. HIDE DEF T
    <3>2. written \in Seq(T) /\ Len(written) = k /\ \A i \in 1 .. k : written[i] = cells[0 + i]
      BY <3>1, ManyElements
    <3>3. \A i \in 1 .. k : 0 + i = i
      OBVIOUS
    <3>. HIDE DEF written
    <3>. QED
      BY <3>2, <3>3, SeqOfRange
  <2>3. Overwritten(ctrl_file', ctrl_file, pos, written)
    <3>. HIDE DEF written
    <3>. QED
      BY <1>1, <1>4, <1>7, <2>2, OverwriteFacts DEF written
  <2>. HIDE DEF written
  <2>4. CtrlOK'
    <3>1. ctrl_file' \in Seq(Range(ctrl_file'))
      BY <2>3 DEF Overwritten
    <3>2. ASSUME NEW i \in 1 .. Len(ctrl_file')
          PROVE  CellOK(ctrl_file'[i])
      <4>1. \A j \in 1 .. k : j \in 1 .. Len(cells)
        BY <1>4, <1>7
      <4>. QED
        BY <1>2, <1>4, <2>2, <2>3, <4>1 DEF Overwritten
    <3>. QED
      BY <3>1, <3>2 DEF CtrlOK, CellOK
  <2>5. ~unnoticed' => Laid(Context, ctrl_file', n + 1, pos + k)
    <3>1. SUFFICES ASSUME ~unnoticed' PROVE Laid(Context, ctrl_file', n + 1, pos + k)
      OBVIOUS
    <3>2. k = Len(cells) /\ ~unnoticed
      BY <1>7, <3>1
    <3>3. ctrl_file' = Overwrite(ctrl_file, pos, cells)
      BY <1>2, <1>7, <3>2, WholePiece
    <3>. DEFINE c == Context
    <3>4. VectOK(c.vect)
      BY <1>1 DEF Context
    <3>. HIDE DEF c
    <3>5. Laid(c, ctrl_file, n, pos) /\ Len(cells) = Size(c, Layout[n])
          /\ \A i \in 1 .. Len(cells) : cells[i] = CellOf(c, Layout[n], i)
      BY <1>1, <1>2, <3>2 DEF c
    <3>6. Laid(c, ctrl_file', n + 1, pos + Len(cells))
      BY <1>1, <1>2, <1>4, <3>3, <3>4, <3>5, LaidExtended
    <3>. QED
      BY <3>2, <3>6 DEF c
  <2>6. SaveOK'
    <3>1. Context' = Context
      BY <1>1 DEF Context
    <3>2. pos' <= Len(ctrl_file')
      BY <1>7, <2>2, <2>3 DEF Overwritten
    <3>. QED
      BY <1>7, <2>5, <3>1, <3>2 DEF SaveOK
  <2>7. DiskOK'
    BY <1>1, <1>7 DEF DiskOK
  <2>. QED
    BY <1>1, <1>5, <1>7, <2>1, <2>4, <2>6, <2>7 DEF IInv, LoadOK, LoadRestores
<1>. QED
  BY <1>3, <1>6, <1>7

LEMMA SavedKeeps ==
  ASSUME IInv, Saved
  PROVE  IInv'
<1>1. /\ UNCHANGED <<memory, files, local, ret, save, unnoticed, faults>>
      /\ saved' = (IF unnoticed THEN Junk ELSE Context) /\ pc' = "release"
      /\ n = Len(Layout) + 1 /\ disk_file = data
      /\ ~unnoticed => Laid(Context, ctrl_file, n, pos)
      /\ pos \in Nat /\ BodyOK(body) /\ VectOK(vect)
  BY LayoutFacts DEF IInv, TypeOK, DiskOK, SaveOK, Saved
<1>2. TypeOK'
  BY <1>1 DEF IInv, TypeOK, memory, files, local
<1>3. CtrlOK'
  BY <1>1 DEF IInv, CtrlOK, CellOK, files
<1>4. SavedOK'
  <2>1. Context = [data |-> Context.data, body |-> Context.body, vect |-> Context.vect]
        /\ Context.data = data /\ Context.body = body /\ Context.vect = vect
    BY DEF Context
  <2>2. ctrl_file' = ctrl_file /\ disk_file' = disk_file
    BY <1>1 DEF files
  <2>. QED
    BY <1>1, <2>1, <2>2 DEF SavedOK
<1>. QED
  BY <1>1, <1>2, <1>3, <1>4 DEF IInv, DiskOK, SaveOK, LoadOK, LoadRestores

LEMMA StutterKeeps ==
  ASSUME IInv, UNCHANGED vars
  PROVE  IInv'
<1>1. SavedOK' /\ CtrlOK'
  BY FilesKept DEF IInv, vars
<1>2. TypeOK' /\ DiskOK' /\ LoadRestores' /\ SaveOK'
  BY DEF vars, memory, files, local, IInv, TypeOK, DiskOK, InStep, Agree, LoadRestores, Context, SaveOK
<1>3. LoadOK'
  BY DEF vars, memory, files, local, IInv, LoadOK, ReadSoFar
<1>. QED
  BY <1>1, <1>2, <1>3 DEF IInv

LEMMA NextKeepsIInv == IInv /\ [Next]_vars => IInv'
<1>. SUFFICES ASSUME IInv, [Next]_vars PROVE IInv'
  OBVIOUS
<1>1. CASE \E sector, nsect \in 0 .. (TOTAL_SMR_BLOCKS_CNT + 1) * KERN_SECTS_PER_HARD_SECT : do_request(sector, nsect)
  BY <1>1, RequestKeeps
<1>2. CASE UNCHANGED vars
  BY <1>2, StutterKeeps
<1>. QED
  BY <1>1, <1>2, InsmodKeeps, LoadOpenKeeps, LoadBlockKeeps, LoadedDiskKeeps, LoadCtrlKeeps, LoadedKeeps,
     InitSmrDiskKeeps, PowerOnKeeps, RmmodKeeps, SaveOpenKeeps, SaveBlockKeeps, SavedDiskKeeps, SaveCtrlKeeps,
     SavedKeeps, ReleaseKeeps DEF Next

LEMMA AlwaysIInv == Spec => []IInv
<1>1. Init => IInv
  BY InitIInv
<1>2. IInv /\ [Next]_vars => IInv'
  BY NextKeepsIInv
<1>. QED
  BY <1>1, <1>2, PTL DEF Spec

----------------------------------------------------------------------------
(* Memory and files hold what they should, whatever calls fail or end      *)
(* early when, for disks of any size and vectors of any number and length: *)
(* no turn of the loops over the image (mem_disk.c:395, 417) makes the     *)
(* image longer than the disk, or what is in memory.                       *)
THEOREM MemDiskTypeOK == Spec => []TypeOK
<1>1. IInv => TypeOK
  BY DEF IInv
<1>. QED
  BY <1>1, AlwaysIInv, PTL

(* A load that reports success and was told of all its control data        *)
(* restores the last complete save (mem_disk.c:463-550): the offsets at    *)
(* which load_smr_ctrl reads are those at which save_smr_ctrl wrote, over  *)
(* files of any length, and no image got through with a transfer missing.  *)
THEOREM LoadRestoresSave == Spec => []LoadRestores
<1>1. IInv => LoadRestores
  BY DEF IInv
<1>. QED
  BY <1>1, AlwaysIInv, PTL

(* An image is accepted only if pos and rw_ptr went over it in step, and   *)
(* the loops run behind data only if they did not (mem_disk.c:395-397,     *)
(* 417-419): for blocks and disks of any size, and any number of transfers *)
(* cut short anywhere.                                                     *)
THEOREM ImageKeptInStep == Spec => []ImageInStep
<1>1. IInv => ImageInStep
  BY DEF IInv, DiskOK, ImageInStep
<1>. QED
  BY <1>1, AlwaysIInv, PTL

============================================================================
