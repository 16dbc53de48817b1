--------------------------- MODULE ReadExt2Proofs ---------------------------
(***************************************************************************)
(* The reader of files reads what its wide pointers make of the range it   *)
(* is asked for, up to where they lead nowhere, whatever the sizes of a    *)
(* block and of an inode are; and the walk lists the tree, whatever its    *)
(* depth, as far as it gets.                                               *)
(***************************************************************************)
EXTENDS ReadExt2, TLAPS

(* The file block that an activation is at, counted from the first that    *)
(* its pointer block, or the inode, leads to.                              *)
At(c) == c.ptr * Unit(c.level) + c.offset

LeafAt(inode, level, blk, x) ==
  IF level = 0 THEN inode.i_block[x]
  ELSE IF level = 1 THEN Leaf1(Wide, blk, x)
  ELSE IF level = 2 THEN Leaf2(Wide, blk, x) ELSE Leaf3(Wide, blk, x)
OnDiskAt(inode, level, blk, x) ==
  IF level = 0 THEN inode.i_block[x] \in DOMAIN Disk
  ELSE IF level = 1 THEN OnDisk1(Wide, blk, x)
  ELSE IF level = 2 THEN OnDisk2(Wide, blk, x) ELSE OnDisk3(Wide, blk, x)

(* The blocks that a reader of a level can get at.                         *)
Room(level) == IF level = 0 THEN EXT2_NDIR_BLOCKS ELSE Span(level)

----------------------------------------------------------------------------
(* Sizes.                                                                  *)

LEMMA Products ==
  ASSUME NEW N \in Nat \ {0}
  PROVE  N * N \in Nat \ {0} /\ N * N * N \in Nat \ {0} /\ N * N * N = N * (N * N)
  OBVIOUS

LEMMA Sizes ==
  /\ Unit(0) = 1 /\ Unit(1) = 1 /\ Unit(2) = Span(1) /\ Unit(3) = Span(2)
  /\ Span(1) = BLK_NUM_PER_BLK
  /\ Span(1) \in Nat \ {0} /\ Span(2) \in Nat \ {0} /\ Span(3) \in Nat \ {0}
  /\ Span(2) = BLK_NUM_PER_BLK * Span(1) /\ Span(3) = BLK_NUM_PER_BLK * Span(2)
  /\ pos[1] = EXT2_NDIR_BLOCKS /\ pos[2] = pos[1] + Span(1)
  /\ pos[3] = pos[2] + Span(2) /\ pos[4] = pos[3] + Span(3)
  /\ pos[1] \in Nat \ {0} /\ pos[2] \in Nat /\ pos[3] \in Nat /\ pos[4] \in Nat
  BY ReaderAssumption, Products DEF Unit, Span, pos

LEMMA UnitIsNat ==
  ASSUME NEW l \in 0 .. 3
  PROVE  Unit(l) \in Nat \ {0}
<1>1. l = 0 \/ l = 1 \/ l = 2 \/ l = 3
  OBVIOUS
<1> QED BY <1>1, Sizes

(* The numbers of one unit: p whole ones and a part of the next.           *)
LEMMA InUnit ==
  ASSUME NEW U \in Nat \ {0}, NEW p \in Nat, NEW x \in 0 .. U - 1
  PROVE  (p * U + x) \div U = p /\ (p * U + x) % U = x
<1> DEFINE z == p * U + x
           q == z \div U
           m == z % U
<1>1. p * U \in Nat
  OBVIOUS
<1>2. z \in Nat
  BY <1>1
<1>3. q \in Int /\ m \in 0 .. U - 1 /\ z = U * q + m
  BY <1>2
<1>4. q = p
  <2>1. CASE q <= p - 1
    <3>1. U * q <= U * (p - 1)
      BY <1>3, <2>1
    <3>2. U * (p - 1) = p * U - U
      OBVIOUS
    <3> QED BY <1>1, <1>2, <1>3, <3>1, <3>2
  <2>2. CASE q >= p + 1
    <3>1. U * q >= U * (p + 1)
      BY <1>3, <2>2
    <3>2. U * (p + 1) = p * U + U
      OBVIOUS
    <3> QED BY <1>1, <1>2, <1>3, <3>1, <3>2
  <2> QED BY <1>3, <2>1, <2>2
<1>5. U * q = p * U
  BY <1>4
<1> HIDE DEF z, q, m
<1>6. m = x
  BY <1>1, <1>3, <1>5 DEF z
<1> QED BY <1>4, <1>6 DEF z, q, m

LEMMA WhichUnit ==
  ASSUME NEW U \in Nat \ {0}, NEW k \in Nat, NEW x \in Nat, x < k * U
  PROVE  /\ x \div U \in 0 .. k - 1 /\ x % U \in 0 .. U - 1
         /\ (x \div U) * U + (x % U) = x
<1> DEFINE q == x \div U
           m == x % U
<1>1. q \in Int /\ m \in 0 .. U - 1 /\ x = U * q + m
  OBVIOUS
<1>2. q >= 0
  <2>1. CASE q <= -1
    <3>1. U * q <= -U
      BY <1>1, <2>1
    <3> QED BY <1>1, <3>1
  <2> QED BY <1>1, <2>1
<1>3. q <= k - 1
  <2>1. CASE q >= k
    <3>1. U * q >= U * k
      BY <1>1, <2>1
    <3> QED BY <1>1, <3>1
  <2> QED BY <1>1, <2>1
<1>4. U * q = q * U
  BY <1>1
<1> QED BY <1>1, <1>2, <1>3, <1>4

----------------------------------------------------------------------------
(* Activations.                                                            *)

(* What a reader of level 2 or 3 finds behind a pointer is what the reader *)
(* of the level below finds there.                                         *)
SameBelow(inode, level, blk, p, y) ==
  /\ LeafAt(inode, level, blk, p * Unit(level) + y) = LeafAt(inode, level - 1, Wide[blk][p], y)
  /\ OnDiskAt(inode, level, blk, p * Unit(level) + y)
       <=> blk \in DOMAIN Disk /\ OnDiskAt(inode, level - 1, Wide[blk][p], y)

LEMMA LeafBelow ==
  ASSUME NEW inode, NEW level \in {2, 3}, NEW blk, NEW p \in Nat, NEW y \in 0 .. Unit(level) - 1
  PROVE  SameBelow(inode, level, blk, p, y)
<1>1. Unit(level) \in Nat \ {0}
  BY UnitIsNat
<1> DEFINE x == p * Unit(level) + y
<1>2. x \div Unit(level) = p /\ x % Unit(level) = y
  BY <1>1, InUnit
<1> HIDE DEF x
<1>3. CASE level = 2
  <2>1. x \div Span(1) = p /\ x % Span(1) = y
    BY <1>2, <1>3, Sizes
  <2> QED BY <1>3, <2>1 DEF SameBelow, LeafAt, OnDiskAt, Leaf2, OnDisk2, x
<1>4. CASE level = 3
  <2>1. x \div Span(2) = p /\ x % Span(2) = y
    BY <1>2, <1>4, Sizes
  <2> QED BY <1>4, <2>1 DEF SameBelow, LeafAt, OnDiskAt, Leaf3, OnDisk3, x
<1> QED BY <1>3, <1>4

ActRec == [level : 0 .. 3, blk : DOMAIN Disk, ptr : Nat, offset : Nat, n : Nat]

(* The numbers of an activation are in order.                              *)
InBlock(c) ==
  /\ c.ptr <= (IF c.level = 0 THEN EXT2_NDIR_BLOCKS ELSE BLK_NUM_PER_BLK) - 1
  /\ c.offset <= Unit(c.level) - 1
  /\ c.n >= 1
  /\ At(c) + c.n <= Room(c.level)

LEMMA RoomIsUnits ==
  ASSUME NEW l \in 0 .. 3
  PROVE  /\ Room(l) = (IF l = 0 THEN EXT2_NDIR_BLOCKS ELSE BLK_NUM_PER_BLK) * Unit(l)
         /\ l >= 2 => Unit(l) = Room(l - 1)
<1>1. l = 0 \/ l = 1 \/ l = 2 \/ l = 3
  OBVIOUS
<1>2. BLK_NUM_PER_BLK * 1 = BLK_NUM_PER_BLK /\ EXT2_NDIR_BLOCKS * 1 = EXT2_NDIR_BLOCKS
  BY ReaderAssumption
<1>3. CASE l = 0
  BY <1>2, <1>3, Sizes DEF Room
<1>4. CASE l = 1
  BY <1>2, <1>4, Sizes DEF Room
<1>5. CASE l = 2
  BY <1>5, Sizes DEF Room
<1>6. CASE l = 3
  BY <1>6, Sizes DEF Room
<1> QED BY <1>1, <1>3, <1>4, <1>5, <1>6

LEMMA InBlockMeans ==
  ASSUME NEW c \in ActRec
  PROVE  InBlock(c) <=>
           LET pointers == IF c.level = 0 THEN EXT2_NDIR_BLOCKS ELSE BLK_NUM_PER_BLK
           IN  /\ c.ptr \in 0 .. pointers - 1
               /\ c.offset \in 0 .. Unit(c.level) - 1
               /\ c.n \in 1 .. (pointers - c.ptr) * Unit(c.level) - c.offset
<1> DEFINE P == IF c.level = 0 THEN EXT2_NDIR_BLOCKS ELSE BLK_NUM_PER_BLK
           U == Unit(c.level)
<1>1. c.level \in 0 .. 3 /\ c.ptr \in Nat /\ c.offset \in Nat /\ c.n \in Nat
  BY DEF ActRec
<1>2. P \in Nat /\ U \in Nat
  BY <1>1, UnitIsNat, ReaderAssumption
<1>3. Room(c.level) = P * U
  BY <1>1, RoomIsUnits
<1> HIDE DEF P, U
<1>4. (P - c.ptr) * U = P * U - c.ptr * U /\ P * U \in Nat /\ c.ptr * U \in Nat
  BY <1>1, <1>2
<1>5. InBlock(c) <=> /\ c.ptr <= P - 1 /\ c.offset <= U - 1 /\ c.n >= 1
                     /\ c.ptr * U + c.offset + c.n <= P * U
  BY <1>3 DEF InBlock, At, P, U
<1>6. InBlock(c) <=> /\ c.ptr \in 0 .. P - 1 /\ c.offset \in 0 .. U - 1
                     /\ c.n \in 1 .. (P - c.ptr) * U - c.offset
  BY <1>1, <1>2, <1>4, <1>5
<1> QED BY <1>6 DEF P, U

(* A reader starts at the pointer that leads to the first block wanted.    *)
LEMMA EnterIsAt ==
  ASSUME NEW level \in 0 .. 3, NEW blk \in DOMAIN Disk,
         NEW from \in Nat, NEW n \in Nat \ {0}, from + n <= Room(level)
  PROVE  LET c == Enter(level, blk, from, n)
         IN  /\ c \in ActRec /\ InBlock(c) /\ At(c) = from
             /\ c.level = level /\ c.blk = blk /\ c.n = n
<1> DEFINE P == IF level = 0 THEN EXT2_NDIR_BLOCKS ELSE BLK_NUM_PER_BLK
           U == Unit(level)
           c == Enter(level, blk, from, n)
<1>1. P \in Nat /\ U \in Nat \ {0} /\ Room(level) = P * U
  BY UnitIsNat, ReaderAssumption, RoomIsUnits
<1>2. P * U \in Nat /\ from < P * U
  BY <1>1
<1>3. /\ from \div U \in 0 .. P - 1 /\ from % U \in 0 .. U - 1
      /\ (from \div U) * U + (from % U) = from
  BY <1>1, <1>2, WhichUnit
<1>4. /\ c.level = level /\ c.blk = blk /\ c.n = n
      /\ c.ptr = from \div U /\ c.offset = from % U
  BY DEF Enter
<1>5. c \in ActRec
  BY <1>1, <1>3 DEF ActRec, Enter
<1>6. At(c) = from
  BY <1>3, <1>4 DEF At
<1>7. InBlock(c)
  BY <1>1, <1>3, <1>4, <1>6 DEF InBlock
<1> QED BY <1>4, <1>5, <1>6, <1>7

(* The rest of an activation behind the pointer that it is at.             *)
Past(c) == [c EXCEPT !.ptr = @ + 1, !.offset = 0, !.n = @ - Count(c)]

LEMMA PastIsAt ==
  ASSUME NEW c \in ActRec, InBlock(c), c.n > Count(c)
  PROVE  /\ Past(c) \in ActRec /\ InBlock(Past(c))
         /\ Past(c).level = c.level /\ Past(c).blk = c.blk
         /\ Past(c).n = c.n - Count(c) /\ At(Past(c)) = At(c) + Count(c)
         /\ Count(c) \in Nat \ {0}
<1> DEFINE P == IF c.level = 0 THEN EXT2_NDIR_BLOCKS ELSE BLK_NUM_PER_BLK
           U == Unit(c.level)
<1>1. c.level \in 0 .. 3 /\ c.ptr \in Nat /\ c.offset \in Nat /\ c.n \in Nat
  BY DEF ActRec
<1>2. P \in Nat /\ U \in Nat \ {0} /\ Room(c.level) = P * U
  BY <1>1, UnitIsNat, ReaderAssumption, RoomIsUnits
<1>3. c.offset <= U - 1 /\ c.ptr * U + c.offset + c.n <= P * U /\ Count(c) = U - c.offset
  BY <1>2 DEF InBlock, At, Count
<1>4. /\ Past(c).level = c.level /\ Past(c).blk = c.blk /\ Past(c).ptr = c.ptr + 1
      /\ Past(c).offset = 0 /\ Past(c).n = c.n - Count(c)
  BY DEF Past, ActRec
<1>5. At(Past(c)) = (c.ptr + 1) * U + 0
  BY <1>4 DEF At
<1> HIDE DEF P, U
<1>6. c.ptr * U \in Nat /\ P * U \in Nat /\ (c.ptr + 1) * U = c.ptr * U + U
  BY <1>1, <1>2
<1>7. Count(c) \in Nat \ {0} /\ c.n - Count(c) \in Nat \ {0}
  BY <1>1, <1>2, <1>3
<1>8. At(Past(c)) = At(c) + Count(c)
  <2>1. At(c) = c.ptr * U + c.offset
    BY DEF At, U
  <2> QED BY <1>1, <1>2, <1>3, <1>5, <1>6, <2>1
<1>9. Past(c) \in ActRec
  <2>1. Past(c) = [level |-> c.level, blk |-> c.blk, ptr |-> c.ptr + 1, offset |-> 0,
                   n |-> c.n - Count(c)]
    <3> DEFINE m == c.n - Count(c)
               d == Past(c)
    <3>1. d = [c EXCEPT !.ptr = c.ptr + 1, !.offset = 0, !.n = m]
      BY DEF Past
    <3>2. c = [level |-> c.level, blk |-> c.blk, ptr |-> c.ptr, offset |-> c.offset, n |-> c.n]
      BY DEF ActRec
    <3> HIDE DEF m, d
    <3>3. d = [level |-> c.level, blk |-> c.blk, ptr |-> c.ptr + 1, offset |-> 0, n |-> m]
      BY <3>1, <3>2
    <3> QED BY <3>3 DEF m, d
  <2> QED BY <1>1, <1>7, <2>1 DEF ActRec
<1>10. c.ptr + 1 <= P - 1
  <2>1. (c.ptr + 1) * U < P * U
    BY <1>1, <1>2, <1>3, <1>6
  <2>2. CASE c.ptr + 1 >= P
    <3>1. (c.ptr + 1) * U >= P * U
      BY <1>1, <1>2, <2>2
    <3> QED BY <1>1, <1>2, <1>6, <2>1, <3>1
  <2> QED BY <1>1, <1>2, <2>2
<1>11. InBlock(Past(c))
  <2>1. At(Past(c)) + Past(c).n <= Room(c.level)
    BY <1>1, <1>2, <1>3, <1>4, <1>5, <1>6, <1>7
  <2>2. /\ Past(c).ptr <= P - 1 /\ Past(c).offset <= U - 1 /\ Past(c).n >= 1
    BY <1>2, <1>4, <1>7, <1>10
  <2> QED BY <1>4, <2>1, <2>2 DEF InBlock, P, U
<1> QED BY <1>4, <1>7, <1>8, <1>9, <1>11

----------------------------------------------------------------------------
(* What activations have to read.                                          *)

(* Activation c gets to the blocks a, a + 1, ... of the file where the     *)
(* wide pointers lead to them, and nowhere where they do not.              *)
Covers(inode, c, a) ==
  \A x \in 0 .. c.n - 1 :
    /\ LeafAt(inode, c.level, c.blk, At(c) + x) = FileBlock(Wide, inode, a + x)
    /\ OnDiskAt(inode, c.level, c.blk, At(c) + x) <=> FileBlockOnDisk(Wide, inode, a + x)
Good(inode, c, a) == c \in ActRec /\ InBlock(c) /\ Covers(inode, c, a)

LEMMA AtIsNat ==
  ASSUME NEW c \in ActRec
  PROVE  /\ At(c) \in Nat /\ c.level \in 0 .. 3 /\ c.ptr \in Nat /\ c.offset \in Nat /\ c.n \in Nat
         /\ At(c) = c.ptr * Unit(c.level) + c.offset
         /\ c.blk \in DOMAIN Disk
         /\ Unit(c.level) \in Nat \ {0}
<1>1. c.level \in 0 .. 3 /\ c.ptr \in Nat /\ c.offset \in Nat /\ c.n \in Nat
      /\ c.blk \in DOMAIN Disk
  BY DEF ActRec
<1>2. Unit(c.level) \in Nat \ {0}
  BY <1>1, UnitIsNat
<1> QED BY <1>1, <1>2 DEF At

(* A reader of level 0 or 1 reads the next block of the file.              *)
LEMMA GoodReads ==
  ASSUME NEW c, NEW a \in Nat, Good(ip, c, a), c.level < 2
  PROVE  /\ Pointer(c) = FileBlock(Wide, ip, a)
         /\ Pointer(c) \in DOMAIN Disk <=> FileBlockOnDisk(Wide, ip, a)
         /\ Count(c) = 1
<1>1. c \in ActRec /\ InBlock(c) /\ Covers(ip, c, a)
  BY DEF Good
<1>2. c.level \in {0, 1} /\ c.ptr \in Nat /\ c.offset \in Nat /\ c.n \in Nat /\ c.n >= 1
      /\ c.blk \in DOMAIN Disk
  BY <1>1, AtIsNat DEF InBlock
<1>3. Unit(c.level) = 1
  BY <1>2, Sizes
<1>4. c.offset = 0 /\ Count(c) = 1 /\ At(c) = c.ptr
  BY <1>1, <1>2, <1>3 DEF InBlock, Count, At
<1>5. /\ LeafAt(ip, c.level, c.blk, At(c) + 0) = FileBlock(Wide, ip, a + 0)
      /\ OnDiskAt(ip, c.level, c.blk, At(c) + 0) <=> FileBlockOnDisk(Wide, ip, a + 0)
  BY <1>1, <1>2 DEF Covers
<1>6. /\ LeafAt(ip, c.level, c.blk, c.ptr) = FileBlock(Wide, ip, a)
      /\ OnDiskAt(ip, c.level, c.blk, c.ptr) <=> FileBlockOnDisk(Wide, ip, a)
  BY <1>2, <1>4, <1>5
<1>7. LeafAt(ip, c.level, c.blk, c.ptr) = Pointer(c)
  BY <1>2 DEF LeafAt, Pointer, Leaf1
<1>8. OnDiskAt(ip, c.level, c.blk, c.ptr) <=> Pointer(c) \in DOMAIN Disk
  BY <1>2 DEF OnDiskAt, Pointer, OnDisk1
<1> QED BY <1>4, <1>6, <1>7, <1>8

LEMMA GoodPast ==
  ASSUME NEW inode, NEW c, NEW a \in Nat, Good(inode, c, a), c.n > Count(c)
  PROVE  /\ Good(inode, Past(c), a + Count(c))
         /\ Past(c).n = c.n - Count(c) /\ Past(c).level = c.level
         /\ Count(c) \in Nat \ {0}
<1>1. c \in ActRec /\ InBlock(c) /\ Covers(inode, c, a)
  BY DEF Good
<1> DEFINE d == Past(c)
           w == Count(c)
<1>2. /\ d \in ActRec /\ InBlock(d) /\ d.level = c.level /\ d.blk = c.blk
      /\ d.n = c.n - w /\ At(d) = At(c) + w /\ w \in Nat \ {0}
  BY <1>1, PastIsAt
<1>3. At(c) \in Nat /\ c.n \in Nat
  BY <1>1, AtIsNat
<1> HIDE DEF d, w
<1>4. Covers(inode, d, a + w)
  <2>1. SUFFICES ASSUME NEW x \in 0 .. d.n - 1
                 PROVE  /\ LeafAt(inode, d.level, d.blk, At(d) + x) = FileBlock(Wide, inode, a + w + x)
                        /\ OnDiskAt(inode, d.level, d.blk, At(d) + x)
                             <=> FileBlockOnDisk(Wide, inode, a + w + x)
    BY DEF Covers
  <2>2. w + x \in 0 .. c.n - 1
    BY <1>2, <1>3
  <2>3. At(d) + x = At(c) + (w + x) /\ a + w + x = a + (w + x)
    BY <1>2, <1>3
  <2>4. /\ LeafAt(inode, c.level, c.blk, At(c) + (w + x)) = FileBlock(Wide, inode, a + (w + x))
        /\ OnDiskAt(inode, c.level, c.blk, At(c) + (w + x))
             <=> FileBlockOnDisk(Wide, inode, a + (w + x))
    BY <1>1, <2>2 DEF Covers
  <2> QED BY <1>2, <2>3, <2>4
<1> QED BY <1>2, <1>4 DEF Good, d, w

(* A reader of level 2 or 3 has the level below read what it would.        *)
Below(c) == Enter(c.level - 1, Pointer(c), c.offset, Least(c.n, Count(c)))

(* The block behind the pointer that such a reader is at leads to what the *)
(* reader has to read next.                                                *)
LEMMA BlockBelow ==
  ASSUME NEW inode, NEW c, NEW a \in Nat, Good(inode, c, a), c.level >= 2,
         NEW x \in 0 .. Least(c.n, Count(c)) - 1
  PROVE  /\ LeafAt(inode, c.level - 1, Pointer(c), c.offset + x) = FileBlock(Wide, inode, a + x)
         /\ OnDiskAt(inode, c.level - 1, Pointer(c), c.offset + x)
              <=> FileBlockOnDisk(Wide, inode, a + x)
<1>1. c \in ActRec /\ InBlock(c) /\ Covers(inode, c, a)
  BY DEF Good
<1>2. c.level \in {2, 3} /\ c.ptr \in Nat /\ c.offset \in Nat /\ c.n \in Nat /\ c.n >= 1
      /\ c.blk \in DOMAIN Disk
  BY <1>1, AtIsNat DEF InBlock
<1> DEFINE U == Unit(c.level)
           b == Pointer(c)
           y == c.offset + x
<1>3. U \in Nat \ {0} /\ c.offset <= U - 1 /\ Count(c) = U - c.offset
  BY <1>1, <1>2, AtIsNat DEF InBlock, Count
<1>4. b = Wide[c.blk][c.ptr]
  BY <1>2 DEF Pointer
<1>5. y \in 0 .. Unit(c.level) - 1 /\ x \in 0 .. c.n - 1
  BY <1>2, <1>3 DEF Least
<1>6. At(c) + x = c.ptr * Unit(c.level) + y
  BY <1>1, <1>2, <1>5, AtIsNat DEF At
<1>7. /\ LeafAt(inode, c.level, c.blk, At(c) + x) = FileBlock(Wide, inode, a + x)
      /\ OnDiskAt(inode, c.level, c.blk, At(c) + x) <=> FileBlockOnDisk(Wide, inode, a + x)
  BY <1>1, <1>5 DEF Covers
<1> HIDE DEF y, b
<1>8. SameBelow(inode, c.level, c.blk, c.ptr, y)
  BY <1>2, <1>5, LeafBelow
<1>9. /\ LeafAt(inode, c.level - 1, b, y) = FileBlock(Wide, inode, a + x)
      /\ OnDiskAt(inode, c.level - 1, b, y) <=> FileBlockOnDisk(Wide, inode, a + x)
  BY <1>2, <1>4, <1>6, <1>7, <1>8 DEF SameBelow
<1> QED BY <1>9 DEF y, b

LEMMA GoodBelow ==
  ASSUME NEW inode, NEW c, NEW a \in Nat, Good(inode, c, a), c.level >= 2,
         Pointer(c) \in DOMAIN Disk
  PROVE  /\ Good(inode, Below(c), a)
         /\ Below(c).n = Least(c.n, Count(c)) /\ Below(c).level = c.level - 1
<1>1. c \in ActRec /\ InBlock(c)
  BY DEF Good
<1>2. c.level \in {2, 3} /\ c.ptr \in Nat /\ c.offset \in Nat /\ c.n \in Nat /\ c.n >= 1
  BY <1>1, AtIsNat DEF InBlock
<1> DEFINE U == Unit(c.level)
           m == Least(c.n, Count(c))
           b == Pointer(c)
<1>3. U \in Nat \ {0} /\ c.offset <= U - 1 /\ Count(c) = U - c.offset /\ U = Room(c.level - 1)
  BY <1>1, <1>2, AtIsNat, RoomIsUnits DEF InBlock, Count
<1>4. m \in Nat \ {0} /\ m <= c.n /\ c.offset + m <= U
  BY <1>2, <1>3 DEF Least
<1>5. \A x \in 0 .. m - 1 :
        /\ LeafAt(inode, c.level - 1, b, c.offset + x) = FileBlock(Wide, inode, a + x)
        /\ OnDiskAt(inode, c.level - 1, b, c.offset + x) <=> FileBlockOnDisk(Wide, inode, a + x)
  BY BlockBelow
<1> DEFINE d == Enter(c.level - 1, b, c.offset, m)
<1> HIDE DEF U, m, b
<1>6. b \in DOMAIN Disk
  BY DEF b
<1>7. /\ d \in ActRec /\ InBlock(d) /\ At(d) = c.offset
      /\ d.level = c.level - 1 /\ d.blk = b /\ d.n = m
  BY <1>2, <1>3, <1>4, <1>6, EnterIsAt
<1> HIDE DEF d
<1>8. Covers(inode, d, a)
  BY <1>5, <1>7 DEF Covers
<1>9. Good(inode, d, a) /\ d.n = m /\ d.level = c.level - 1
  BY <1>7, <1>8 DEF Good
<1> QED BY <1>9 DEF d, m, b, Below

(* Where the pointer that a reader is at leads nowhere, neither does the   *)
(* way to the next block of the file.                                      *)
LEMMA FaultIsLost ==
  ASSUME NEW c, NEW a \in Nat, Good(ip, c, a), Pointer(c) \notin DOMAIN Disk
  PROVE  ~FileBlockOnDisk(Wide, ip, a)
<1>1. c \in ActRec /\ InBlock(c)
  BY DEF Good
<1>2. c.level \in 0 .. 3 /\ c.offset \in Nat /\ c.n \in Nat /\ c.n >= 1
  BY <1>1, AtIsNat DEF InBlock
<1>3. CASE c.level < 2
  BY <1>3, GoodReads
<1>4. CASE c.level >= 2
  <2>1. Unit(c.level) \in Nat /\ c.offset <= Unit(c.level) - 1
    BY <1>1, AtIsNat DEF InBlock
  <2>2. 0 \in 0 .. Least(c.n, Count(c)) - 1
    BY <1>2, <2>1 DEF Least, Count
  <2>3. OnDiskAt(ip, c.level - 1, Pointer(c), c.offset + 0) <=> FileBlockOnDisk(Wide, ip, a + 0)
    BY <1>4, <2>2, BlockBelow
  <2>4. c.level = 2 \/ c.level = 3
    BY <1>2, <1>4
  <2>5. ~OnDiskAt(ip, c.level - 1, Pointer(c), c.offset + 0)
    BY <2>4 DEF OnDiskAt, OnDisk1, OnDisk2
  <2> QED BY <2>3, <2>5
<1> QED BY <1>2, <1>3, <1>4

----------------------------------------------------------------------------
(* The stack of activations: each goes on where the one below it has ended *)
(* with the blocks a to b - 1 of the file.                                 *)
ChainAt(inode, s, at, a, b) ==
  /\ at \in [1 .. Len(s) + 1 -> Nat]
  /\ at[1] = a /\ at[Len(s) + 1] = b
  /\ \A k \in 1 .. Len(s) + 1 : at[k] <= b
  /\ \A k \in 1 .. Len(s) : Good(inode, s[k], at[k]) /\ at[k + 1] = at[k] + s[k].n
  /\ \A k \in 2 .. Len(s) : s[k].level >= 2
Chain(inode, s, a, b) ==
  /\ s \in Seq(ActRec)
  /\ \E at \in [1 .. Len(s) + 1 -> Nat] : ChainAt(inode, s, at, a, b)

LEMMA EmptyChain ==
  ASSUME NEW inode, NEW a \in Nat
  PROVE  Chain(inode, <<>>, a, a)
<1> DEFINE at == [k \in 1 .. 1 |-> a]
<1>1. at \in [1 .. Len(<<>>) + 1 -> Nat]
  OBVIOUS
<1>2. ChainAt(inode, <<>>, at, a, a)
  BY <1>1 DEF ChainAt
<1> QED BY <1>1, <1>2 DEF Chain

LEMMA ChainEnds ==
  ASSUME NEW inode, NEW a, NEW b, NEW s, Chain(inode, s, a, b)
  PROVE  a \in Nat /\ b \in Nat /\ a <= b /\ (s = <<>> => a = b)
<1>1. PICK at \in [1 .. Len(s) + 1 -> Nat] : ChainAt(inode, s, at, a, b)
  BY DEF Chain
<1>2. Len(s) \in Nat
  BY DEF Chain
<1> QED BY <1>1, <1>2 DEF ChainAt

LEMMA TailOfSeq ==
  ASSUME NEW S, NEW s \in Seq(S), s # <<>>
  PROVE  /\ Tail(s) \in Seq(S) /\ Head(s) = s[1] /\ s[1] \in S
         /\ Len(s) \in Nat \ {0} /\ Len(Tail(s)) = Len(s) - 1
         /\ \A k \in 1 .. Len(s) - 1 : Tail(s)[k] = s[k + 1]
  OBVIOUS

LEMMA ConsOfSeq ==
  ASSUME NEW S, NEW s \in Seq(S), NEW c \in S
  PROVE  /\ <<c>> \o s \in Seq(S) /\ Len(<<c>> \o s) = Len(s) + 1
         /\ (<<c>> \o s)[1] = c /\ <<c>> \o s # <<>>
         /\ \A k \in 1 .. Len(s) : (<<c>> \o s)[k + 1] = s[k]
         /\ \A k \in 2 .. Len(s) + 1 : (<<c>> \o s)[k] = s[k - 1]
  OBVIOUS

LEMMA ChainTail ==
  ASSUME NEW inode, NEW a, NEW b, NEW s, Chain(inode, s, a, b), s # <<>>
  PROVE  /\ Good(inode, s[1], a) /\ Chain(inode, Tail(s), a + s[1].n, b)
         /\ \A k \in 1 .. Len(Tail(s)) : Tail(s)[k].level >= 2
<1>1. PICK at \in [1 .. Len(s) + 1 -> Nat] : ChainAt(inode, s, at, a, b)
  BY DEF Chain
<1> DEFINE t == Tail(s)
           up == [k \in 1 .. Len(t) + 1 |-> at[k + 1]]
<1>2. s \in Seq(ActRec)
  BY DEF Chain
<1>3. /\ t \in Seq(ActRec) /\ Len(s) \in Nat \ {0} /\ Len(t) = Len(s) - 1
      /\ \A k \in 1 .. Len(s) - 1 : t[k] = s[k + 1]
  BY <1>2, TailOfSeq
<1> HIDE DEF t
<1>4. Good(inode, s[1], a) /\ at[2] = a + s[1].n
  BY <1>1, <1>3 DEF ChainAt
<1>5. up \in [1 .. Len(t) + 1 -> Nat]
  BY <1>1, <1>3
<1>6. \A k \in 1 .. Len(t) : t[k].level >= 2
  BY <1>1, <1>3 DEF ChainAt
<1>7. ChainAt(inode, t, up, a + s[1].n, b)
  <2>1. up[1] = a + s[1].n /\ up[Len(t) + 1] = b
    BY <1>1, <1>3, <1>4 DEF ChainAt
  <2>2. \A k \in 1 .. Len(t) + 1 : up[k] <= b
    BY <1>1, <1>3 DEF ChainAt
  <2>3. ASSUME NEW k \in 1 .. Len(t)
        PROVE  Good(inode, t[k], up[k]) /\ up[k + 1] = up[k] + t[k].n
    <3>1. k + 1 \in 1 .. Len(s) /\ t[k] = s[k + 1] /\ up[k] = at[k + 1] /\ up[k + 1] = at[(k + 1) + 1]
      BY <1>3
    <3>2. Good(inode, s[k + 1], at[k + 1]) /\ at[(k + 1) + 1] = at[k + 1] + s[k + 1].n
      BY <1>1, <3>1 DEF ChainAt
    <3> HIDE DEF up
    <3> QED BY <3>1, <3>2
  <2> HIDE DEF up
  <2>4. \A k \in 2 .. Len(t) : t[k].level >= 2
    BY <1>3, <1>6
  <2> QED BY <1>5, <2>1, <2>2, <2>3, <2>4 DEF ChainAt
<1> HIDE DEF up
<1>8. Chain(inode, t, a + s[1].n, b)
  BY <1>3, <1>5, <1>7 DEF Chain
<1> QED BY <1>4, <1>6, <1>8 DEF t

LEMMA ChainCons ==
  ASSUME NEW inode, NEW a \in Nat, NEW m, NEW b, NEW s, NEW c, Chain(inode, s, m, b),
         \A k \in 1 .. Len(s) : s[k].level >= 2, Good(inode, c, a), m = a + c.n
  PROVE  Chain(inode, <<c>> \o s, a, b)
<1>1. PICK at \in [1 .. Len(s) + 1 -> Nat] : ChainAt(inode, s, at, m, b)
  BY DEF Chain
<1>2. s \in Seq(ActRec) /\ Len(s) \in Nat /\ c \in ActRec
  BY DEF Chain, Good
<1> DEFINE t == <<c>> \o s
           up == [k \in 1 .. Len(t) + 1 |-> IF k = 1 THEN a ELSE at[k - 1]]
<1>3. /\ t \in Seq(ActRec) /\ Len(t) = Len(s) + 1 /\ t[1] = c
      /\ \A k \in 2 .. Len(s) + 1 : t[k] = s[k - 1]
  BY <1>2, ConsOfSeq
<1> HIDE DEF t
<1>4. c.n \in Nat /\ a <= m /\ m \in Nat /\ m <= b /\ b \in Nat
  BY <1>1, <1>2, AtIsNat, ChainEnds
<1>5. up \in [1 .. Len(t) + 1 -> Nat]
  BY <1>2, <1>3
<1>6. ChainAt(inode, t, up, a, b)
  <2>1. up[1] = a /\ up[Len(t) + 1] = b
    BY <1>1, <1>2, <1>3 DEF ChainAt
  <2>2. \A k \in 1 .. Len(t) + 1 : up[k] <= b
    BY <1>1, <1>2, <1>3, <1>4 DEF ChainAt
  <2>3. ASSUME NEW k \in 1 .. Len(t)
        PROVE  Good(inode, t[k], up[k]) /\ up[k + 1] = up[k] + t[k].n
    <3>1. CASE k = 1
      <4>1. up[1] = a /\ up[2] = m
        BY <1>1, <1>2, <1>3 DEF ChainAt
      <4> HIDE DEF up
      <4> QED BY <1>3, <3>1, <4>1
    <3>2. CASE k # 1
      <4>1. k - 1 \in 1 .. Len(s) /\ t[k] = s[k - 1] /\ up[k] = at[k - 1] /\ up[k + 1] = at[(k - 1) + 1]
        BY <1>2, <1>3, <3>2
      <4>2. Good(inode, s[k - 1], at[k - 1]) /\ at[(k - 1) + 1] = at[k - 1] + s[k - 1].n
        BY <1>1, <4>1 DEF ChainAt
      <4> HIDE DEF up
      <4> QED BY <4>1, <4>2
    <3> QED BY <3>1, <3>2
  <2> HIDE DEF up
  <2>4. \A k \in 2 .. Len(t) : t[k].level >= 2
    BY <1>2, <1>3
  <2> QED BY <1>5, <2>1, <2>2, <2>3, <2>4 DEF ChainAt
<1> HIDE DEF up
<1>7. Chain(inode, t, a, b)
  BY <1>3, <1>5, <1>6 DEF Chain
<1> QED BY <1>7 DEF t

----------------------------------------------------------------------------
(* The parts that a range is cut into.                                     *)

PartRec == [level : 0 .. 3, from : Int, n : Nat]

(* The first block of the file that the reader of a level can get at.      *)
Start(level) == IF level = 0 THEN 0 ELSE pos[level]

PartAt(c, a) ==
  c.n # 0 => /\ c.from \in Nat /\ c.from + c.n <= Room(c.level)
             /\ a = Start(c.level) + c.from

PartsAt(s, at, a, b) ==
  /\ at \in [1 .. Len(s) + 1 -> Nat]
  /\ at[1] = a /\ at[Len(s) + 1] = b
  /\ \A k \in 1 .. Len(s) + 1 : at[k] <= b
  /\ \A k \in 1 .. Len(s) : PartAt(s[k], at[k]) /\ at[k + 1] = at[k] + s[k].n
Parts(s, a, b) ==
  /\ s \in Seq(PartRec)
  /\ \E at \in [1 .. Len(s) + 1 -> Nat] : PartsAt(s, at, a, b)

LEMMA PartsEnd ==
  ASSUME NEW s, NEW a, NEW b, Parts(s, a, b)
  PROVE  a \in Nat /\ b \in Nat /\ a <= b /\ (s = <<>> => a = b)
<1>1. PICK at \in [1 .. Len(s) + 1 -> Nat] : PartsAt(s, at, a, b)
  BY DEF Parts
<1>2. Len(s) \in Nat
  BY DEF Parts
<1> QED BY <1>1, <1>2 DEF PartsAt

LEMMA PartsTail ==
  ASSUME NEW s, NEW a, NEW b, Parts(s, a, b), s # <<>>
  PROVE  /\ Head(s) \in PartRec /\ PartAt(Head(s), a)
         /\ Parts(Tail(s), a + Head(s).n, b)
<1>1. PICK at \in [1 .. Len(s) + 1 -> Nat] : PartsAt(s, at, a, b)
  BY DEF Parts
<1> DEFINE t == Tail(s)
           up == [k \in 1 .. Len(t) + 1 |-> at[k + 1]]
<1>2. s \in Seq(PartRec)
  BY DEF Parts
<1>3. /\ t \in Seq(PartRec) /\ Len(s) \in Nat \ {0} /\ Len(t) = Len(s) - 1
      /\ Head(s) = s[1] /\ s[1] \in PartRec
      /\ \A k \in 1 .. Len(s) - 1 : t[k] = s[k + 1]
  BY <1>2, TailOfSeq
<1> HIDE DEF t
<1>4. PartAt(s[1], a) /\ at[2] = a + s[1].n
  BY <1>1, <1>3 DEF PartsAt
<1>5. up \in [1 .. Len(t) + 1 -> Nat]
  BY <1>1, <1>3
<1>6. PartsAt(t, up, a + s[1].n, b)
  <2>1. up[1] = a + s[1].n /\ up[Len(t) + 1] = b
    BY <1>1, <1>3, <1>4 DEF PartsAt
  <2>2. \A k \in 1 .. Len(t) + 1 : up[k] <= b
    BY <1>1, <1>3 DEF PartsAt
  <2>3. ASSUME NEW k \in 1 .. Len(t)
        PROVE  PartAt(t[k], up[k]) /\ up[k + 1] = up[k] + t[k].n
    <3>1. k + 1 \in 1 .. Len(s) /\ t[k] = s[k + 1] /\ up[k] = at[k + 1] /\ up[k + 1] = at[(k + 1) + 1]
      BY <1>3
    <3>2. PartAt(s[k + 1], at[k + 1]) /\ at[(k + 1) + 1] = at[k + 1] + s[k + 1].n
      BY <1>1, <3>1 DEF PartsAt
    <3> HIDE DEF up
    <3> QED BY <3>1, <3>2
  <2> HIDE DEF up
  <2> QED BY <1>5, <2>1, <2>2, <2>3 DEF PartsAt
<1> HIDE DEF up
<1>7. Parts(t, a + s[1].n, b)
  BY <1>3, <1>5, <1>6 DEF Parts
<1> QED BY <1>3, <1>4, <1>7 DEF t

LEMMA LevelOfMeans ==
  ASSUME NEW count \in Nat, count <= pos[4]
  PROVE  /\ LevelOf(count) \in 1 .. 4 /\ count <= pos[LevelOf(count)]
         /\ \A m \in 1 .. LevelOf(count) - 1 : pos[m] < count
<1> DEFINE P(l) == count <= pos[l] /\ \A m \in 1 .. l - 1 : pos[m] < count
<1>1. \E l \in 1 .. 4 : P(l)
  <2>1. CASE count <= pos[1]
    <3>1. P(1)
      BY <2>1
    <3> QED BY <3>1
  <2>2. CASE pos[1] < count /\ count <= pos[2]
    <3>1. P(2)
      BY <2>2
    <3> QED BY <3>1
  <2>3. CASE pos[1] < count /\ pos[2] < count /\ count <= pos[3]
    <3>1. P(3)
      <4>1. \A m \in 1 .. 2 : m = 1 \/ m = 2
        OBVIOUS
      <4> QED BY <2>3, <4>1
    <3> QED BY <3>1
  <2>4. CASE pos[1] < count /\ pos[2] < count /\ pos[3] < count
    <3>1. P(4)
      <4>1. \A m \in 1 .. 3 : m = 1 \/ m = 2 \/ m = 3
        OBVIOUS
      <4> QED BY <2>4, <4>1
    <3> QED BY <3>1
  <2> QED BY <2>1, <2>2, <2>3, <2>4, Sizes
<1> HIDE DEF P
<1>2. LevelOf(count) = CHOOSE l \in 1 .. 4 : P(l)
  BY DEF LevelOf, P
<1>3. LevelOf(count) \in 1 .. 4 /\ P(LevelOf(count))
  BY <1>1, <1>2
<1> QED BY <1>3 DEF P

LEMMA LevelOfBounds ==
  ASSUME NEW count \in Nat, count <= pos[4]
  PROVE  LET l == LevelOf(count)
         IN  /\ l \in {1, 2, 3, 4}
             /\ l = 1 => count <= pos[1]
             /\ l = 2 => count <= pos[2]
             /\ l = 3 => count <= pos[3]
             /\ l > 1 => pos[1] < count
             /\ l > 2 => pos[2] < count
             /\ l > 3 => pos[3] < count
<1> DEFINE l == LevelOf(count)
<1>1. l \in 1 .. 4 /\ count <= pos[l] /\ \A m \in 1 .. l - 1 : pos[m] < count
  BY LevelOfMeans
<1> HIDE DEF l
<1>2. l \in {1, 2, 3, 4}
  BY <1>1
<1>3. (l > 1 => pos[1] < count) /\ (l > 2 => pos[2] < count) /\ (l > 3 => pos[3] < count)
  BY <1>1
<1> QED BY <1>1, <1>2, <1>3 DEF l

(* The parts of a range follow each other, each in the reach of its level. *)
LEMMA FilePartsCover ==
  ASSUME NEW from \in Nat, NEW n \in Nat \ {0}, from + n <= pos[4]
  PROVE  Parts(FileParts(from, n), from, from + n)
<1> DEFINE first == LevelOf(from + 1)
           last  == LevelOf(from + n)
           blocks(l) == IF l < first \/ last < l THEN 0
                        ELSE Least(from + n, pos[l]) - (IF l = first THEN from ELSE pos[l - 1])
           start(l)  == IF l = 1 THEN from
                        ELSE IF blocks(l - 1) # 0 THEN 0 ELSE from - pos[l - 1]
           s  == FileParts(from, n)
           cut(l) == IF l < first THEN from ELSE IF l <= last THEN Least(from + n, pos[l]) ELSE from + n
           at == [k \in 1 .. 5 |-> IF k = 1 THEN from ELSE cut(k - 1)]
<1>1. /\ first \in {1, 2, 3, 4}
      /\ first = 1 => from + 1 <= pos[1]
      /\ first = 2 => from + 1 <= pos[2]
      /\ first = 3 => from + 1 <= pos[3]
      /\ first > 1 => pos[1] < from + 1
      /\ first > 2 => pos[2] < from + 1
      /\ first > 3 => pos[3] < from + 1
  <2>1. from + 1 \in Nat /\ from + 1 <= pos[4]
    BY Sizes
  <2> QED BY <2>1, LevelOfBounds
<1>2. /\ last \in {1, 2, 3, 4}
      /\ last = 1 => from + n <= pos[1]
      /\ last = 2 => from + n <= pos[2]
      /\ last = 3 => from + n <= pos[3]
      /\ last > 1 => pos[1] < from + n
      /\ last > 2 => pos[2] < from + n
      /\ last > 3 => pos[3] < from + n
  <2>1. from + n \in Nat
    OBVIOUS
  <2> QED BY <2>1, LevelOfBounds
<1>3. s = [l \in 1 .. 4 |-> PartCall(l - 1, start(l), blocks(l))]
  BY DEF FileParts
<1> HIDE DEF first, last
<1>4. first <= last
  BY <1>1, <1>2, Sizes
<1> DEFINE p1 == pos[1]
           p2 == pos[2]
           p3 == pos[3]
           p4 == pos[4]
<1>5. /\ p1 \in Nat \ {0} /\ p2 \in Nat /\ p3 \in Nat /\ p4 \in Nat
      /\ p1 < p2 /\ p2 < p3 /\ p3 < p4
      /\ Room(0) = p1 /\ Room(1) = p2 - p1 /\ Room(2) = p3 - p2 /\ Room(3) = p4 - p3
  <2>1. Room(0) = EXT2_NDIR_BLOCKS /\ Room(1) = Span(1) /\ Room(2) = Span(2) /\ Room(3) = Span(3)
    BY DEF Room
  <2>2. /\ Span(1) \in Nat \ {0} /\ Span(2) \in Nat \ {0} /\ Span(3) \in Nat \ {0}
        /\ p1 = EXT2_NDIR_BLOCKS /\ p2 = p1 + Span(1) /\ p3 = p2 + Span(2) /\ p4 = p3 + Span(3)
        /\ p1 \in Nat \ {0} /\ p2 \in Nat /\ p3 \in Nat /\ p4 \in Nat
    BY Sizes
  <2> HIDE DEF p1, p2, p3, p4
  <2> QED BY <2>1, <2>2
<1>6. Start(0) = 0 /\ Start(1) = p1 /\ Start(2) = p2 /\ Start(3) = p3
  BY DEF Start
<1>7. /\ cut(1) = (IF 1 < first THEN from ELSE IF 1 <= last THEN Least(from + n, p1) ELSE from + n)
      /\ cut(2) = (IF 2 < first THEN from ELSE IF 2 <= last THEN Least(from + n, p2) ELSE from + n)
      /\ cut(3) = (IF 3 < first THEN from ELSE IF 3 <= last THEN Least(from + n, p3) ELSE from + n)
      /\ cut(4) = (IF 4 < first THEN from ELSE IF 4 <= last THEN Least(from + n, p4) ELSE from + n)
      /\ blocks(1) = (IF 1 < first \/ last < 1 THEN 0 ELSE Least(from + n, p1) - from)
      /\ blocks(2) = (IF 2 < first \/ last < 2 THEN 0 ELSE Least(from + n, p2) - (IF 2 = first THEN from ELSE p1))
      /\ blocks(3) = (IF 3 < first \/ last < 3 THEN 0 ELSE Least(from + n, p3) - (IF 3 = first THEN from ELSE p2))
      /\ blocks(4) = (IF 4 < first \/ last < 4 THEN 0 ELSE Least(from + n, p4) - (IF 4 = first THEN from ELSE p3))
  <2>1. 2 - 1 = 1 /\ 3 - 1 = 2 /\ 4 - 1 = 3
    OBVIOUS
  <2>2. 1 # first \/ blocks(1) = (IF 1 < first \/ last < 1 THEN 0 ELSE Least(from + n, p1) - from)
    OBVIOUS
  <2>3. 1 = first \/ blocks(1) = 0
    BY <1>1
  <2>4. 1 = first => ~(1 < first \/ last < 1)
    BY <1>2
  <2> QED BY <1>1, <2>1, <2>2, <2>3, <2>4
<1>8. /\ start(1) = from
      /\ start(2) = (IF blocks(1) # 0 THEN 0 ELSE from - p1)
      /\ start(3) = (IF blocks(2) # 0 THEN 0 ELSE from - p2)
      /\ start(4) = (IF blocks(3) # 0 THEN 0 ELSE from - p3)
  <2>1. 2 - 1 = 1 /\ 3 - 1 = 2 /\ 4 - 1 = 3
    OBVIOUS
  <2> HIDE DEF blocks
  <2> QED BY <2>1
<1> HIDE DEF p1, p2, p3, p4, cut, blocks
<1>9. from + 1 <= p4 /\ from + n <= p4
  BY <1>5 DEF p4
<1>10. /\ first = 1 => from + 1 <= p1
       /\ first = 2 => from + 1 <= p2 /\ p1 < from + 1
       /\ first = 3 => from + 1 <= p3 /\ p2 < from + 1
       /\ first = 4 => p3 < from + 1
       /\ last = 1 => from + n <= p1
       /\ last = 2 => from + n <= p2 /\ p1 < from + n
       /\ last = 3 => from + n <= p3 /\ p2 < from + n
       /\ last = 4 => p3 < from + n
  BY <1>1, <1>2 DEF p1, p2, p3
<1>11. /\ cut(1) \in Nat /\ cut(2) \in Nat /\ cut(3) \in Nat /\ cut(4) = from + n
       /\ cut(1) <= from + n /\ cut(2) <= from + n /\ cut(3) <= from + n
       /\ blocks(1) = cut(1) - from /\ blocks(2) = cut(2) - cut(1)
       /\ blocks(3) = cut(3) - cut(2) /\ blocks(4) = cut(4) - cut(3)
       /\ blocks(1) \in Nat /\ blocks(2) \in Nat /\ blocks(3) \in Nat /\ blocks(4) \in Nat
  BY <1>1, <1>2, <1>4, <1>5, <1>7, <1>9, <1>10 DEF Least
<1>12. /\ start(1) \in Int /\ start(2) \in Int /\ start(3) \in Int /\ start(4) \in Int
  BY <1>5, <1>8, <1>11
<1> HIDE DEF start
<1>13. PartAt(PartCall(0, start(1), blocks(1)), from)
  BY <1>1, <1>2, <1>4, <1>5, <1>6, <1>7, <1>8, <1>9, <1>10 DEF Least, PartAt, PartCall
<1>14. PartAt(PartCall(1, start(2), blocks(2)), cut(1))
  BY <1>1, <1>2, <1>4, <1>5, <1>6, <1>7, <1>8, <1>9, <1>10 DEF Least, PartAt, PartCall
<1>15. PartAt(PartCall(2, start(3), blocks(3)), cut(2))
  BY <1>1, <1>2, <1>4, <1>5, <1>6, <1>7, <1>8, <1>9, <1>10 DEF Least, PartAt, PartCall
<1>16. PartAt(PartCall(3, start(4), blocks(4)), cut(3))
  BY <1>1, <1>2, <1>4, <1>5, <1>6, <1>7, <1>8, <1>9, <1>10 DEF Least, PartAt, PartCall
<1>17. /\ Len(s) = 4 /\ s \in Seq(PartRec)
       /\ s[1] = PartCall(0, start(1), blocks(1)) /\ s[2] = PartCall(1, start(2), blocks(2))
       /\ s[3] = PartCall(2, start(3), blocks(3)) /\ s[4] = PartCall(3, start(4), blocks(4))
  <2>1. \A l \in 1 .. 4 : l = 1 \/ l = 2 \/ l = 3 \/ l = 4
    OBVIOUS
  <2>2. /\ PartCall(0, start(1), blocks(1)) \in PartRec /\ PartCall(1, start(2), blocks(2)) \in PartRec
        /\ PartCall(2, start(3), blocks(3)) \in PartRec /\ PartCall(3, start(4), blocks(4)) \in PartRec
    BY <1>11, <1>12 DEF PartRec, PartCall
  <2>3. \A l \in 1 .. 4 : PartCall(l - 1, start(l), blocks(l)) \in PartRec
    BY <2>1, <2>2
  <2> HIDE DEF s
  <2> QED BY <1>3, <2>3
<1>18. /\ at \in [1 .. 5 -> Nat]
       /\ at[1] = from /\ at[2] = cut(1) /\ at[3] = cut(2) /\ at[4] = cut(3) /\ at[5] = cut(4)
  <2>1. \A k \in 1 .. 5 : k = 1 \/ k = 2 \/ k = 3 \/ k = 4 \/ k = 5
    OBVIOUS
  <2> QED BY <1>11, <2>1
<1> HIDE DEF s, at
<1>19. PartsAt(s, at, from, from + n)
  <2>1. \A k \in 1 .. 5 : at[k] <= from + n
    BY <1>11, <1>18
  <2>2. /\ s[1].n = blocks(1) /\ s[2].n = blocks(2) /\ s[3].n = blocks(3) /\ s[4].n = blocks(4)
    BY <1>17 DEF PartCall
  <2>3. /\ at[2] = at[1] + s[1].n /\ at[3] = at[2] + s[2].n
        /\ at[4] = at[3] + s[3].n /\ at[5] = at[4] + s[4].n
    BY <1>11, <1>18, <2>2
  <2>4. ASSUME NEW k \in 1 .. 4
        PROVE  PartAt(s[k], at[k]) /\ at[k + 1] = at[k] + s[k].n
    <3>1. k = 1 \/ k = 2 \/ k = 3 \/ k = 4
      OBVIOUS
    <3> QED BY <1>13, <1>14, <1>15, <1>16, <1>17, <1>18, <2>3, <3>1
  <2> QED BY <1>11, <1>17, <1>18, <2>1, <2>4 DEF PartsAt
<1>20. Parts(s, from, from + n)
  BY <1>17, <1>18, <1>19 DEF Parts
<1> QED BY <1>20 DEF s

(* The whole of a file that is not too large.                              *)
LEMMA WholePartsCover ==
  ASSUME NEW blocks \in Nat, blocks <= pos[4]
  PROVE  Parts(WholeParts(blocks), 0, blocks)
<1> DEFINE left(l) == IF l = 1 THEN blocks ELSE blocks - pos[l - 1]
           room(l) == IF l = 1 THEN EXT2_NDIR_BLOCKS ELSE Span(l - 1)
           last == LevelOf(blocks)
           s  == WholeParts(blocks)
           cut(k) == IF k = 1 THEN 0 ELSE Least(blocks, pos[k - 1])
           at == [k \in 1 .. last + 1 |-> cut(k)]
<1>1. /\ last \in {1, 2, 3, 4}
      /\ last = 1 => blocks <= pos[1]
      /\ last = 2 => blocks <= pos[2]
      /\ last = 3 => blocks <= pos[3]
      /\ last > 1 => pos[1] < blocks
      /\ last > 2 => pos[2] < blocks
      /\ last > 3 => pos[3] < blocks
  BY LevelOfBounds
<1>2. s = [l \in 1 .. last |-> PartCall(l - 1, 0, Least(left(l), room(l)))]
  <2>1. (IF blocks > pos[4] THEN 3 ELSE LevelOf(blocks)) = last
    BY Sizes
  <2> QED BY <2>1 DEF WholeParts
<1> HIDE DEF last, s
<1> DEFINE p1 == pos[1]
           p2 == pos[2]
           p3 == pos[3]
           p4 == pos[4]
<1>3. /\ p1 \in Nat \ {0} /\ p2 \in Nat /\ p3 \in Nat /\ p4 \in Nat
      /\ p1 < p2 /\ p2 < p3 /\ p3 < p4 /\ blocks <= p4
      /\ room(1) = p1 /\ room(2) = p2 - p1 /\ room(3) = p3 - p2 /\ room(4) = p4 - p3
      /\ Room(0) = p1 /\ Room(1) = p2 - p1 /\ Room(2) = p3 - p2 /\ Room(3) = p4 - p3
  <2>1. /\ room(1) = EXT2_NDIR_BLOCKS /\ room(2) = Span(1) /\ room(3) = Span(2) /\ room(4) = Span(3)
        /\ Room(0) = EXT2_NDIR_BLOCKS /\ Room(1) = Span(1) /\ Room(2) = Span(2) /\ Room(3) = Span(3)
    BY DEF Room
  <2>2. /\ Span(1) \in Nat \ {0} /\ Span(2) \in Nat \ {0} /\ Span(3) \in Nat \ {0}
        /\ p1 = EXT2_NDIR_BLOCKS /\ p2 = p1 + Span(1) /\ p3 = p2 + Span(2) /\ p4 = p3 + Span(3)
        /\ p1 \in Nat \ {0} /\ p2 \in Nat /\ p3 \in Nat /\ p4 \in Nat /\ blocks <= p4
    BY Sizes
  <2> HIDE DEF p1, p2, p3, p4, room
  <2> QED BY <2>1, <2>2
<1>4. /\ left(1) = blocks /\ left(2) = blocks - p1 /\ left(3) = blocks - p2 /\ left(4) = blocks - p3
      /\ cut(1) = 0 /\ cut(2) = Least(blocks, p1) /\ cut(3) = Least(blocks, p2)
      /\ cut(4) = Least(blocks, p3) /\ cut(5) = Least(blocks, p4)
  <2>1. 2 - 1 = 1 /\ 3 - 1 = 2 /\ 4 - 1 = 3 /\ 5 - 1 = 4
    OBVIOUS
  <2> QED BY <2>1
<1>5. Start(0) = 0 /\ Start(1) = p1 /\ Start(2) = p2 /\ Start(3) = p3
  BY DEF Start
<1>6. /\ last \in {1, 2, 3, 4}
      /\ last = 1 => blocks <= p1
      /\ last = 2 => blocks <= p2
      /\ last = 3 => blocks <= p3
      /\ last > 1 => p1 < blocks
      /\ last > 2 => p2 < blocks
      /\ last > 3 => p3 < blocks
  BY <1>1
<1> HIDE DEF p1, p2, p3, p4, left, room, cut
<1> DEFINE size(k) == Least(left(k), room(k))
<1>7. ASSUME NEW k \in 1 .. last
      PROVE  /\ PartCall(k - 1, 0, size(k)) \in PartRec
             /\ PartAt(PartCall(k - 1, 0, size(k)), cut(k))
             /\ cut(k + 1) = cut(k) + size(k)
             /\ cut(k) \in Nat /\ cut(k) <= blocks
  <2>1. k = 1 \/ (k = 2 /\ last > 1) \/ (k = 3 /\ last > 2) \/ (k = 4 /\ last > 3)
    BY <1>6
  <2>2. CASE k = 1
    BY <1>3, <1>4, <1>5, <1>6, <2>2 DEF PartCall, PartRec, PartAt, Least
  <2>3. CASE k = 2 /\ last > 1
    BY <1>3, <1>4, <1>5, <1>6, <2>3 DEF PartCall, PartRec, PartAt, Least
  <2>4. CASE k = 3 /\ last > 2
    BY <1>3, <1>4, <1>5, <1>6, <2>4 DEF PartCall, PartRec, PartAt, Least
  <2>5. CASE k = 4 /\ last > 3
    BY <1>3, <1>4, <1>5, <1>6, <2>5 DEF PartCall, PartRec, PartAt, Least
  <2> QED BY <2>1, <2>2, <2>3, <2>4, <2>5
<1>8. cut(1) = 0 /\ cut(last + 1) = blocks
  BY <1>3, <1>4, <1>6 DEF Least
<1>9. last \in Nat \ {0}
  BY <1>6
<1>10. at \in [1 .. last + 1 -> Nat] /\ \A k \in 1 .. last + 1 : at[k] = cut(k)
  BY <1>7, <1>8, <1>9
<1> HIDE DEF at
<1>11. s \in Seq(PartRec) /\ Len(s) = last /\ \A k \in 1 .. last : s[k] = PartCall(k - 1, 0, size(k))
  <2>1. s \in [1 .. last -> PartRec]
    BY <1>2, <1>7
  <2> QED BY <1>2, <1>9, <2>1
<1>12. PartsAt(s, at, 0, blocks)
  <2>1. \A k \in 1 .. last + 1 : at[k] <= blocks
    BY <1>7, <1>8, <1>9, <1>10
  <2>2. ASSUME NEW k \in 1 .. last
        PROVE  PartAt(s[k], at[k]) /\ at[k + 1] = at[k] + s[k].n
    <3>1. s[k].n = size(k)
      BY <1>11 DEF PartCall
    <3> HIDE DEF size
    <3>2. at[k] = cut(k) /\ at[k + 1] = cut(k + 1)
      BY <1>9, <1>10
    <3> QED BY <1>7, <1>11, <3>1, <3>2
  <2>3. at[1] = 0 /\ at[last + 1] = blocks
    BY <1>8, <1>9, <1>10
  <2> QED BY <1>10, <1>11, <2>1, <2>2, <2>3 DEF PartsAt
<1>13. Parts(s, 0, blocks)
  BY <1>10, <1>11, <1>12 DEF Parts
<1> QED BY <1>13 DEF s

(* The reader called for a part that is not empty reads this part.         *)
TopBlock(inode, level) ==
  IF level = 0 THEN SB0_BLOCK_NO ELSE inode.i_block[EXT2_NDIR_BLOCKS + level - 1]

LEMMA PartStart ==
  ASSUME NEW inode, NEW level \in 0 .. 3, NEW x \in Nat, x < Room(level)
  PROVE  /\ LeafAt(inode, level, TopBlock(inode, level), x) = FileBlock(Wide, inode, Start(level) + x)
         /\ OnDiskAt(inode, level, TopBlock(inode, level), x)
              <=> FileBlockOnDisk(Wide, inode, Start(level) + x)
<1> DEFINE q == Start(level) + x
<1>1. level = 0 \/ level = 1 \/ level = 2 \/ level = 3
  OBVIOUS
<1>2. /\ Span(1) \in Nat \ {0} /\ Span(2) \in Nat \ {0} /\ Span(3) \in Nat \ {0}
      /\ pos[1] = EXT2_NDIR_BLOCKS /\ pos[2] = pos[1] + Span(1) /\ pos[3] = pos[2] + Span(2)
      /\ pos[1] \in Nat \ {0} /\ pos[2] \in Nat /\ pos[3] \in Nat
  BY Sizes
<1>3. CASE level = 0
  <2>1. q = x /\ x < pos[1]
    BY <1>2, <1>3 DEF Start, Room
  <2> HIDE DEF q
  <2> QED BY <1>3, <2>1 DEF LeafAt, OnDiskAt, FileBlock, FileBlockOnDisk, q
<1>4. CASE level = 1
  <2>1. q \in Nat /\ ~(q < pos[1]) /\ q < pos[2] /\ q - pos[1] = x
    BY <1>2, <1>4 DEF Start, Room
  <2> HIDE DEF q
  <2> QED BY <1>4, <2>1 DEF LeafAt, OnDiskAt, FileBlock, FileBlockOnDisk, TopBlock, q
<1>5. CASE level = 2
  <2>1. q \in Nat /\ ~(q < pos[1]) /\ ~(q < pos[2]) /\ q < pos[3] /\ q - pos[2] = x
    BY <1>2, <1>5 DEF Start, Room
  <2> HIDE DEF q
  <2> QED BY <1>5, <2>1 DEF LeafAt, OnDiskAt, FileBlock, FileBlockOnDisk, TopBlock, q
<1>6. CASE level = 3
  <2>1. q \in Nat /\ ~(q < pos[1]) /\ ~(q < pos[2]) /\ ~(q < pos[3]) /\ q - pos[3] = x
    BY <1>2, <1>6 DEF Start, Room
  <2> HIDE DEF q
  <2> QED BY <1>6, <2>1 DEF LeafAt, OnDiskAt, FileBlock, FileBlockOnDisk, TopBlock, q
<1> QED BY <1>1, <1>3, <1>4, <1>5, <1>6

LEMMA GoodPart ==
  ASSUME NEW inode, NEW c \in PartRec, NEW a \in Nat, PartAt(c, a), c.n # 0,
         PointersOK(inode)
  PROVE  LET d == Enter(c.level, TopBlock(inode, c.level), c.from, c.n)
         IN  Good(inode, d, a) /\ d.n = c.n /\ d.level = c.level
<1>1. /\ c.level \in 0 .. 3 /\ c.from \in Nat /\ c.n \in Nat \ {0}
      /\ c.from + c.n <= Room(c.level) /\ a = Start(c.level) + c.from
  BY DEF PartRec, PartAt
<1> DEFINE blk == TopBlock(inode, c.level)
<1>2. Start(c.level) \in Nat /\ Room(c.level) \in Nat
  <2>1. c.level = 0 \/ c.level = 1 \/ c.level = 2 \/ c.level = 3
    BY <1>1
  <2> QED BY <2>1, Sizes DEF Start, Room
<1>3. ASSUME NEW x \in 0 .. c.n - 1
      PROVE  /\ LeafAt(inode, c.level, blk, c.from + x) = FileBlock(Wide, inode, a + x)
             /\ OnDiskAt(inode, c.level, blk, c.from + x) <=> FileBlockOnDisk(Wide, inode, a + x)
  <2> DEFINE y == c.from + x
  <2>1. y \in Nat /\ y < Room(c.level) /\ Start(c.level) + y = a + x
    BY <1>1, <1>2
  <2> HIDE DEF y, blk
  <2>2. /\ LeafAt(inode, c.level, blk, y) = FileBlock(Wide, inode, Start(c.level) + y)
        /\ OnDiskAt(inode, c.level, blk, y) <=> FileBlockOnDisk(Wide, inode, Start(c.level) + y)
    BY <1>1, <2>1, PartStart DEF blk
  <2> QED BY <2>1, <2>2 DEF y
<1>4. blk \in DOMAIN Disk
  <2>1. CASE c.level = 0
    BY <2>1, DiskAssumption DEF TopBlock
  <2>2. CASE c.level # 0
    <3>1. EXT2_NDIR_BLOCKS + c.level - 1 \in 0 .. EXT2_NDIR_BLOCKS + 2
      BY <1>1, <2>2, ReaderAssumption
    <3> QED BY <2>2, <3>1 DEF TopBlock, PointersOK
  <2> QED BY <2>1, <2>2
<1> DEFINE d == Enter(c.level, blk, c.from, c.n)
<1> HIDE DEF blk
<1>5. /\ d \in ActRec /\ InBlock(d) /\ At(d) = c.from
      /\ d.level = c.level /\ d.blk = blk /\ d.n = c.n
  BY <1>1, <1>4, EnterIsAt
<1> HIDE DEF d
<1>6. Covers(inode, d, a)
  BY <1>3, <1>5 DEF Covers
<1>7. Good(inode, d, a) /\ d.n = c.n /\ d.level = c.level
  BY <1>5, <1>6 DEF Good
<1> QED BY <1>7 DEF d, blk

----------------------------------------------------------------------------
(* The invariant.                                                          *)

Blocks(inode) == BYTES_ALIGN_TO_BLOCKS(inode.i_size)
DirRec == [ip    : {read_ext2_inode(ino) : ino \in InodesInUse},
           fdata : Seq(DOMAIN Disk), size : Nat, depth : Nat]

(* A directory that is in memory.                                          *)
Loaded(d) ==
  /\ Len(d.fdata) = Blocks(d.ip)
  /\ \A j \in 1 .. Len(d.fdata) : d.fdata[j] = FileBlock(Wide, d.ip, j - 1)

(* The walk through it is where an entry starts, or at its end.            *)
Placed(d) ==
  /\ d.ip.dir
  /\ \E starts \in SUBSET (0 .. d.ip.i_size - 1) :
       ChainOfEntries(d.ip, starts) /\ d.size \in starts \cup {d.ip.i_size}

Typing ==
  /\ pc \in {"idle", "read", "list", "oops"}
  /\ want \in [from : Nat, n : Nat]
  /\ buf \in Seq(DOMAIN Disk)
  /\ dirs \in Seq(DirRec)
  /\ heap \in Nat /\ deep \in Nat

(* What has been read is the beginning of the range; what the activations  *)
(* and the parts to come have to read is the rest of it.  A fault leaves   *)
(* all this as it is.                                                      *)
Rest == \E m \in Nat : /\ Chain(ip, calls, want.from + Len(buf), m)
                       /\ Parts(todo, m, want.from + want.n)
Busy == pc \in {"read", "oops"}
Reading ==
  /\ Busy => Rest
  /\ Busy \/ buf # <<>> => PointersOK(ip)
  /\ ~Busy => calls = <<>> /\ todo = <<>> /\ Len(buf) = want.n
  /\ \A j \in 1 .. Len(buf) : buf[j] = FileBlock(Wide, ip, want.from + j - 1)
  /\ pc = "oops" => ~FileBlockOnDisk(Wide, ip, want.from + Len(buf))

Subject ==
  Busy => IF dirs = <<>> THEN <<ip, want.from, want.n>>
                                \in {<<read_ext2_inode(r[1]), r[2], r[3]>> : r \in FileReads}
          ELSE ip = dirs[1].ip /\ want = [from |-> 0, n |-> Blocks(ip)]

Walk ==
  /\ pc = "idle" => dirs = <<>>
  /\ pc = "list" => dirs # <<>>
  /\ \A k \in 1 .. Len(dirs) : Placed(dirs[k]) /\ (k > 1 \/ pc = "list" => Loaded(dirs[k]))

(* What the activations of visit_ext2_dir, or read_ext2_file_blocks, hold, *)
(* and the one activation that will give its buffer back.                  *)
Held == IF pc = "idle" THEN 0 ELSE IF dirs = <<>> THEN 1 ELSE 3 * Len(dirs)
Inner == IF calls # <<>> /\ calls[1].level = 1 THEN 1 ELSE 0
Accounts == heap = deep + Inner + Held

IInv == Typing /\ Reading /\ Subject /\ Walk /\ Accounts

LEMMA GoodIsOK ==
  ASSUME NEW inode, NEW c, NEW a \in Nat, Good(inode, c, a)
  PROVE  ActivationOK(c)
<1>1. c \in ActRec /\ InBlock(c) /\ Covers(inode, c, a)
  BY DEF Good
<1>2. c.level \in 0 .. 3 /\ c.n \in Nat /\ c.n >= 1
  BY <1>1, AtIsNat DEF InBlock
<1>3. c.blk \in DOMAIN Disk
  BY <1>1, AtIsNat
<1> QED BY <1>1, <1>2, <1>3, InBlockMeans DEF ActivationOK

(* The blocks that are read right: for them a pair of numbers is the       *)
(* number of the block.                                                    *)
LEMMA PairIsNumber ==
  ASSUME NEW inode, PointersOK(inode)
  PROVE  LET b == inode.i_block[EXT2_NDIR_BLOCKS]
         IN  /\ b \in DOMAIN Disk
             /\ Numbers[b][0] \in 0 .. WORD - 1 /\ Numbers[b][1] \in 0 .. WORD - 1
             /\ FileBlock(Numbers, inode, pos[1]) = Numbers[b][0]
             /\ FileBlock(Numbers, inode, pos[1] + 1) = Numbers[b][1]
             /\ FileBlock(Wide, inode, pos[1]) = Numbers[b][0] + WORD * Numbers[b][1]
<1> DEFINE b == inode.i_block[EXT2_NDIR_BLOCKS]
           k == EXT2_NDIR_BLOCKS
<1>1. /\ k \in Nat \ {0} /\ BLK_NUM_PER_BLK \in Nat /\ BLK_NUM_PER_BLK >= 2
      /\ pos[1] = k /\ pos[2] = k + BLK_NUM_PER_BLK
  BY ReaderAssumption, Sizes
<1>2. b \in DOMAIN Disk
  BY <1>1 DEF PointersOK
<1>3. Numbers[b] \in [0 .. BLK_NUM_PER_BLK - 1 -> 0 .. WORD - 1]
  BY <1>2, DiskAssumption
<1>4. Numbers[b][0] \in 0 .. WORD - 1 /\ Numbers[b][1] \in 0 .. WORD - 1
  BY <1>1, <1>3
<1>5. Wide[b][0] = Numbers[b][0] + WORD * Numbers[b][1]
  <2>1. 0 \in 0 .. BLK_NUM_PER_BLK - 1 /\ 2 * 0 = 0 /\ 2 * 0 + 1 = 1 /\ 1 < BLK_NUM_PER_BLK
    BY <1>1
  <2>2. Wide[b][0] = IF 2 * 0 + 1 < BLK_NUM_PER_BLK
                     THEN Numbers[b][2 * 0] + WORD * Numbers[b][2 * 0 + 1] ELSE -1
    BY <1>2, <2>1 DEF Wide
  <2> QED BY <2>1, <2>2
<1>6. inode.i_block[EXT2_NDIR_BLOCKS + 1 - 1] = b
  <2>1. EXT2_NDIR_BLOCKS + 1 - 1 = EXT2_NDIR_BLOCKS
    BY <1>1
  <2> QED BY <2>1
<1> HIDE DEF b
<1>7. /\ ~(pos[1] < pos[1]) /\ pos[1] < pos[2] /\ pos[1] - pos[1] = 0
      /\ ~(pos[1] + 1 < pos[1]) /\ pos[1] + 1 < pos[2] /\ (pos[1] + 1) - pos[1] = 1
  BY <1>1
<1>8. /\ FileBlock(Numbers, inode, pos[1]) = Numbers[b][0]
      /\ FileBlock(Wide, inode, pos[1]) = Wide[b][0]
  BY <1>6, <1>7 DEF FileBlock, Leaf1
<1>9. FileBlock(Numbers, inode, pos[1] + 1) = Numbers[b][1]
  BY <1>6, <1>7 DEF FileBlock, Leaf1
<1> QED BY <1>2, <1>4, <1>5, <1>8, <1>9 DEF b

LEMMA ReadIsRight ==
  ASSUME NEW inode, PointersOK(inode), NEW q, ReadRight(inode, q)
  PROVE  FileBlock(Wide, inode, q) = FileBlock(Numbers, inode, q)
<1>1. CASE q < pos[1]
  BY <1>1 DEF FileBlock
<1>2. CASE q = pos[1] /\ Numbers[inode.i_block[EXT2_NDIR_BLOCKS]][1] = 0
  <2> DEFINE low == Numbers[inode.i_block[EXT2_NDIR_BLOCKS]][0]
             high == Numbers[inode.i_block[EXT2_NDIR_BLOCKS]][1]
  <2>1. low \in 0 .. WORD - 1 /\ FileBlock(Numbers, inode, pos[1]) = low
        /\ FileBlock(Wide, inode, pos[1]) = low + WORD * high
    BY PairIsNumber
  <2>2. high = 0 /\ WORD \in Nat
    BY <1>2, DiskAssumption
  <2> HIDE DEF low, high
  <2>3. low + WORD * high = low
    BY <2>1, <2>2
  <2> QED BY <1>2, <2>1, <2>3
<1> QED BY <1>1, <1>2 DEF ReadRight

(* A directory of which all blocks have been read: there is one at most    *)
(* behind its direct pointers, for else the first two would have been      *)
(* joined to what is no block.                                             *)
LEMMA DirectoryIsRight ==
  ASSUME NEW inode, DirectoryOK(inode), NEW n \in Nat, n = BYTES_ALIGN_TO_BLOCKS(inode.i_size),
         \A q \in 0 .. n - 1 : FileBlock(Wide, inode, q) \in DOMAIN Disk,
         NEW q \in 0 .. n - 1
  PROVE  FileBlock(Wide, inode, q) = FileBlock(Numbers, inode, q)
<1>1. PointersOK(inode) /\ \A x \in 0 .. n - 1 : FileBlock(Numbers, inode, x) # 0
  BY DEF DirectoryOK
<1>2. pos[1] \in Nat
  BY Sizes
<1>3. CASE q < pos[1]
  BY <1>3 DEF FileBlock
<1>4. CASE q >= pos[1]
  <2> DEFINE low == Numbers[inode.i_block[EXT2_NDIR_BLOCKS]][0]
             high == Numbers[inode.i_block[EXT2_NDIR_BLOCKS]][1]
             x == FileBlock(Wide, inode, pos[1])
  <2>1. /\ low \in 0 .. WORD - 1 /\ high \in 0 .. WORD - 1
        /\ x = low + WORD * high /\ FileBlock(Numbers, inode, pos[1] + 1) = high
    BY <1>1, PairIsNumber
  <2>2. x \in 0 .. WORD - 1 /\ WORD \in Nat
    <3>1. pos[1] \in 0 .. n - 1
      BY <1>2, <1>4
    <3> QED BY <3>1, DiskAssumption
  <2> HIDE DEF low, high, x
  <2>3. high = 0
    <3>1. CASE high >= 1
      <4>1. WORD * high >= WORD
        BY <2>1, <2>2, <3>1
      <4> QED BY <2>1, <2>2, <4>1
    <3> QED BY <2>1, <3>1
  <2>4. q = pos[1]
    <3>1. CASE q >= pos[1] + 1
      <4>1. pos[1] + 1 \in 0 .. n - 1
        BY <1>2, <3>1
      <4> QED BY <1>1, <2>1, <2>3, <4>1
    <3> QED BY <1>2, <1>4, <3>1
  <2>5. ReadRight(inode, q)
    BY <2>3, <2>4 DEF ReadRight, high
  <2> QED BY <1>1, <2>5, ReadIsRight
<1> QED BY <1>2, <1>3, <1>4

(* The invariant has what the runs check.                                  *)
LEMMA InvGives ==
  ASSUME IInv
  PROVE  TypeOK /\ ReadsRange /\ FaultsWhereLost /\ MemoryReturned
<1>1. \A k \in 1 .. Len(calls) : ActivationOK(calls[k])
  <2>1. CASE Busy
    <3>1. PICK m \in Nat : Chain(ip, calls, want.from + Len(buf), m)
      BY <2>1 DEF IInv, Reading, Rest
    <3>2. PICK at \in [1 .. Len(calls) + 1 -> Nat] : ChainAt(ip, calls, at, want.from + Len(buf), m)
      BY <3>1 DEF Chain
    <3>3. ASSUME NEW k \in 1 .. Len(calls)
          PROVE  ActivationOK(calls[k])
      <4>1. Len(calls) \in Nat
        BY <3>1 DEF Chain
      <4>2. at[k] \in Nat /\ Good(ip, calls[k], at[k])
        BY <3>2, <4>1 DEF ChainAt
      <4> QED BY <4>2, GoodIsOK
    <3> QED BY <3>3
  <2>2. CASE ~Busy
    BY <2>2 DEF IInv, Reading
  <2> QED BY <2>1, <2>2
<1>2. Len(buf) \in Nat /\ want.from \in Nat /\ want.n \in Nat
  BY DEF IInv, Typing
<1>3. Len(buf) <= want.n
  <2>1. CASE Busy
    <3>1. PICK m \in Nat : /\ Chain(ip, calls, want.from + Len(buf), m)
                           /\ Parts(todo, m, want.from + want.n)
      BY <2>1 DEF IInv, Reading, Rest
    <3>2. want.from + Len(buf) <= m /\ m <= want.from + want.n
      BY <3>1, ChainEnds, PartsEnd
    <3> QED BY <1>2, <3>2
  <2>2. CASE ~Busy
    BY <1>2, <2>2 DEF IInv, Reading
  <2> QED BY <2>1, <2>2
<1>4. TypeOK
  BY <1>1, <1>3 DEF IInv, Typing, TypeOK
<1>5. ReadsRange
  <2>1. buf # <<>> => PointersOK(ip)
    BY DEF IInv, Reading
  <2>2. ASSUME NEW j \in 1 .. Len(buf), ReadRight(ip, want.from + j - 1)
        PROVE  buf[j] = FileBlock(Numbers, ip, want.from + j - 1)
    <3>1. buf # <<>>
      OBVIOUS
    <3>2. buf[j] = FileBlock(Wide, ip, want.from + j - 1)
      BY DEF IInv, Reading
    <3> QED BY <2>1, <2>2, <3>1, <3>2, ReadIsRight
  <2>3. \A j \in 1 .. Len(buf) : buf[j] = FileBlock(Wide, ip, want.from + j - 1)
    BY DEF IInv, Reading
  <2>4. ~Busy => Len(buf) = want.n
    BY DEF IInv, Reading
  <2> QED BY <2>2, <2>3, <2>4 DEF IInv, Subject, ReadsRange, Busy
<1>6. MemoryReturned
  BY DEF IInv, Typing, Reading, Busy, Accounts, Inner, Held, MemoryReturned
<1>7. FaultsWhereLost
  <2> DEFINE q == want.from + Len(buf)
  <2>1. ASSUME pc = "oops"
        PROVE  q >= EXT2_NDIR_BLOCKS /\ ~FileBlockOnDisk(Wide, ip, q)
    <3>1. ~FileBlockOnDisk(Wide, ip, q) /\ PointersOK(ip)
      BY <2>1 DEF IInv, Reading, Busy
    <3>2. q \in Nat /\ EXT2_NDIR_BLOCKS \in Nat /\ pos[1] = EXT2_NDIR_BLOCKS
      <4>1. q \in Nat
        BY <1>2
      <4>2. EXT2_NDIR_BLOCKS \in Nat
        BY ReaderAssumption
      <4>3. pos[1] = EXT2_NDIR_BLOCKS
        BY DEF pos
      <4> QED BY <4>1, <4>2, <4>3
    <3> HIDE DEF q
    <3>3. CASE q < EXT2_NDIR_BLOCKS
      <4>1. q \in 0 .. EXT2_NDIR_BLOCKS + 2
        BY <3>2, <3>3
      <4>2. ip.i_block[q] \in DOMAIN Disk
        BY <3>1, <4>1 DEF PointersOK
      <4> QED BY <3>1, <3>2, <3>3, <4>2 DEF FileBlockOnDisk
    <3> QED BY <3>1, <3>2, <3>3
  <2> QED BY <2>1 DEF FaultsWhereLost
<1> QED BY <1>4, <1>5, <1>6, <1>7

LEMMA InitInv == Init => IInv
<1> SUFFICES ASSUME Init PROVE IInv
  OBVIOUS
<1>1. Typing
  BY DEF Init, Typing
<1>2. Reading /\ Subject
  BY DEF Init, Reading, Subject, Busy
<1>3. Walk
  BY DEF Init, Walk
<1>4. Accounts
  BY DEF Init, Accounts, Inner, Held
<1> QED BY <1>1, <1>2, <1>3, <1>4 DEF IInv

----------------------------------------------------------------------------
(* Reading keeps the invariant.                                            *)

LEMMA KeepCallReader ==
  ASSUME IInv, CallReader
  PROVE  IInv'
<1> DEFINE c == Head(todo)
           d == Enter(c.level, TopBlock(ip, c.level), c.from, c.n)
           e == want.from + want.n
<1>1. /\ pc = "read" /\ calls = <<>> /\ todo # <<>> /\ todo' = Tail(todo)
      /\ UNCHANGED <<pc, ip, want, buf, dirs, listing>>
  BY DEF CallReader
<1>2. PICK m \in Nat : Chain(ip, calls, want.from + Len(buf), m) /\ Parts(todo, m, e)
  BY <1>1 DEF IInv, Reading, Rest, Busy
<1>3. want.from + Len(buf) = m
  BY <1>1, <1>2, ChainEnds
<1>4. c \in PartRec /\ PartAt(c, m) /\ Parts(Tail(todo), m + c.n, e)
  BY <1>1, <1>2, PartsTail
<1>5. c.n \in Nat /\ c.level \in 0 .. 3
  BY <1>4 DEF PartRec
<1>6. m + c.n <= e /\ e \in Nat
  BY <1>4, PartsEnd
<1>7. Typing' /\ Subject' /\ Walk'
  <2>1. heap' \in Nat /\ deep' \in Nat
    BY DEF CallReader, IInv, Typing
  <2>2. Typing'
    BY <1>1, <2>1 DEF IInv, Typing
  <2> QED BY <1>1, <2>2 DEF IInv, Subject, Busy, Walk
<1>8. CASE c.n = 0
  <2>1. UNCHANGED <<calls, heap, deep>>
    BY <1>8 DEF CallReader
  <2>2. Parts(Tail(todo), m, e)
    BY <1>4, <1>8
  <2>3. Rest'
    BY <1>1, <1>2, <2>1, <2>2 DEF Rest
  <2>4. Reading'
    BY <1>1, <2>3 DEF IInv, Reading, Busy
  <2>5. Accounts'
    BY <1>1, <2>1 DEF IInv, Accounts, Inner, Held
  <2> QED BY <1>7, <2>4, <2>5 DEF IInv
<1>9. CASE c.n # 0
  <2>1. /\ calls' = <<d>>
        /\ heap' = IF c.level = 0 THEN heap ELSE heap + 1
        /\ deep' = IF c.level < 2 THEN deep ELSE deep + 1
    BY <1>9 DEF CallReader, TopBlock
  <2>2. PointersOK(ip)
    BY <1>1 DEF IInv, Reading, Busy
  <2>3. Good(ip, d, m) /\ d.n = c.n /\ d.level = c.level
    BY <1>4, <1>9, <2>2, GoodPart
  <2> HIDE DEF d
  <2>4. d \in ActRec
    BY <2>3 DEF Good
  <2>5. Chain(ip, <<>>, m + c.n, m + c.n)
    BY <1>5, EmptyChain
  <2>6. <<d>> \o <<>> = <<d>> /\ Len(<<>>) = 0
    OBVIOUS
  <2>7. Chain(ip, <<d>> \o <<>>, m, m + c.n)
    <3>1. \A k \in 1 .. Len(<<>>) : <<>>[k].level >= 2
      BY <2>6
    <3>2. m + c.n = m + d.n
      BY <2>3
    <3> HIDE DEF c
    <3> QED BY <2>3, <2>5, <3>1, <3>2, ChainCons
  <2>8. Chain(ip, calls', m, m + c.n)
    BY <2>1, <2>6, <2>7
  <2>9. m + c.n \in Nat
    BY <1>5
  <2>10. Rest'
    BY <1>1, <1>3, <1>4, <2>8, <2>9 DEF Rest
  <2>11. Reading'
    BY <1>1, <2>10 DEF IInv, Reading, Busy
  <2>12. Accounts'
    <3>1. calls' # <<>> /\ calls'[1].level = c.level
      BY <2>1, <2>3
    <3>2. Inner' = IF c.level = 1 THEN 1 ELSE 0
      BY <3>1 DEF Inner
    <3>3. Inner = 0 /\ Held' = Held
      BY <1>1 DEF Inner, Held
    <3>4. Held \in Nat
      BY DEF Held, IInv, Typing
    <3> QED BY <1>5, <2>1, <3>2, <3>3, <3>4 DEF IInv, Typing, Accounts
  <2> QED BY <1>7, <2>11, <2>12 DEF IInv
<1> QED BY <1>8, <1>9

LEMMA KeepFollowPointer ==
  ASSUME IInv, FollowPointer
  PROVE  IInv'
<1> DEFINE c    == Head(calls)
           last == c.n <= Count(c)
           rest == IF last THEN Tail(calls) ELSE <<Past(c)>> \o Tail(calls)
           a    == want.from + Len(buf)
<1>1. pc = "read" /\ calls # <<>> /\ Pointer(c) \in DOMAIN Disk
      /\ UNCHANGED <<pc, ip, want, todo, dirs, listing>>
  BY DEF FollowPointer
<1>2. PICK m \in Nat : Chain(ip, calls, a, m) /\ Parts(todo, m, want.from + want.n)
  BY <1>1 DEF IInv, Reading, Rest, Busy
<1>3. calls \in Seq(ActRec)
  BY <1>2 DEF Chain
<1>4. c = calls[1] /\ Tail(calls) \in Seq(ActRec) /\ Len(Tail(calls)) \in Nat
  BY <1>1, <1>3
<1>5. /\ Good(ip, c, a) /\ Chain(ip, Tail(calls), a + c.n, m)
      /\ \A k \in 1 .. Len(Tail(calls)) : Tail(calls)[k].level >= 2
  BY <1>1, <1>2, <1>4, ChainTail
<1>6. want.from \in Nat /\ want.n \in Nat /\ Len(buf) \in Nat /\ a \in Nat /\ heap \in Nat /\ deep \in Nat
      /\ buf \in Seq(DOMAIN Disk)
  BY DEF IInv, Typing
<1>7. c.level \in 0 .. 3 /\ c.n \in Nat /\ c.n >= 1
  BY <1>5, AtIsNat DEF Good, InBlock
<1>8. Held' = Held /\ Held \in Nat
  BY <1>1 DEF Held, IInv, Typing
<1>9. Inner = (IF c.level = 1 THEN 1 ELSE 0)
  BY <1>1, <1>4 DEF Inner
<1>10. CASE c.level < 2
  <2>1. /\ buf' = Append(buf, Pointer(c)) /\ calls' = rest /\ deep' = deep
        /\ heap' = IF last /\ c.level = 1 THEN heap - 1 ELSE heap
    BY <1>7, <1>10 DEF FollowPointer, Past
  <2>2. Pointer(c) = FileBlock(Wide, ip, a) /\ Pointer(c) \in DOMAIN Disk /\ Count(c) = 1
    BY <1>1, <1>5, <1>6, <1>10, GoodReads
  <2>3. Len(buf') = Len(buf) + 1 /\ buf' \in Seq(DOMAIN Disk)
        /\ buf'[Len(buf) + 1] = Pointer(c) /\ \A j \in 1 .. Len(buf) : buf'[j] = buf[j]
    BY <1>6, <2>1, <2>2
  <2>4. /\ Chain(ip, rest, a + 1, m)
        /\ rest # <<>> => rest[1].level = (IF last THEN Tail(calls)[1].level ELSE c.level)
        /\ last => (rest # <<>> => rest[1].level >= 2)
    <3>1. CASE last
      <4>1. c.n = 1 /\ rest = Tail(calls)
        BY <1>7, <2>2, <3>1
      <4>2. rest # <<>> => 1 \in 1 .. Len(rest)
        BY <1>4, <4>1
      <4> HIDE DEF rest, c, a
      <4> QED BY <1>5, <3>1, <4>1, <4>2
    <3>2. CASE ~last
      <4>1. c.n > Count(c)
        BY <1>7, <2>2, <3>2
      <4>2. /\ Good(ip, Past(c), a + Count(c)) /\ Past(c).n = c.n - Count(c)
            /\ Past(c).level = c.level
        BY <1>5, <1>6, <4>1, GoodPast
      <4>3. a + 1 \in Nat /\ a + c.n = (a + 1) + Past(c).n /\ Good(ip, Past(c), a + 1)
        BY <1>6, <1>7, <2>2, <4>2
      <4>4. Chain(ip, <<Past(c)>> \o Tail(calls), a + 1, m)
        BY <1>5, <4>3, ChainCons
      <4>5. (<<Past(c)>> \o Tail(calls))[1] = Past(c)
        BY <1>4, <4>3, ConsOfSeq DEF Good
      <4> QED BY <3>2, <4>2, <4>4, <4>5
    <3> QED BY <3>1, <3>2
  <2> HIDE DEF rest
  <2>5. want.from + Len(buf') = a + 1
    BY <1>6, <2>3
  <2>6. Rest'
    BY <1>1, <1>2, <2>1, <2>4, <2>5 DEF Rest
  <2>7. \A j \in 1 .. Len(buf') : buf'[j] = FileBlock(Wide, ip, want.from + j - 1)
    <3>1. SUFFICES ASSUME NEW j \in 1 .. Len(buf')
                   PROVE  buf'[j] = FileBlock(Wide, ip, want.from + j - 1)
      OBVIOUS
    <3>2. CASE j \in 1 .. Len(buf)
      BY <2>3, <3>2 DEF IInv, Reading
    <3>3. CASE j = Len(buf) + 1
      <4>1. want.from + j - 1 = a
        BY <1>6, <3>3
      <4> QED BY <2>2, <2>3, <3>3, <4>1
    <3> QED BY <1>6, <2>3, <3>2, <3>3
  <2>8. Reading'
    BY <1>1, <2>6, <2>7 DEF IInv, Reading, Busy
  <2>9. Inner' = (IF c.level = 1 /\ ~last THEN 1 ELSE 0)
    <3>1. ~last => rest # <<>> /\ rest[1].level = c.level
      <4>1. (<<Past(c)>> \o Tail(calls)) # <<>>
        BY <1>4
      <4> QED BY <2>4, <4>1 DEF rest
    <3>2. last /\ rest # <<>> => rest[1].level >= 2 /\ rest[1].level \in 0 .. 3
      <4>1. rest # <<>> => rest[1] \in ActRec
        BY <2>4, TailOfSeq DEF Chain
      <4> QED BY <2>4, <4>1, AtIsNat
    <3> HIDE DEF last
    <3> QED BY <1>7, <2>1, <3>1, <3>2 DEF Inner
  <2>10. heap' \in Nat /\ Accounts'
    <3> HIDE DEF last
    <3> QED BY <1>6, <1>7, <1>8, <1>9, <2>1, <2>9 DEF IInv, Accounts
  <2>11. Typing' /\ Subject' /\ Walk'
    <3>1. Typing'
      BY <1>1, <2>1, <2>3, <2>10 DEF IInv, Typing
    <3> QED BY <1>1, <3>1 DEF IInv, Subject, Busy, Walk
  <2> QED BY <2>8, <2>10, <2>11 DEF IInv
<1>11. CASE c.level >= 2
  <2>1. /\ calls' = <<Below(c)>> \o rest /\ heap' = heap + 1 /\ buf' = buf
        /\ deep' = IF c.level = 3 THEN deep + 1 ELSE deep
    BY <1>7, <1>11 DEF FollowPointer, Past, Below
  <2>2. /\ Good(ip, Below(c), a)
        /\ Below(c).n = Least(c.n, Count(c)) /\ Below(c).level = c.level - 1
    BY <1>1, <1>5, <1>6, <1>11, GoodBelow
  <2>3. /\ Chain(ip, rest, a + Below(c).n, m)
        /\ \A k \in 1 .. Len(rest) : rest[k].level >= 2
    <3>1. CASE last
      <4>1. Below(c).n = c.n /\ rest = Tail(calls)
        BY <2>2, <3>1 DEF Least
      <4> HIDE DEF rest, c, a
      <4> QED BY <1>5, <4>1
    <3>2. CASE ~last
      <4>1. Count(c) \in Int
        <5>1. c \in ActRec
          BY <1>5 DEF Good
        <5> QED BY <5>1, AtIsNat DEF Count
      <4>2. c.n > Count(c)
        BY <1>7, <3>2, <4>1
      <4>3. /\ Good(ip, Past(c), a + Count(c)) /\ Past(c).n = c.n - Count(c)
            /\ Past(c).level = c.level /\ Count(c) \in Nat
        BY <1>5, <1>6, <4>2, GoodPast
      <4>4. Below(c).n = Count(c)
        BY <2>2, <3>2 DEF Least
      <4>5. a + Count(c) \in Nat /\ a + c.n = (a + Count(c)) + Past(c).n
        BY <1>6, <1>7, <4>3
      <4>6. Chain(ip, <<Past(c)>> \o Tail(calls), a + Count(c), m)
        BY <1>5, <4>3, <4>5, ChainCons
      <4>7. Past(c) \in ActRec
        BY <4>3 DEF Good
      <4>8. /\ Len(<<Past(c)>> \o Tail(calls)) = Len(Tail(calls)) + 1
            /\ (<<Past(c)>> \o Tail(calls))[1] = Past(c)
            /\ \A k \in 2 .. Len(Tail(calls)) + 1 : (<<Past(c)>> \o Tail(calls))[k] = Tail(calls)[k - 1]
        BY <1>4, <4>7, ConsOfSeq
      <4>9. rest = <<Past(c)>> \o Tail(calls)
        BY <3>2
      <4> HIDE DEF rest
      <4>10. \A k \in 1 .. Len(rest) : rest[k].level >= 2
        <5>1. SUFFICES ASSUME NEW k \in 1 .. Len(rest) PROVE rest[k].level >= 2
          OBVIOUS
        <5>2. CASE k = 1
          BY <1>11, <4>3, <4>8, <4>9, <5>2
        <5>3. CASE k # 1
          <6>1. k - 1 \in 1 .. Len(Tail(calls)) /\ rest[k] = Tail(calls)[k - 1]
            BY <1>4, <4>8, <4>9, <5>3
          <6> QED BY <1>5, <6>1
        <5> QED BY <5>2, <5>3
      <4> QED BY <4>4, <4>6, <4>9, <4>10
    <3> QED BY <3>1, <3>2
  <2> HIDE DEF rest
  <2>4. Below(c) \in ActRec /\ Below(c).n \in Nat
    BY <2>2, AtIsNat DEF Good
  <2>5. Chain(ip, calls', a, m)
    BY <1>6, <2>1, <2>2, <2>3, <2>4, ChainCons
  <2>6. Rest'
    BY <1>1, <1>2, <2>1, <2>5 DEF Rest
  <2>7. Reading'
    BY <1>1, <2>1, <2>6 DEF IInv, Reading, Busy
  <2>8. Inner' = (IF c.level = 2 THEN 1 ELSE 0)
    <3>1. rest \in Seq(ActRec)
      BY <2>3 DEF Chain
    <3>2. calls' # <<>> /\ calls'[1] = Below(c)
      BY <2>1, <2>4, <3>1, ConsOfSeq
    <3> QED BY <1>7, <1>11, <2>2, <3>2 DEF Inner
  <2>9. heap' \in Nat /\ deep' \in Nat /\ Accounts'
    BY <1>6, <1>7, <1>8, <1>9, <1>11, <2>1, <2>8 DEF IInv, Accounts
  <2>10. Typing' /\ Subject' /\ Walk'
    <3>1. Typing'
      BY <1>1, <2>1, <2>9 DEF IInv, Typing
    <3> QED BY <1>1, <3>1 DEF IInv, Subject, Busy, Walk
  <2> QED BY <2>7, <2>9, <2>10 DEF IInv
<1> QED BY <1>7, <1>10, <1>11

LEMMA KeepFault ==
  ASSUME IInv, Fault
  PROVE  IInv'
<1> DEFINE c == Head(calls)
           a == want.from + Len(buf)
<1>1. /\ pc = "read" /\ pc' = "oops" /\ calls # <<>> /\ Pointer(c) \notin DOMAIN Disk
      /\ UNCHANGED <<ip, want, todo, calls, buf, dirs, listing, heap, deep>>
  BY DEF Fault, reading
<1>2. PICK m \in Nat : Chain(ip, calls, a, m)
  BY <1>1 DEF IInv, Reading, Rest, Busy
<1>3. c = calls[1] /\ a \in Nat
  <2>1. calls \in Seq(ActRec)
    BY <1>2 DEF Chain
  <2> QED BY <1>1, <1>2, <2>1, ChainEnds
<1>4. Good(ip, c, a)
  BY <1>1, <1>2, <1>3, ChainTail
<1>5. ~FileBlockOnDisk(Wide, ip, a)
  BY <1>1, <1>3, <1>4, FaultIsLost
<1>6. Reading'
  <2>1. Busy /\ Busy' /\ Rest /\ Rest'
    BY <1>1 DEF IInv, Reading, Rest, Busy
  <2>2. (want.from + Len(buf))' = a
    BY <1>1
  <2> QED BY <1>1, <1>5, <2>1, <2>2 DEF IInv, Reading
<1>7. Typing' /\ Subject' /\ Walk'
  BY <1>1 DEF IInv, Typing, Subject, Busy, Walk
<1>8. Accounts'
  BY <1>1 DEF IInv, Accounts, Inner, Held
<1> QED BY <1>6, <1>7, <1>8 DEF IInv

LEMMA KeepReturnBlocks ==
  ASSUME IInv, ReturnBlocks
  PROVE  IInv'
<1>1. /\ pc = "read" /\ calls = <<>> /\ todo = <<>> /\ dirs = <<>> /\ pc' = "idle" /\ heap' = heap - 1
      /\ UNCHANGED <<ip, want, todo, calls, buf, dirs, listing, deep>>
  BY DEF ReturnBlocks, AllRead, reading
<1>2. PICK m \in Nat : Chain(ip, calls, want.from + Len(buf), m) /\ Parts(todo, m, want.from + want.n)
  BY <1>1 DEF IInv, Reading, Rest, Busy
<1>3. want.from \in Nat /\ want.n \in Nat /\ Len(buf) \in Nat /\ heap \in Nat /\ deep \in Nat
  BY DEF IInv, Typing
<1>4. Len(buf) = want.n
  <2>1. want.from + Len(buf) = m /\ m = want.from + want.n
    BY <1>1, <1>2, ChainEnds, PartsEnd
  <2> QED BY <1>3, <2>1
<1>5. Reading' /\ Subject' /\ Walk'
  BY <1>1, <1>4 DEF IInv, Reading, Subject, Busy, Walk
<1>6. Accounts' /\ heap' \in Nat
  BY <1>1, <1>3 DEF IInv, Accounts, Inner, Held
<1>7. Typing'
  BY <1>1, <1>6 DEF IInv, Typing
<1> QED BY <1>5, <1>6, <1>7 DEF IInv

----------------------------------------------------------------------------
(* The walk keeps the invariant.                                           *)

LEMMA BlockOfByte ==
  ASSUME NEW size \in Nat
  PROVE  /\ BYTES_ALIGN_TO_BLOCKS(size) \in Nat
         /\ \A s \in 0 .. size - 1 :
              /\ s \div EXT2_BLOCK_SIZE \in Nat
              /\ s \div EXT2_BLOCK_SIZE + 1 <= BYTES_ALIGN_TO_BLOCKS(size)
<1> DEFINE B == EXT2_BLOCK_SIZE
           w == BYTES_ALIGN_TO_BLOCKS(size)
<1>1. B \in Nat \ {0}
  BY ReaderAssumption
<1>2. w = (size + B - 1) \div B
  BY DEF BYTES_ALIGN_TO_BLOCKS
<1> HIDE DEF B, w
<1> DEFINE z == size + B - 1
           r == z % B
<1>3. z \in Nat
  BY <1>1
<1>4. w \in Int /\ r \in 0 .. B - 1 /\ z = B * w + r
  BY <1>1, <1>2, <1>3
<1> HIDE DEF r
<1>5. w >= 0
  <2>1. CASE w <= -1
    <3>1. B * w <= -B
      BY <1>1, <1>4, <2>1
    <3> HIDE DEF z
    <3> QED BY <1>1, <1>3, <1>4, <3>1
  <2> QED BY <1>4, <2>1
<1>6. ASSUME NEW s \in 0 .. size - 1
      PROVE  s \div B \in Nat /\ s \div B + 1 <= w
  <2> DEFINE q == s \div B
             y == s % B
  <2>1. q \in Int /\ y \in 0 .. B - 1 /\ s = B * q + y
    BY <1>1
  <2> HIDE DEF q, y
  <2>2. q >= 0
    <3>1. CASE q <= -1
      <4>1. B * q <= -B
        BY <1>1, <2>1, <3>1
      <4> QED BY <1>1, <2>1, <4>1
    <3> QED BY <2>1, <3>1
  <2>3. q + 1 <= w
    <3>1. CASE w <= q
      <4>1. B * w <= B * q
        BY <1>1, <1>4, <2>1, <3>1
      <4>2. z >= s + B
        BY <1>1
      <4> HIDE DEF z
      <4> QED BY <1>1, <1>3, <1>4, <2>1, <4>1, <4>2
    <3> QED BY <1>4, <2>1, <3>1
  <2> QED BY <2>1, <2>2, <2>3 DEF q
<1> QED BY <1>4, <1>5, <1>6 DEF B, w

(* A directory in use can be entered.                                      *)
LEMMA DirectoryInUse ==
  ASSUME NEW ino \in InodesInUse
  PROVE  LET inode == read_ext2_inode(ino)
         IN  /\ inode.i_size \in Nat /\ Blocks(inode) \in Nat
             /\ inode.dir =>
                  /\ Blocks(inode) <= pos[4] /\ PointersOK(inode) /\ DirectoryOK(inode)
                  /\ \E starts \in SUBSET (0 .. inode.i_size - 1) : ChainOfEntries(inode, starts)
<1> DEFINE inode == read_ext2_inode(ino)
<1>1. inode.i_size \in Nat /\ (inode.dir => DirectoryOK(inode))
  BY TreeAssumption
<1> HIDE DEF inode
<1>2. Blocks(inode) \in Nat
  BY <1>1, BlockOfByte DEF Blocks
<1>3. inode.dir => /\ Blocks(inode) <= pos[4] /\ PointersOK(inode)
                   /\ \E starts \in SUBSET (0 .. inode.i_size - 1) : ChainOfEntries(inode, starts)
  BY <1>1 DEF DirectoryOK, Blocks
<1> QED BY <1>1, <1>2, <1>3 DEF inode

(* A call of read_ext2_file_blocks or read_whole_ext2_file begins.         *)
LEMMA BeginRead ==
  ASSUME NEW inode, NEW from \in Nat, NEW n \in Nat, NEW parts,
         Parts(parts, from, from + n), PointersOK(inode),
         calls = <<>>, Read(inode, from, n, parts)
  PROVE  /\ Reading' /\ pc' = "read" /\ ip' = inode /\ want' = [from |-> from, n |-> n]
         /\ want' \in [from : Nat, n : Nat] /\ buf' \in Seq(DOMAIN Disk) /\ Inner' = 0
<1>1. /\ ip' = inode /\ want' = [from |-> from, n |-> n] /\ todo' = parts
      /\ buf' = <<>> /\ pc' = "read" /\ calls' = <<>>
  BY DEF Read
<1>2. want'.from = from /\ want'.n = n /\ Len(buf') = 0 /\ from + 0 = from
  BY <1>1
<1>3. Chain(inode, <<>>, from, from)
  BY EmptyChain
<1>4. Rest'
  BY <1>1, <1>2, <1>3 DEF Rest
<1>5. Reading'
  BY <1>1, <1>2, <1>4 DEF Reading, Busy
<1> QED BY <1>1, <1>5 DEF Inner

LEMMA KeepReadFileBlocks ==
  ASSUME IInv, NEW r \in FileReads, ReadFileBlocks(r[1], r[2], r[3])
  PROVE  IInv'
<1> DEFINE inode == read_ext2_inode(r[1])
           from == r[2]
           n == r[3]
<1>1. /\ pc = "idle" /\ Read(inode, from, n, FileParts(from, n))
      /\ heap' = 1 /\ deep' = 0 /\ dirs' = dirs
  BY DEF ReadFileBlocks
<1>2. calls = <<>> /\ dirs = <<>>
  BY <1>1 DEF IInv, Reading, Busy, Walk
<1>3. from \in Nat /\ n \in Nat \ {0} /\ from + n <= pos[4] /\ PointersOK(inode)
  BY RangesAssumption
<1> HIDE DEF inode, from, n
<1>4. Parts(FileParts(from, n), from, from + n)
  BY <1>3, FilePartsCover
<1>5. /\ Reading' /\ pc' = "read" /\ ip' = inode /\ want' = [from |-> from, n |-> n]
      /\ want' \in [from : Nat, n : Nat] /\ buf' \in Seq(DOMAIN Disk) /\ Inner' = 0
  BY <1>1, <1>2, <1>3, <1>4, BeginRead
<1>6. Typing'
  BY <1>1, <1>5 DEF IInv, Typing
<1>7. Subject'
  <2>1. want'.from = from /\ want'.n = n
    BY <1>5
  <2> QED BY <1>1, <1>2, <1>5, <2>1 DEF Subject, inode, from, n
<1>8. Walk'
  BY <1>1, <1>2, <1>5 DEF Walk
<1>9. Accounts'
  BY <1>1, <1>2, <1>5 DEF Accounts, Held
<1> QED BY <1>5, <1>6, <1>7, <1>8, <1>9 DEF IInv

LEMMA KeepListDirectory ==
  ASSUME IInv, ListDirectory
  PROVE  IInv'
<1> DEFINE d == dirs[1]
           full == [d EXCEPT !.fdata = buf]
<1>1. /\ pc = "read" /\ calls = <<>> /\ todo = <<>> /\ dirs # <<>> /\ pc' = "list"
      /\ dirs' = [dirs EXCEPT ![1] = full]
      /\ UNCHANGED <<ip, want, todo, calls, buf, listing, heap, deep>>
  BY DEF ListDirectory, AllRead, reading
<1>2. PICK m \in Nat : Chain(ip, calls, want.from + Len(buf), m) /\ Parts(todo, m, want.from + want.n)
  BY <1>1 DEF IInv, Reading, Rest, Busy
<1>3. want.from \in Nat /\ want.n \in Nat /\ Len(buf) \in Nat
      /\ dirs \in Seq(DirRec) /\ buf \in Seq(DOMAIN Disk)
  BY DEF IInv, Typing
<1>4. Len(buf) = want.n
  <2>1. want.from + Len(buf) = m /\ m = want.from + want.n
    BY <1>1, <1>2, ChainEnds, PartsEnd
  <2> QED BY <1>3, <2>1
<1>5. d \in DirRec /\ Len(dirs) \in Nat \ {0} /\ 1 \in 1 .. Len(dirs)
  BY <1>1, <1>3
<1>6. /\ full \in DirRec /\ full.fdata = buf /\ full.ip = d.ip /\ full.size = d.size
  BY <1>3, <1>5 DEF DirRec
<1>7. d.ip = ip /\ want.from = 0 /\ want.n = Blocks(ip)
  BY <1>1 DEF IInv, Subject, Busy
<1>8. Loaded(full)
  <2>1. Len(buf) = Blocks(d.ip)
    BY <1>4, <1>7
  <2>2. \A j \in 1 .. Len(buf) : buf[j] = FileBlock(Wide, d.ip, j - 1)
    <3>1. SUFFICES ASSUME NEW j \in 1 .. Len(buf) PROVE buf[j] = FileBlock(Wide, d.ip, j - 1)
      OBVIOUS
    <3>2. want.from + j - 1 = j - 1
      BY <1>3, <1>7
    <3> QED BY <1>7, <3>2 DEF IInv, Reading
  <2> QED BY <1>6, <2>1, <2>2 DEF Loaded
<1>9. Placed(full)
  <2>1. Placed(d)
    BY <1>5 DEF IInv, Walk
  <2> QED BY <1>6, <2>1 DEF Placed
<1> HIDE DEF full
<1>10. /\ dirs' \in Seq(DirRec) /\ Len(dirs') = Len(dirs) /\ dirs'[1] = full
       /\ \A k \in 2 .. Len(dirs) : dirs'[k] = dirs[k]
  BY <1>1, <1>3, <1>5, <1>6
<1>11. Walk'
  <2>1. ASSUME NEW k \in 1 .. Len(dirs)
        PROVE  Placed(dirs'[k]) /\ Loaded(dirs'[k])
    <3>1. CASE k = 1
      BY <1>8, <1>9, <1>10, <3>1
    <3>2. CASE k # 1
      <4>1. k \in 2 .. Len(dirs) /\ k > 1
        BY <1>5, <3>2
      <4> QED BY <1>10, <4>1 DEF IInv, Walk
    <3> QED BY <3>1, <3>2
  <2>2. dirs' # <<>>
    BY <1>5, <1>10
  <2> QED BY <1>1, <1>10, <2>1, <2>2 DEF Walk
<1>12. Typing'
  BY <1>1, <1>10 DEF IInv, Typing
<1>13. Reading' /\ Subject'
  BY <1>1, <1>4 DEF IInv, Reading, Subject, Busy
<1>14. Accounts'
  <2>1. dirs' # <<>>
    BY <1>5, <1>10
  <2> QED BY <1>1, <1>10, <2>1 DEF IInv, Accounts, Inner, Held
<1> QED BY <1>11, <1>12, <1>13, <1>14 DEF IInv

(* visit_ext2_dir is called, by traverse_ext2_fs or for an entry of the    *)
(* directory that is being listed.                                         *)
LEMMA KeepVisit ==
  ASSUME IInv, pc \in {"idle", "list"},
         NEW ino \in InodesInUse, NEW depth \in Nat, NEW held \in Nat, NEW above \in Seq(DirRec),
         \A k \in 1 .. Len(above) : Placed(above[k]) /\ Loaded(above[k]),
         pc = "list" <=> above # <<>>,
         Visit(ino, depth, above, held), deep' \in Nat, held = deep' + 3 * Len(above)
  PROVE  IInv'
<1> DEFINE inode == read_ext2_inode(ino)
           n     == Blocks(inode)
           new   == [ip |-> inode, fdata |-> <<>>, size |-> 0, depth |-> depth]
<1>1. calls = <<>> /\ todo = <<>> /\ Len(above) \in Nat
  BY DEF IInv, Reading, Busy
<1>2. CASE inode.dir
  <2>1. /\ Read(inode, 0, n, WholeParts(n)) /\ dirs' = <<new>> \o above /\ heap' = held + 3
    BY <1>2 DEF Visit, Blocks
  <2>2. /\ inode.i_size \in Nat /\ n \in Nat /\ n <= pos[4] /\ PointersOK(inode)
    BY <1>2, DirectoryInUse
  <2>3. PICK starts \in SUBSET (0 .. inode.i_size - 1) : ChainOfEntries(inode, starts)
    BY <1>2, DirectoryInUse
  <2>4. inode \in {read_ext2_inode(i) : i \in InodesInUse}
    OBVIOUS
  <2>5. new \in DirRec /\ new.ip = inode /\ new.size = 0
    BY <2>4 DEF DirRec
  <2>6. Placed(new)
    <3>1. 0 \in starts \cup {inode.i_size}
      BY <2>2, <2>3 DEF ChainOfEntries
    <3> HIDE DEF inode, new
    <3> QED BY <1>2, <2>3, <2>5, <3>1 DEF Placed
  <2> HIDE DEF new
  <2>7. /\ dirs' \in Seq(DirRec) /\ Len(dirs') = Len(above) + 1 /\ dirs'[1] = new /\ dirs' # <<>>
        /\ \A k \in 2 .. Len(above) + 1 : dirs'[k] = above[k - 1]
    BY <2>1, <2>5, ConsOfSeq
  <2>8. Parts(WholeParts(n), 0, 0 + n)
    <3>1. 0 + n = n
      BY <2>2
    <3> HIDE DEF n
    <3> QED BY <2>2, <3>1, WholePartsCover
  <2> HIDE DEF inode, n
  <2>9. /\ Reading' /\ pc' = "read" /\ ip' = inode /\ want' = [from |-> 0, n |-> n]
         /\ want' \in [from : Nat, n : Nat] /\ buf' \in Seq(DOMAIN Disk) /\ Inner' = 0
    BY <1>1, <2>1, <2>2, <2>8, BeginRead
  <2>10. Typing'
    BY <2>1, <2>7, <2>9 DEF Typing
  <2>11. Subject'
    BY <2>5, <2>7, <2>9 DEF Subject, n
  <2>12. Walk'
    <3>1. ASSUME NEW k \in 1 .. Len(dirs')
          PROVE  Placed(dirs'[k]) /\ (k > 1 => Loaded(dirs'[k]))
      <4>1. CASE k = 1
        BY <2>6, <2>7, <4>1
      <4>2. CASE k # 1
        <5>1. k - 1 \in 1 .. Len(above) /\ dirs'[k] = above[k - 1]
          BY <1>1, <2>7, <4>2
        <5> QED BY <5>1
      <4> QED BY <4>1, <4>2
    <3> QED BY <2>7, <2>9, <3>1 DEF Walk
  <2>13. Accounts'
    <3>1. Held' = 3 * Len(dirs')
      BY <2>7, <2>9 DEF Held
    <3> QED BY <1>1, <2>1, <2>7, <2>9, <3>1 DEF Accounts
  <2> QED BY <2>9, <2>10, <2>11, <2>12, <2>13 DEF IInv
<1>3. CASE ~inode.dir
  <2>1. /\ dirs' = above /\ heap' = held
        /\ UNCHANGED <<pc, ip, want, todo, calls, buf>>
    BY <1>3 DEF Visit, reading
  <2>2. Typing'
    BY <2>1 DEF IInv, Typing
  <2>3. Reading' /\ Subject'
    BY <1>1, <2>1 DEF IInv, Reading, Subject, Busy
  <2>4. Walk'
    BY <2>1 DEF Walk
  <2>5. Accounts'
    <3>1. Inner' = 0
      BY <1>1, <2>1 DEF Inner
    <3>2. Held' = 3 * Len(above)
      <4>1. CASE pc = "idle"
        <5>1. above = <<>> /\ Len(<<>>) = 0
          BY <4>1
        <5> QED BY <2>1, <4>1, <5>1 DEF Held
      <4>2. CASE pc = "list"
        BY <2>1, <4>2 DEF Held
      <4> QED BY <4>1, <4>2
    <3> QED BY <1>1, <2>1, <3>1, <3>2 DEF Accounts
  <2> QED BY <2>2, <2>3, <2>4, <2>5 DEF IInv
<1> QED BY <1>2, <1>3

LEMMA KeepTraverse ==
  ASSUME IInv, traverse_ext2_fs
  PROVE  IInv'
<1>1. pc = "idle" /\ Visit(EXT2_ROOT_INO, 1, <<>>, 0) /\ deep' = 0
  BY DEF traverse_ext2_fs
<1>2. EXT2_ROOT_INO \in InodesInUse
  BY TreeAssumption
<1>3. <<>> \in Seq(DirRec) /\ Len(<<>>) = 0
  OBVIOUS
<1>4. /\ \A k \in 1 .. Len(<<>>) : Placed(<<>>[k]) /\ Loaded(<<>>[k])
      /\ pc = "list" <=> <<>> # <<>>
      /\ 0 = deep' + 3 * Len(<<>>)
  BY <1>1, <1>3
<1>5. 1 \in Nat /\ 0 \in Nat /\ deep' \in Nat /\ pc \in {"idle", "list"}
  BY <1>1
<1> QED BY ONLY IInv, <1>1, <1>2, <1>3, <1>4, <1>5, KeepVisit

(* The entry that the walk is at is one of the directory.                  *)
LEMMA EntryOfDirectory ==
  ASSUME NEW d \in DirRec, Placed(d), Loaded(d), d.size < d.ip.i_size
  PROVE  LET e == EntryAt(d.fdata[d.size \div EXT2_BLOCK_SIZE + 1], d.size)
         IN  /\ e = EntryAt(FileBlock(Numbers, d.ip, d.size \div EXT2_BLOCK_SIZE), d.size)
             /\ e.rec_len \in Nat
             /\ Skipped(e) \/ e.inode \in InodesInUse
             /\ Placed([d EXCEPT !.size = @ + e.rec_len]) /\ Loaded([d EXCEPT !.size = @ + e.rec_len])
             /\ [d EXCEPT !.size = @ + e.rec_len] \in DirRec
<1> DEFINE k == d.size \div EXT2_BLOCK_SIZE
           e == EntryAt(d.fdata[k + 1], d.size)
<1>1. PICK ino \in InodesInUse : d.ip = read_ext2_inode(ino)
  BY DEF DirRec
<1>2. d.ip.i_size \in Nat /\ Blocks(d.ip) \in Nat
  BY <1>1, DirectoryInUse
<1>3. PICK starts \in SUBSET (0 .. d.ip.i_size - 1) :
        ChainOfEntries(d.ip, starts) /\ d.size \in starts \cup {d.ip.i_size}
  BY DEF Placed
<1>4. d.size \in Nat /\ d.size \in starts
  BY <1>2, <1>3 DEF DirRec
<1>5. k \in Nat /\ k + 1 <= Blocks(d.ip)
  BY <1>2, <1>4, BlockOfByte DEF Blocks
<1> HIDE DEF k
<1>6. d.fdata[k + 1] = FileBlock(Numbers, d.ip, k)
  <2>1. k + 1 \in 1 .. Len(d.fdata) /\ (k + 1) - 1 = k
    BY <1>2, <1>5 DEF Loaded
  <2>2. d.fdata[k + 1] = FileBlock(Wide, d.ip, k)
    BY <2>1 DEF Loaded
  <2>3. ASSUME NEW q \in 0 .. Blocks(d.ip) - 1
        PROVE  FileBlock(Wide, d.ip, q) \in DOMAIN Disk
    <3>1. q + 1 \in 1 .. Len(d.fdata) /\ (q + 1) - 1 = q
      BY <1>2 DEF Loaded
    <3>2. d.fdata[q + 1] = FileBlock(Wide, d.ip, q)
      BY <3>1 DEF Loaded
    <3>3. d.fdata \in Seq(DOMAIN Disk)
      BY DEF DirRec
    <3> QED BY <3>1, <3>2, <3>3
  <2>4. DirectoryOK(d.ip)
    BY <1>1, DirectoryInUse DEF Placed
  <2>5. k \in 0 .. Blocks(d.ip) - 1
    BY <1>2, <1>5
  <2>6. FileBlock(Wide, d.ip, k) = FileBlock(Numbers, d.ip, k)
    BY <1>2, <2>3, <2>4, <2>5, DirectoryIsRight DEF Blocks
  <2> QED BY <2>2, <2>6
<1>12. e = EntryAt(FileBlock(Numbers, d.ip, d.size \div EXT2_BLOCK_SIZE), d.size)
  BY <1>6 DEF k
<1>7. /\ e.rec_len \in Nat \ {0}
      /\ d.size + e.rec_len \in starts \cup {d.ip.i_size}
      /\ Skipped(e) \/ e.inode \in InodesInUse
  <2> HIDE DEF e
  <2> QED BY <1>3, <1>4, <1>12 DEF ChainOfEntries
<1> HIDE DEF e
<1> DEFINE p == [d EXCEPT !.size = @ + e.rec_len]
<1>8. d.size + e.rec_len \in Nat
  BY <1>4, <1>7
<1>9. /\ p \in DirRec /\ p.ip = d.ip /\ p.fdata = d.fdata /\ p.size = d.size + e.rec_len
  BY <1>8 DEF DirRec
<1> HIDE DEF p
<1>10. Placed(p)
  BY <1>3, <1>7, <1>9 DEF Placed
<1>11. Loaded(p)
  BY <1>9 DEF Loaded
<1> QED BY <1>7, <1>9, <1>10, <1>11, <1>12 DEF k, e, p

LEMMA KeepListEntry ==
  ASSUME IInv, ListEntry
  PROVE  IInv'
<1> DEFINE d == Head(dirs)
           e == EntryAt(d.fdata[d.size \div EXT2_BLOCK_SIZE + 1], d.size)
           p == [d EXCEPT !.size = @ + e.rec_len]
           passed == <<p>> \o Tail(dirs)
<1>1. pc = "list" /\ d.size < d.ip.i_size /\ TakeEntry(d, e)
  BY DEF ListEntry
<1>2. /\ deep' = deep
      /\ IF Skipped(e) THEN dirs' = passed /\ UNCHANGED <<pc, ip, want, todo, calls, buf, heap>>
                       ELSE Visit(e.inode, d.depth + 1, passed, heap)
  BY <1>1 DEF TakeEntry, reading
<1>3. dirs \in Seq(DirRec) /\ dirs # <<>> /\ heap \in Nat /\ deep \in Nat
  BY <1>1 DEF IInv, Typing, Walk
<1>4. d = dirs[1] /\ d \in DirRec /\ Len(dirs) \in Nat \ {0} /\ Tail(dirs) \in Seq(DirRec)
      /\ Len(Tail(dirs)) = Len(dirs) - 1 /\ \A k \in 1 .. Len(dirs) - 1 : Tail(dirs)[k] = dirs[k + 1]
  BY <1>3, TailOfSeq
<1>5. \A k \in 1 .. Len(dirs) : Placed(dirs[k]) /\ Loaded(dirs[k])
  BY <1>1 DEF IInv, Walk
<1>6. Placed(d) /\ Loaded(d)
  BY <1>4, <1>5
<1>7. /\ Skipped(e) \/ e.inode \in InodesInUse
      /\ Placed(p) /\ Loaded(p) /\ p \in DirRec
  BY <1>1, <1>4, <1>6, EntryOfDirectory
<1> HIDE DEF e, p
<1>8. /\ passed \in Seq(DirRec) /\ Len(passed) = Len(dirs) /\ passed # <<>> /\ passed[1] = p
      /\ \A k \in 2 .. Len(dirs) : passed[k] = dirs[k]
  <2>1. /\ passed \in Seq(DirRec) /\ Len(passed) = Len(Tail(dirs)) + 1 /\ passed # <<>> /\ passed[1] = p
        /\ \A k \in 2 .. Len(Tail(dirs)) + 1 : passed[k] = Tail(dirs)[k - 1]
    BY <1>4, <1>7, ConsOfSeq
  <2>2. ASSUME NEW k \in 2 .. Len(dirs) PROVE passed[k] = dirs[k]
    <3>1. k - 1 \in 1 .. Len(dirs) - 1 /\ (k - 1) + 1 = k /\ k \in 2 .. Len(Tail(dirs)) + 1
      BY <1>4
    <3>2. passed[k] = Tail(dirs)[k - 1] /\ Tail(dirs)[k - 1] = dirs[(k - 1) + 1]
      BY <1>4, <2>1, <3>1
    <3> QED BY <3>1, <3>2
  <2> QED BY <1>4, <2>1, <2>2
<1> HIDE DEF passed
<1>9. \A k \in 1 .. Len(passed) : Placed(passed[k]) /\ Loaded(passed[k])
  <2>1. SUFFICES ASSUME NEW k \in 1 .. Len(passed)
                 PROVE  Placed(passed[k]) /\ Loaded(passed[k])
    OBVIOUS
  <2>2. CASE k = 1
    BY <1>7, <1>8, <2>2
  <2>3. CASE k # 1
    <3>1. k \in 2 .. Len(dirs) /\ k \in 1 .. Len(dirs)
      BY <1>4, <1>8, <2>3
    <3> QED BY <1>5, <1>8, <3>1
  <2> QED BY <2>2, <2>3
<1>10. heap = deep + 3 * Len(passed)
  <2>1. Inner = 0 /\ Held = 3 * Len(dirs)
    BY <1>1, <1>3 DEF IInv, Reading, Busy, Inner, Held
  <2> QED BY <1>3, <1>4, <1>8, <2>1 DEF IInv, Accounts
<1>11. CASE Skipped(e)
  <2>1. dirs' = passed /\ UNCHANGED <<pc, ip, want, todo, calls, buf, heap>>
    BY <1>2, <1>11
  <2>2. Typing'
    BY <1>2, <1>8, <2>1 DEF IInv, Typing
  <2>3. Reading' /\ Subject'
    BY <1>1, <2>1 DEF IInv, Reading, Subject, Busy
  <2>4. Walk'
    BY <1>1, <1>8, <1>9, <2>1 DEF Walk
  <2>5. Accounts'
    BY <1>1, <1>2, <1>3, <1>8, <2>1 DEF IInv, Accounts, Inner, Held
  <2> QED BY <2>2, <2>3, <2>4, <2>5 DEF IInv
<1>12. CASE ~Skipped(e)
  <2>1. Visit(e.inode, d.depth + 1, passed, heap) /\ e.inode \in InodesInUse
    BY <1>2, <1>7, <1>12
  <2>2. d.depth + 1 \in Nat
    BY <1>4 DEF DirRec
  <2> HIDE DEF d
  <2>3. deep' \in Nat /\ heap = deep' + 3 * Len(passed) /\ pc \in {"idle", "list"}
        /\ (pc = "list" <=> passed # <<>>)
    BY <1>1, <1>2, <1>3, <1>8, <1>10
  <2> QED BY <1>3, <1>8, <1>9, <2>1, <2>2, <2>3, KeepVisit
<1> QED BY <1>11, <1>12

LEMMA KeepLeave ==
  ASSUME IInv, Leave
  PROVE  IInv'
<1>1. /\ pc = "list" /\ dirs' = Tail(dirs) /\ heap' = heap - 3
      /\ pc' = (IF Tail(dirs) = <<>> THEN "idle" ELSE "list")
      /\ UNCHANGED <<ip, want, todo, calls, buf, deep>>
  BY DEF Leave, reading
<1>2. dirs \in Seq(DirRec) /\ dirs # <<>> /\ heap \in Nat /\ deep \in Nat
  BY <1>1 DEF IInv, Typing, Walk
<1>3. Len(dirs) \in Nat \ {0} /\ Tail(dirs) \in Seq(DirRec)
      /\ Len(Tail(dirs)) = Len(dirs) - 1 /\ \A k \in 1 .. Len(dirs) - 1 : Tail(dirs)[k] = dirs[k + 1]
  BY <1>2, TailOfSeq
<1>4. \A k \in 1 .. Len(dirs) : Placed(dirs[k]) /\ Loaded(dirs[k])
  BY <1>1 DEF IInv, Walk
<1>5. \A k \in 1 .. Len(dirs') : Placed(dirs'[k]) /\ Loaded(dirs'[k])
  <2>1. SUFFICES ASSUME NEW k \in 1 .. Len(dirs')
                 PROVE  Placed(dirs'[k]) /\ Loaded(dirs'[k])
    OBVIOUS
  <2>2. k \in 1 .. Len(dirs) - 1 /\ k + 1 \in 1 .. Len(dirs)
    BY <1>1, <1>3
  <2> QED BY <1>1, <1>3, <1>4, <2>2
<1>6. Walk'
  BY <1>1, <1>5 DEF Walk
<1>7. Reading' /\ Subject'
  BY <1>1 DEF IInv, Reading, Subject, Busy
<1>8. Accounts' /\ heap' \in Nat
  <2>1. Inner = 0 /\ Inner' = 0 /\ Held = 3 * Len(dirs)
    BY <1>1, <1>2 DEF IInv, Reading, Busy, Inner, Held
  <2>2. Held' = 3 * Len(dirs')
    <3>1. CASE Tail(dirs) = <<>>
      <4>1. Len(dirs') = 0
        BY <1>1, <3>1
      <4>2. pc' = "idle"
        BY <1>1, <3>1
      <4>3. Held' = 0
        BY <4>2 DEF Held
      <4> QED BY <4>1, <4>3
    <3>2. CASE Tail(dirs) # <<>>
      BY <1>1, <3>2 DEF Held
    <3> QED BY <3>1, <3>2
  <2> QED BY <1>1, <1>2, <1>3, <2>1, <2>2 DEF IInv, Accounts
<1>9. Typing'
  BY <1>1, <1>3, <1>8 DEF IInv, Typing
<1> QED BY <1>6, <1>7, <1>8, <1>9 DEF IInv

----------------------------------------------------------------------------
(* What is still to be printed: from where each activation of              *)
(* visit_ext2_dir is to the end of its directory, the innermost first.     *)

LEMMA Concat ==
  ASSUME NEW r \in Seq(Line), NEW s \in Seq(Line), NEW t \in Seq(Line)
  PROVE  /\ r \o s \in Seq(Line) /\ (r \o s) \o t = r \o (s \o t)
         /\ <<>> \o s = s /\ s \o <<>> = s
  OBVIOUS

LEMMA AppendAssoc ==
  ASSUME NEW s \in Seq(Line), NEW x \in Line, NEW t \in Seq(Line)
  PROVE  Append(s, x) \in Seq(Line) /\ Append(s, x) \o t = s \o (<<x>> \o t)
  OBVIOUS

LEMMA PrefixOfConcat ==
  ASSUME NEW r \in Seq(Line), NEW s \in Seq(Line)
  PROVE  Len(r) <= Len(r \o s) /\ r = SubSeq(r \o s, 1, Len(r))
  OBVIOUS

Place(d) == <<d.ip, d.depth, d.size>>
InTree(d) == Place(d) \in DOMAIN TreeLines

PendingAt(ds, lines, R) ==
  /\ R[1] = lines /\ R[Len(ds) + 1] = <<>>
  /\ \A k \in 1 .. Len(ds) : InTree(ds[k]) /\ R[k] = TreeLines[Place(ds[k])] \o R[k + 1]
Pending(ds, lines) ==
  /\ ds \in Seq(DirRec)
  /\ \E R \in [1 .. Len(ds) + 1 -> Seq(Line)] : PendingAt(ds, lines, R)

LEMMA NothingPending ==
  ASSUME NEW lines
  PROVE  Pending(<<>>, lines) <=> lines = <<>>
<1>1. ASSUME Pending(<<>>, lines) PROVE lines = <<>>
  BY <1>1 DEF Pending, PendingAt
<1>2. ASSUME lines = <<>> PROVE Pending(<<>>, lines)
  <2> DEFINE R == [k \in 1 .. 1 |-> <<>>]
  <2>1. R \in [1 .. Len(<<>>) + 1 -> Seq(Line)]
    OBVIOUS
  <2>2. PendingAt(<<>>, lines, R)
    BY <1>2 DEF PendingAt
  <2>3. <<>> \in Seq(DirRec)
    OBVIOUS
  <2> HIDE DEF R
  <2> QED BY <2>1, <2>2, <2>3 DEF Pending
<1> QED BY <1>1, <1>2

LEMMA PendingTail ==
  ASSUME NEW ds, NEW lines, Pending(ds, lines), ds # <<>>
  PROVE  /\ InTree(ds[1])
         /\ \E m \in Seq(Line) : Pending(Tail(ds), m) /\ lines = TreeLines[Place(ds[1])] \o m
<1>1. PICK R \in [1 .. Len(ds) + 1 -> Seq(Line)] : PendingAt(ds, lines, R)
  BY DEF Pending
<1> DEFINE t == Tail(ds)
           up == [k \in 1 .. Len(t) + 1 |-> R[k + 1]]
<1>2. ds \in Seq(DirRec)
  BY DEF Pending
<1>3. /\ t \in Seq(DirRec) /\ Len(ds) \in Nat \ {0} /\ Len(t) = Len(ds) - 1
      /\ \A k \in 1 .. Len(ds) - 1 : t[k] = ds[k + 1]
  BY <1>2, TailOfSeq
<1> HIDE DEF t
<1>4. InTree(ds[1]) /\ lines = TreeLines[Place(ds[1])] \o R[2] /\ R[2] \in Seq(Line)
  <2>1. 1 \in 1 .. Len(ds) /\ 1 + 1 = 2 /\ 2 \in 1 .. Len(ds) + 1
    BY <1>3
  <2>2. R[1] = lines /\ InTree(ds[1]) /\ R[1] = TreeLines[Place(ds[1])] \o R[1 + 1]
    BY <1>1, <2>1 DEF PendingAt
  <2> QED BY <1>1, <2>1, <2>2
<1>5. up \in [1 .. Len(t) + 1 -> Seq(Line)]
  BY <1>1, <1>3
<1>6. PendingAt(t, R[2], up)
  <2>1. up[1] = R[2] /\ up[Len(t) + 1] = <<>>
    BY <1>1, <1>3 DEF PendingAt
  <2>2. ASSUME NEW k \in 1 .. Len(t)
        PROVE  InTree(t[k]) /\ up[k] = TreeLines[Place(t[k])] \o up[k + 1]
    <3>1. k + 1 \in 1 .. Len(ds) /\ t[k] = ds[k + 1] /\ up[k] = R[k + 1] /\ up[k + 1] = R[(k + 1) + 1]
      BY <1>3
    <3>2. InTree(ds[k + 1]) /\ R[k + 1] = TreeLines[Place(ds[k + 1])] \o R[(k + 1) + 1]
      BY <1>1, <3>1 DEF PendingAt
    <3> HIDE DEF up
    <3> QED BY <3>1, <3>2
  <2> HIDE DEF up
  <2> QED BY <2>1, <2>2 DEF PendingAt
<1> HIDE DEF up
<1>7. Pending(t, R[2])
  BY <1>3, <1>5, <1>6 DEF Pending
<1> QED BY <1>4, <1>7 DEF t

LEMMA PendingCons ==
  ASSUME NEW ds, NEW m \in Seq(Line), Pending(ds, m), NEW d \in DirRec, InTree(d),
         TreeLines[Place(d)] \in Seq(Line)
  PROVE  Pending(<<d>> \o ds, TreeLines[Place(d)] \o m)
<1>1. PICK R \in [1 .. Len(ds) + 1 -> Seq(Line)] : PendingAt(ds, m, R)
  BY DEF Pending
<1> DEFINE lines == TreeLines[Place(d)] \o m
           t == <<d>> \o ds
           up == [k \in 1 .. Len(t) + 1 |-> IF k = 1 THEN lines ELSE R[k - 1]]
<1>2. ds \in Seq(DirRec) /\ Len(ds) \in Nat
  BY DEF Pending
<1>3. /\ t \in Seq(DirRec) /\ Len(t) = Len(ds) + 1 /\ t[1] = d
      /\ \A k \in 2 .. Len(ds) + 1 : t[k] = ds[k - 1]
  BY <1>2, ConsOfSeq
<1> HIDE DEF t
<1>4. lines \in Seq(Line)
  BY Concat
<1>5. R[1] = m /\ R[Len(ds) + 1] = <<>>
  BY <1>1 DEF PendingAt
<1> HIDE DEF lines
<1>6. up \in [1 .. Len(t) + 1 -> Seq(Line)]
  BY <1>2, <1>3, <1>4
<1>7. PendingAt(t, lines, up)
  <2>1. up[1] = lines /\ up[2] = m /\ up[Len(t) + 1] = <<>>
    BY <1>2, <1>3, <1>5
  <2>2. ASSUME NEW k \in 1 .. Len(t)
        PROVE  InTree(t[k]) /\ up[k] = TreeLines[Place(t[k])] \o up[k + 1]
    <3>1. CASE k = 1
      <4>1. up[k] = lines /\ up[k + 1] = m /\ t[k] = d
        BY <1>3, <2>1, <3>1
      <4> HIDE DEF up
      <4> QED BY <4>1 DEF lines
    <3>2. CASE k # 1
      <4>1. k - 1 \in 1 .. Len(ds) /\ t[k] = ds[k - 1] /\ up[k] = R[k - 1] /\ up[k + 1] = R[(k - 1) + 1]
        BY <1>2, <1>3, <3>2
      <4>2. InTree(ds[k - 1]) /\ R[k - 1] = TreeLines[Place(ds[k - 1])] \o R[(k - 1) + 1]
        BY <1>1, <4>1 DEF PendingAt
      <4> HIDE DEF up
      <4> QED BY <4>1, <4>2
    <3> QED BY <3>1, <3>2
  <2> HIDE DEF up
  <2> QED BY <2>1, <2>2 DEF PendingAt
<1> HIDE DEF up
<1>8. Pending(t, lines)
  BY <1>3, <1>6, <1>7 DEF Pending
<1> QED BY <1>8 DEF t, lines

WholeTree == TreeLines[<<read_ext2_inode(EXT2_ROOT_INO), 1, 0>>]

(* What has been printed and what is pending are the tree.                 *)
Listed ==
  /\ listing \in Seq(Line)
  /\ dirs # <<>> => \E m \in Seq(Line) : Pending(dirs, m) /\ listing \o m = WholeTree
  /\ dirs = <<>> => listing \in {<<>>, WholeTree}

LEMMA LinesAreSeq ==
  /\ \A p \in DOMAIN TreeLines : TreeLines[p] \in Seq(Line)
  /\ WholeTree \in Seq(Line)
  BY LinesAssumption DEF WholeTree, LinesFrom

LEMMA ListedGives ==
  ASSUME IInv, Listed
  PROVE  ListsTree
<1>1. listing \in Seq(Line) /\ WholeTree \in Seq(Line)
  BY LinesAreSeq DEF Listed
<1>2. Len(listing) <= Len(WholeTree) /\ listing = SubSeq(WholeTree, 1, Len(listing))
  <2>1. CASE dirs # <<>>
    BY <1>1, <2>1, PrefixOfConcat DEF Listed
  <2>2. CASE dirs = <<>>
    <3>1. listing = <<>> \/ listing = WholeTree
      BY <2>2 DEF Listed
    <3> QED BY <1>1, <3>1
  <2> QED BY <2>1, <2>2
<1>3. pc = "idle" /\ listing # <<>> => listing = WholeTree
  BY DEF IInv, Walk, Listed
<1> QED BY <1>2, <1>3 DEF ListsTree, WholeTree

(* A directory that is entered: its lines come before what was pending.    *)
LEMMA VisitPends ==
  ASSUME NEW ino \in InodesInUse, NEW depth \in Nat, NEW held, NEW above, NEW m \in Seq(Line),
         Visit(ino, depth, above, held), Pending(above, m), read_ext2_inode(ino).dir,
         <<read_ext2_inode(ino), depth, 0>> \in DOMAIN TreeLines
  PROVE  dirs' # <<>> /\ Pending(dirs', TreeLines[<<read_ext2_inode(ino), depth, 0>>] \o m)
<1> DEFINE inode == read_ext2_inode(ino)
           new   == [ip |-> inode, fdata |-> <<>>, size |-> 0, depth |-> depth]
<1>1. dirs' = <<new>> \o above
  BY DEF Visit
<1>2. inode \in {read_ext2_inode(i) : i \in InodesInUse}
  OBVIOUS
<1>3. new \in DirRec /\ Place(new) = <<inode, depth, 0>>
  BY <1>2 DEF DirRec, Place
<1> HIDE DEF inode, new
<1>4. InTree(new) /\ TreeLines[Place(new)] \in Seq(Line)
  BY <1>3, LinesAreSeq DEF InTree, inode
<1>5. Pending(<<new>> \o above, TreeLines[Place(new)] \o m)
  BY <1>3, <1>4, PendingCons
<1>6. <<new>> \o above # <<>>
  BY <1>3, ConsOfSeq DEF Pending
<1> QED BY <1>1, <1>3, <1>5, <1>6 DEF inode

LEMMA TraverseListed ==
  ASSUME IInv, traverse_ext2_fs
  PROVE  Listed'
<1>1. Visit(EXT2_ROOT_INO, 1, <<>>, 0) /\ listing' = <<>>
  BY DEF traverse_ext2_fs
<1>2. /\ EXT2_ROOT_INO \in InodesInUse /\ read_ext2_inode(EXT2_ROOT_INO).dir
      /\ <<read_ext2_inode(EXT2_ROOT_INO), 1, 0>> \in DOMAIN TreeLines
  BY TreeAssumption, LinesAssumption
<1>3. Pending(<<>>, <<>>) /\ <<>> \in Seq(Line) /\ 1 \in Nat
  BY NothingPending
<1>4. dirs' # <<>> /\ Pending(dirs', WholeTree \o <<>>)
  BY <1>1, <1>2, <1>3, VisitPends DEF WholeTree
<1>5. WholeTree \in Seq(Line) /\ WholeTree \o <<>> = WholeTree /\ <<>> \o WholeTree = WholeTree
  BY LinesAreSeq, Concat
<1> QED BY <1>1, <1>3, <1>4, <1>5 DEF Listed

LEMMA ListDirectoryListed ==
  ASSUME IInv, Listed, ListDirectory
  PROVE  Listed'
<1> DEFINE d == dirs[1]
           full == [d EXCEPT !.fdata = buf]
<1>1. dirs # <<>> /\ dirs' = [dirs EXCEPT ![1] = full] /\ listing' = listing
  BY DEF ListDirectory
<1>2. dirs \in Seq(DirRec) /\ buf \in Seq(DOMAIN Disk)
  BY DEF IInv, Typing
<1>3. d \in DirRec /\ Len(dirs) \in Nat \ {0} /\ Tail(dirs) \in Seq(DirRec)
  BY <1>1, <1>2, TailOfSeq
<1>4. full \in DirRec /\ Place(full) = Place(d)
  BY <1>2, <1>3 DEF DirRec, Place
<1> HIDE DEF full
<1>5. dirs' = <<full>> \o Tail(dirs)
  BY <1>1, <1>2, <1>4
<1>6. PICK m \in Seq(Line) : Pending(dirs, m) /\ listing \o m = WholeTree
  BY <1>1 DEF Listed
<1>7. PICK n \in Seq(Line) : InTree(d) /\ Pending(Tail(dirs), n) /\ m = TreeLines[Place(d)] \o n
  BY <1>1, <1>6, PendingTail
<1>8. InTree(full) /\ TreeLines[Place(full)] \in Seq(Line)
  BY <1>4, <1>7, LinesAreSeq DEF InTree
<1>9. Pending(dirs', m)
  BY <1>4, <1>5, <1>7, <1>8, PendingCons
<1>10. dirs' # <<>>
  BY <1>3, <1>4, <1>5, ConsOfSeq
<1> QED BY <1>1, <1>6, <1>9, <1>10 DEF Listed

LEMMA LeaveListed ==
  ASSUME IInv, Listed, Leave
  PROVE  Listed'
<1> DEFINE d == Head(dirs)
<1>1. pc = "list" /\ d.size >= d.ip.i_size /\ dirs' = Tail(dirs) /\ listing' = listing
  BY DEF Leave
<1>2. dirs \in Seq(DirRec) /\ dirs # <<>>
  BY <1>1 DEF IInv, Typing, Walk
<1>3. d = dirs[1] /\ d \in DirRec
  BY <1>2, TailOfSeq
<1>4. PICK m \in Seq(Line) : Pending(dirs, m) /\ listing \o m = WholeTree
  BY <1>2 DEF Listed
<1>5. PICK n \in Seq(Line) : InTree(d) /\ Pending(Tail(dirs), n) /\ m = TreeLines[Place(d)] \o n
  BY <1>2, <1>3, <1>4, PendingTail
<1>6. TreeLines[Place(d)] = <<>>
  <2>1. Place(d) = <<d.ip, d.depth, d.size>>
    BY DEF Place
  <2> HIDE DEF d
  <2>2. LinesFrom(d.ip, d.depth, d.size)
    BY <1>5, <2>1, LinesAssumption DEF InTree
  <2> QED BY <1>1, <2>1, <2>2 DEF LinesFrom
<1>7. m = n
  BY <1>5, <1>6, Concat
<1>8. Tail(dirs) = <<>> => listing = WholeTree
  <2>1. Tail(dirs) = <<>> => n = <<>>
    BY <1>5, NothingPending
  <2> QED BY <1>4, <1>7, <2>1, Concat DEF Listed
<1> QED BY <1>1, <1>4, <1>5, <1>7, <1>8 DEF Listed

(* The lines from an entry on are its own, those of the tree below it, if  *)
(* it is entered, and those behind it.                                     *)
LEMMA LinesOfEntry ==
  ASSUME NEW d \in DirRec, InTree(d), d.size < d.ip.i_size,
         NEW e, e = EntryAt(FileBlock(Numbers, d.ip, d.size \div EXT2_BLOCK_SIZE), d.size)
  PROVE  LET line    == <<d.depth, e.name>>
             next    == <<d.ip, d.depth, d.size + e.rec_len>>
             child   == <<read_ext2_inode(e.inode), d.depth + 1, 0>>
             entered == ~Skipped(e) /\ read_ext2_inode(e.inode).dir
         IN  /\ line \in Line /\ next \in DOMAIN TreeLines
             /\ ~entered => TreeLines[Place(d)] = <<line>> \o TreeLines[next]
             /\ entered => /\ child \in DOMAIN TreeLines
                           /\ TreeLines[Place(d)] = <<line>> \o (TreeLines[child] \o TreeLines[next])
<1> DEFINE p       == Place(d)
           line    == <<d.depth, e.name>>
           next    == <<d.ip, d.depth, d.size + e.rec_len>>
           child   == <<read_ext2_inode(e.inode), d.depth + 1, 0>>
           entered == ~Skipped(e) /\ read_ext2_inode(e.inode).dir
           inner   == IF entered THEN TreeLines[child] ELSE <<>>
<1>1. LinesFrom(d.ip, d.depth, d.size)
  <2>1. p[1] = d.ip /\ p[2] = d.depth /\ p[3] = d.size /\ p \in DOMAIN TreeLines
    BY DEF Place, InTree
  <2> HIDE DEF p
  <2> QED BY <2>1, LinesAssumption
<1>2. entered <=> e.inode # 0 /\ e.name # "." /\ e.name # ".." /\ child[1].dir
  BY DEF Skipped
<1> HIDE DEF entered
<1>3. /\ line \in Line /\ next \in DOMAIN TreeLines
      /\ entered => child \in DOMAIN TreeLines
      /\ TreeLines[p] = <<line>> \o inner \o TreeLines[next]
  BY <1>1, <1>2 DEF LinesFrom, Place
<1> HIDE DEF p, line, next, child
<1>4. <<line>> \in Seq(Line) /\ TreeLines[next] \in Seq(Line) /\ <<>> \in Seq(Line)
  BY <1>3, LinesAreSeq
<1>5. CASE entered
  <2>1. TreeLines[child] \in Seq(Line)
    BY <1>3, <1>5, LinesAreSeq
  <2>2. TreeLines[p] = <<line>> \o (TreeLines[child] \o TreeLines[next])
    BY <1>3, <1>4, <1>5, <2>1, Concat
  <2> QED BY <1>3, <1>5, <2>2 DEF p, line, next, child, entered
<1>6. CASE ~entered
  <2>1. TreeLines[p] = <<line>> \o TreeLines[next]
    BY <1>3, <1>4, <1>6, Concat
  <2> QED BY <1>3, <1>6, <2>1 DEF p, line, next, child, entered
<1> QED BY <1>5, <1>6

LEMMA ListEntryListed ==
  ASSUME IInv, Listed, ListEntry
  PROVE  Listed'
<1> DEFINE d == Head(dirs)
           e == EntryAt(d.fdata[d.size \div EXT2_BLOCK_SIZE + 1], d.size)
           p == [d EXCEPT !.size = @ + e.rec_len]
           passed  == <<p>> \o Tail(dirs)
           line    == <<d.depth, e.name>>
           inode   == read_ext2_inode(e.inode)
           next    == <<d.ip, d.depth, d.size + e.rec_len>>
           child   == <<inode, d.depth + 1, 0>>
           entered == ~Skipped(e) /\ inode.dir
<1>1. pc = "list" /\ d.size < d.ip.i_size /\ TakeEntry(d, e)
  BY DEF ListEntry
<1>2. listing' = Append(listing, line)
  BY <1>1 DEF TakeEntry
<1>3. dirs \in Seq(DirRec) /\ dirs # <<>>
  BY <1>1 DEF IInv, Typing, Walk
<1>4. d = dirs[1] /\ d \in DirRec /\ Len(dirs) \in Nat \ {0}
  BY <1>3, TailOfSeq
<1>5. Placed(d) /\ Loaded(d)
  BY <1>1, <1>4 DEF IInv, Walk
<1>6. /\ e = EntryAt(FileBlock(Numbers, d.ip, d.size \div EXT2_BLOCK_SIZE), d.size)
      /\ Skipped(e) \/ e.inode \in InodesInUse
      /\ p \in DirRec
  BY <1>1, <1>4, <1>5, EntryOfDirectory
<1>7. PICK m \in Seq(Line) : Pending(dirs, m) /\ listing \o m = WholeTree
  BY <1>3 DEF Listed
<1>8. PICK n \in Seq(Line) : InTree(d) /\ Pending(Tail(dirs), n) /\ m = TreeLines[Place(d)] \o n
  BY <1>3, <1>4, <1>7, PendingTail
<1> HIDE DEF e
<1>9. /\ line \in Line /\ next \in DOMAIN TreeLines
      /\ ~entered => TreeLines[Place(d)] = <<line>> \o TreeLines[next]
      /\ entered => /\ child \in DOMAIN TreeLines
                    /\ TreeLines[Place(d)] = <<line>> \o (TreeLines[child] \o TreeLines[next])
  <2> HIDE DEF d
  <2> QED BY <1>1, <1>4, <1>6, <1>8, LinesOfEntry
<1>10. Place(p) = next
  BY <1>4 DEF Place, DirRec
<1>11. CASE entered
  <2>1. Visit(e.inode, d.depth + 1, passed, heap) /\ e.inode \in InodesInUse /\ inode.dir
    BY <1>1, <1>6, <1>11 DEF TakeEntry
  <2>2. d.depth + 1 \in Nat
    BY <1>4 DEF DirRec
  <2> HIDE DEF d, p, line, next, inode
  <2>3. /\ <<line>> \in Seq(Line) /\ TreeLines[next] \in Seq(Line) /\ TreeLines[child] \in Seq(Line)
        /\ listing \in Seq(Line)
    BY <1>9, <1>11, LinesAreSeq DEF Listed
  <2>4. TreeLines[next] \o n \in Seq(Line) /\ Pending(passed, TreeLines[next] \o n)
    BY <1>6, <1>8, <1>9, <1>10, <2>3, Concat, PendingCons DEF InTree
  <2> HIDE DEF passed
  <2>5. dirs' # <<>> /\ Pending(dirs', TreeLines[child] \o (TreeLines[next] \o n))
    BY <1>9, <1>11, <2>1, <2>2, <2>4, VisitPends DEF inode
  <2> DEFINE rest == TreeLines[child] \o (TreeLines[next] \o n)
  <2>6. rest \in Seq(Line) /\ m = <<line>> \o rest
    <3> DEFINE own    == <<line>>
               inside == TreeLines[child]
               behind == TreeLines[next]
    <3>1. m = (own \o (inside \o behind)) \o n
      BY <1>8, <1>9, <1>11
    <3>2. own \in Seq(Line)
      BY <2>3
    <3>3. inside \in Seq(Line)
      BY <2>3
    <3>4. behind \in Seq(Line)
      BY <2>3
    <3>5. n \in Seq(Line)
      BY <1>8
    <3>6. rest = inside \o (behind \o n)
      OBVIOUS
    <3> HIDE DEF own, inside, behind, rest
    <3>7. /\ inside \o (behind \o n) \in Seq(Line)
          /\ (own \o (inside \o behind)) \o n = own \o (inside \o (behind \o n))
      <4>1. inside \o behind \in Seq(Line)
        BY <3>3, <3>4, Concat
      <4>2. (own \o (inside \o behind)) \o n = own \o ((inside \o behind) \o n)
        BY <3>2, <3>5, <4>1, Concat
      <4>3. (inside \o behind) \o n = inside \o (behind \o n)
        BY <3>3, <3>4, <3>5, Concat
      <4>4. behind \o n \in Seq(Line)
        BY <3>4, <3>5, Concat
      <4>5. inside \o (behind \o n) \in Seq(Line)
        BY <3>3, <4>4, Concat
      <4> QED BY <4>2, <4>3, <4>5
    <3>8. rest \in Seq(Line) /\ m = own \o rest
      BY <3>1, <3>6, <3>7
    <3> QED BY <3>8 DEF own
  <2> HIDE DEF rest
  <2>7. Append(listing, line) \in Seq(Line) /\ Append(listing, line) \o rest = listing \o (<<line>> \o rest)
    BY <1>9, <2>3, <2>6, AppendAssoc
  <2>8. listing' \in Seq(Line) /\ listing' \o rest = WholeTree
    BY <1>2, <1>7, <2>6, <2>7
  <2> QED BY <2>5, <2>6, <2>8 DEF Listed, rest
<1>12. CASE ~entered
  <2>1. dirs' = passed
    BY <1>1, <1>12 DEF TakeEntry, Visit
  <2> HIDE DEF d, p, line, next, inode
  <2>2. <<line>> \in Seq(Line) /\ TreeLines[next] \in Seq(Line) /\ listing \in Seq(Line)
    BY <1>9, LinesAreSeq DEF Listed
  <2> DEFINE rest == TreeLines[next] \o n
  <2>3. rest \in Seq(Line) /\ Pending(passed, rest)
    BY <1>6, <1>8, <1>9, <1>10, <2>2, Concat, PendingCons DEF InTree
  <2>4. passed # <<>>
    BY <1>6, <1>8, ConsOfSeq DEF Pending
  <2>5. m = <<line>> \o rest
    <3> DEFINE own    == <<line>>
               behind == TreeLines[next]
    <3>1. m = (own \o behind) \o n
      BY <1>8, <1>9, <1>12
    <3>2. own \in Seq(Line) /\ behind \in Seq(Line) /\ n \in Seq(Line) /\ rest = behind \o n
      BY <1>8, <2>2
    <3> HIDE DEF own, behind, rest
    <3>3. (own \o behind) \o n = own \o (behind \o n)
      BY <3>2, Concat
    <3>4. m = own \o rest
      BY <3>1, <3>2, <3>3
    <3> QED BY <3>4 DEF own
  <2> HIDE DEF rest, passed
  <2>6. Append(listing, line) \in Seq(Line) /\ Append(listing, line) \o rest = listing \o (<<line>> \o rest)
    BY <1>9, <2>2, <2>3, AppendAssoc
  <2>7. listing' \in Seq(Line) /\ listing' \o rest = WholeTree
    BY <1>2, <1>7, <2>5, <2>6
  <2> QED BY <2>1, <2>3, <2>4, <2>7 DEF Listed
<1> QED BY <1>11, <1>12

LEMMA ListedKept ==
  ASSUME IInv, Listed, [Next]_vars
  PROVE  Listed'
<1>1. CASE traverse_ext2_fs
  BY <1>1, TraverseListed
<1>2. CASE ListDirectory
  BY <1>2, ListDirectoryListed
<1>3. CASE ListEntry
  BY <1>3, ListEntryListed
<1>4. CASE Leave
  BY <1>4, LeaveListed
<1>5. ASSUME NEW r \in FileReads, ReadFileBlocks(r[1], r[2], r[3])
      PROVE  Listed'
  <2>1. dirs' = <<>> /\ listing' = <<>>
    BY <1>5 DEF IInv, Walk, ReadFileBlocks
  <2> QED BY <2>1 DEF Listed
<1>6. CASE CallReader \/ FollowPointer \/ Fault \/ ReturnBlocks \/ UNCHANGED vars
  <2>1. UNCHANGED <<dirs, listing>>
    BY <1>6 DEF CallReader, FollowPointer, Fault, ReturnBlocks, vars
  <2> QED BY <2>1 DEF Listed
<1> QED BY <1>1, <1>2, <1>3, <1>4, <1>5, <1>6 DEF Next, Step

----------------------------------------------------------------------------
(* The theorems.                                                           *)

LEMMA NextKeepsInv == IInv /\ [Next]_vars => IInv'
<1> SUFFICES ASSUME IInv, [Next]_vars PROVE IInv'
  OBVIOUS
<1>1. ASSUME NEW r \in FileReads, ReadFileBlocks(r[1], r[2], r[3]) PROVE IInv'
  BY <1>1, KeepReadFileBlocks
<1>2. CASE traverse_ext2_fs
  BY <1>2, KeepTraverse
<1>3. CASE CallReader
  BY <1>3, KeepCallReader
<1>4. CASE FollowPointer
  BY <1>4, KeepFollowPointer
<1>5. CASE ReturnBlocks
  BY <1>5, KeepReturnBlocks
<1>6. CASE ListDirectory
  BY <1>6, KeepListDirectory
<1>7. CASE ListEntry
  BY <1>7, KeepListEntry
<1>8. CASE Leave
  BY <1>8, KeepLeave
<1>9. CASE UNCHANGED vars
  <2>1. UNCHANGED <<pc, ip, want, todo, calls, buf, dirs, listing, heap, deep>>
    BY <1>9 DEF vars, reading
  <2>2. Typing' /\ Subject' /\ Walk'
    BY <2>1 DEF IInv, Typing, Subject, Busy, Walk
  <2>3. Reading'
    BY <2>1 DEF IInv, Reading, Rest, Busy
  <2>4. Accounts'
    BY <2>1 DEF IInv, Accounts, Inner, Held
  <2> QED BY <2>2, <2>3, <2>4 DEF IInv
<1>10. CASE Fault
  BY <1>10, KeepFault
<1> QED BY <1>1, <1>2, <1>3, <1>4, <1>5, <1>6, <1>7, <1>8, <1>9, <1>10 DEF Next, Step

LEMMA AlwaysIInv == Spec => []IInv
<1> QED BY InitInv, NextKeepsInv, PTL DEF Spec

LEMMA AlwaysListed == Spec => [](IInv /\ Listed)
<1>1. Init => IInv /\ Listed
  BY InitInv DEF Init, Listed
<1>2. IInv /\ Listed /\ [Next]_vars => (IInv /\ Listed)'
  BY NextKeepsInv, ListedKept
<1> QED BY <1>1, <1>2, PTL DEF Spec

(* No reader has an index behind that of a last pointer of 32 bits, or     *)
(* reads a block that is not on the disk; with indexes of half of them it  *)
(* goes no further than the next theorems say (read_ext2.c:113-252).       *)
THEOREM ReaderTypeOK == Spec => []TypeOK
<1> QED BY AlwaysIInv, InvGives, PTL

(* A read gets what the wide pointers lead to from the blocks asked for,   *)
(* each once and in order, over all the borders between direct pointers    *)
(* and the levels of pointer blocks; both ways of cutting a range do, and  *)
(* where the file has no second pointer to join with the first, what they  *)
(* lead to are its blocks (read_ext2.c:143, 266-315, 331-400).             *)
THEOREM ReadGetsRange == Spec => []ReadsRange
<1> QED BY AlwaysIInv, InvGives, PTL

(* A reader faults where the wide pointers leave the disk and no earlier   *)
(* (read_ext2.c:146, 181, 231).                                            *)
THEOREM ReaderFaultsWhereLost == Spec => []FaultsWhereLost
<1> QED BY AlwaysIInv, InvGives, PTL

(* At the end of a read or of a walk nothing is held but one buffer per    *)
(* call of the two deep readers (read_ext2.c:396-400, 456-458).            *)
THEOREM ReaderReturnsMemory == Spec => []MemoryReturned
<1> QED BY AlwaysIInv, InvGives, PTL

(* The walk prints the lines of the tree, none left out and none twice,    *)
(* whatever the depth of the tree and the sizes of its directories; where  *)
(* a directory is too large to be read, the lines in front of it           *)
(* (read_ext2.c:410-459).                                                  *)
THEOREM WalkListsTree == Spec => []ListsTree
<1> QED BY AlwaysListed, ListedGives, PTL

============================================================================
