------------------------- MODULE SortedVectorProofs -------------------------
(***************************************************************************)
(* The sorted vector is right for every set of numbers and every initial   *)
(* capacity: IInv is inductive, and with it every step of SortedVector is  *)
(* a step of BlockSet or leaves the set alone.                             *)
(***************************************************************************)
EXTENDS SortedVector, TLAPS, WellFoundedInduction

(* The smallest of some numbers is one of them.                            *)
LEMMA MinIn ==
  ASSUME NEW S \in SUBSET Nat, S # {}
  PROVE  Min(S) \in S
<1>. DEFINE R == {ss \in Nat \X Nat : ss[1] < ss[2]}
<1>1. IsWellFoundedOn(R, Nat)
  BY NatLessThanWellFounded, Zenon DEF OpToRel
<1>2. \E x \in S : \A y \in S : ~ (<<y, x>> \in R)
  <2>. HIDE DEF R
  <2>. QED
    BY <1>1, WFMin
<1>3. \A x, y \in Nat : <<y, x>> \notin R => x <= y
  OBVIOUS
<1>. HIDE DEF R
<1>. QED
  BY <1>2, <1>3 DEF Min

LEMMA InitIInv ==
  Init => IInv
BY VectorAssumption DEF Init, IInv, TypeOK, InBounds, Ordered, CountsAgree, Announced, Searched,
   Live, Actions, HSET_ACTION_FAIL

(* Growing keeps the cells there are; afterwards there is one to spare.    *)
LEMMA GrowKeeps ==
  ASSUME TypeOK, Grow
  PROVE  /\ capacity' \in Nat \ {0}
         /\ blks' \in [0 .. capacity' - 1 -> Elems \cup {Junk}]
         /\ blks_cnt < capacity'
         /\ \A c \in 0 .. capacity - 1 : blks'[c] = blks[c]
BY DEF TypeOK, Grow, full

LEMMA BeginKeeps ==
  ASSUME IInv, pc = "idle", NEW a \in Actions, NEW x \in Elems, Begin(a, x), todo' \subseteq Elems
  PROVE  IInv'
<1>. USE DEF IInv
<1>1. /\ capacity' \in Nat \ {0}
      /\ blks' \in [0 .. capacity' - 1 -> Elems \cup {Junk}]
      /\ blks_cnt <= capacity'
      /\ a = "INSERT_BLK" => blks_cnt < capacity'
      /\ \A c \in 0 .. blks_cnt - 1 : blks'[c] = blks[c]
  <2>1. CASE a = "INSERT_BLK"
    BY <2>1, GrowKeeps DEF Begin, TypeOK
  <2>2. CASE a # "INSERT_BLK"
    BY <2>2 DEF Begin, TypeOK
  <2>. QED
    BY <2>1, <2>2
<1>2. blks_cnt' = blks_cnt /\ blocks_cnt' = blocks_cnt /\ action' = a /\ blk_no' = x
  BY DEF Begin
<1>3. /\ blks_cnt \in Nat /\ blocks_cnt \in Nat /\ blks_cnt' \in 0 .. capacity'
      /\ left \in Nat /\ right \in Int /\ i \in Int /\ retval \in Int
      /\ blocks_cnt = blks_cnt
  BY <1>1, <1>2 DEF TypeOK, CountsAgree
<1>4. CASE blks_cnt > 0
  <2>1. /\ pc' = "search" /\ left' = 0 /\ right' = blks_cnt - 1
        /\ UNCHANGED <<i, retval>>
    BY <1>4 DEF Begin
  <2>2. left' \in Nat /\ right' \in Int /\ i' \in Int /\ retval' \in Int /\ blocks_cnt' \in Nat
    BY <1>2, <1>3, <2>1
  <2>3. TypeOK'
    BY <1>1, <1>2, <1>3, <2>1, <2>2, Zenon DEF TypeOK
  <2>4. Live' = 0 .. blks_cnt - 1 /\ Live = 0 .. blks_cnt - 1
    BY <1>2, <2>1 DEF Live
  <2>5. Ordered'
    BY <1>1, <2>4 DEF Ordered
  <2>6. InBounds' /\ CountsAgree' /\ Announced'
    BY <1>2, <1>3, <2>1, <1>4 DEF InBounds, CountsAgree, Announced
  <2>7. Searched'
    <3>1. 0 .. left' - 1 = {} /\ right' + 1 .. blks_cnt' - 1 = {}
      BY <1>2, <1>3, <2>1, <1>4
    <3>2. action' = "INSERT_BLK" => blks_cnt' < capacity'
      BY <1>1, <1>2
    <3>. QED
      BY <2>1, <3>1, <3>2, Zenon DEF Searched
  <2>. QED
    BY <2>3, <2>5, <2>6, <2>7
<1>5. CASE blks_cnt = 0 /\ a = "INSERT_BLK"
  <2>1. /\ pc' = "open" /\ left' = 0 /\ i' = -1
        /\ UNCHANGED <<right, retval>>
    BY <1>5 DEF Begin
  <2>2. left' \in Nat /\ right' \in Int /\ i' \in Int /\ retval' \in Int /\ blocks_cnt' \in Nat
    BY <1>2, <1>3, <2>1
  <2>3. TypeOK'
    BY <1>1, <1>2, <1>3, <2>1, <2>2, Zenon DEF TypeOK
  <2>4. Live' = {}
    BY <1>2, <1>5, <2>1 DEF Live
  <2>5. Ordered'
    BY <2>4 DEF Ordered
  <2>6. InBounds' /\ CountsAgree' /\ Announced' /\ Searched'
    BY <1>1, <1>2, <1>3, <2>1, <2>4, <1>5 DEF InBounds, CountsAgree, Announced, Searched
  <2>. QED
    BY <2>3, <2>5, <2>6
<1>6. CASE blks_cnt = 0 /\ a # "INSERT_BLK"
  <2>1. /\ retval' = HSET_ACTION_FAIL /\ pc' \in {"idle", "returned"}
        /\ UNCHANGED <<left, right, i>>
    BY <1>6 DEF Begin, Back
  <2>2. left' \in Nat /\ right' \in Int /\ i' \in Int /\ retval' \in Int /\ blocks_cnt' \in Nat
    BY <1>2, <1>3, <2>1 DEF HSET_ACTION_FAIL
  <2>3. TypeOK'
    BY <1>1, <1>2, <1>3, <2>1, <2>2, Zenon DEF TypeOK
  <2>4. Live' = {}
    BY <1>2, <1>6, <2>1 DEF Live
  <2>5. CountsAgree' /\ Announced'
    BY <1>2, <1>3, <2>1 DEF CountsAgree, Announced, counted
  <2>. QED
    BY <2>1, <2>3, <2>4, <2>5 DEF Ordered, InBounds, Searched
<1>. QED
  BY <1>3, <1>4, <1>5, <1>6

(* The middle of the bounds is a cell that counts, and holds a number.     *)
LEMMA MiddleIsLive ==
  ASSUME IInv, pc = "search", left <= right
  PROVE  LET m == (left + right) \div 2
         IN  /\ m \in left .. right /\ m \in 0 .. blks_cnt - 1
             /\ blks[m] \in Nat /\ blk_no \in Nat
             /\ blk_no < blks[m] \/ blk_no > blks[m] \/ blk_no = blks[m]
<1>. DEFINE m == (left + right) \div 2
<1>1. left \in Nat /\ right \in Int /\ blks_cnt \in Nat /\ right < blks_cnt
  BY DEF IInv, TypeOK, InBounds
<1>2. m \in left .. right /\ m \in 0 .. blks_cnt - 1
  BY <1>1
<1>3. blks[m] \in Nat /\ blk_no \in Nat
  BY <1>2, VectorAssumption DEF IInv, TypeOK, Ordered, Live
<1>4. blk_no < blks[m] \/ blk_no > blks[m] \/ blk_no = blks[m]
  <2>. HIDE DEF m
  <2>. QED
    BY <1>3
<1>. QED
  BY <1>2, <1>3, <1>4

LEMMA ProbeKeeps ==
  ASSUME IInv, Probe
  PROVE  IInv'
<1>. DEFINE m == (left + right) \div 2
<1>1. pc = "search" /\ left <= right
  BY DEF Probe
<1>2. /\ m \in left .. right /\ m \in 0 .. blks_cnt - 1
      /\ blks[m] \in Nat /\ blk_no \in Nat
  BY <1>1, MiddleIsLive
<1>3. UNCHANGED <<blks, capacity, blks_cnt, blocks_cnt, action, blk_no, todo>>
  BY DEF Probe, array
<1>4. /\ left \in Nat /\ right \in Int /\ i \in Int /\ retval \in Int /\ blks_cnt \in Nat
      /\ right < blks_cnt
  BY <1>1 DEF IInv, TypeOK, InBounds
<1>5. Live = 0 .. blks_cnt - 1 /\ \A c \in Live : blks[c] \in Nat
  BY <1>1, VectorAssumption DEF Live, IInv, Ordered
<1>6. \/ blk_no < blks[m] /\ right' = m - 1 /\ UNCHANGED <<pc, left, i, retval>>
      \/ blk_no > blks[m] /\ left' = m + 1 /\ UNCHANGED <<pc, right, i, retval>>
      \/ blk_no = blks[m] /\ Found(m) /\ UNCHANGED <<left, right>>
  BY DEF Probe, RightOf
<1>. HIDE DEF m
<1>7. CASE blk_no < blks[m] /\ right' = m - 1 /\ UNCHANGED <<pc, left, i, retval>>
  <2>1. TypeOK'
    BY <1>2, <1>3, <1>4, <1>7 DEF IInv, TypeOK
  <2>2. Live' = Live
    BY <1>1, <1>3, <1>7 DEF Live
  <2>3. Ordered' /\ CountsAgree' /\ Announced'
    BY <1>1, <1>3, <1>7, <2>2 DEF IInv, Ordered, CountsAgree, Announced
  <2>4. InBounds'
    BY <1>1, <1>2, <1>3, <1>4, <1>7 DEF InBounds
  <2>5. \A c \in m .. blks_cnt - 1 : blks[c] > blk_no
    <3>1. \A c \in m + 1 .. blks_cnt - 1 : blks[m] < blks[c]
      BY <1>2, <1>4, <1>5 DEF IInv, Ordered
    <3>2. \A c \in m + 1 .. blks_cnt - 1 : blks[c] \in Nat
      BY <1>2, <1>4, <1>5
    <3>. QED
      BY <1>2, <1>4, <1>7, <3>1, <3>2
  <2>6. Searched'
    BY <1>1, <1>2, <1>3, <1>4, <1>7, <2>5 DEF IInv, Searched
  <2>. QED
    BY <2>1, <2>3, <2>4, <2>6 DEF IInv
<1>8. CASE blk_no > blks[m] /\ left' = m + 1 /\ UNCHANGED <<pc, right, i, retval>>
  <2>1. TypeOK'
    BY <1>2, <1>3, <1>4, <1>8 DEF IInv, TypeOK
  <2>2. Live' = Live
    BY <1>1, <1>3, <1>8 DEF Live
  <2>3. Ordered' /\ CountsAgree' /\ Announced'
    BY <1>1, <1>3, <1>8, <2>2 DEF IInv, Ordered, CountsAgree, Announced
  <2>4. InBounds'
    BY <1>1, <1>2, <1>3, <1>4, <1>8 DEF InBounds
  <2>5. \A c \in 0 .. m : blks[c] < blk_no
    <3>1. \A c \in 0 .. m - 1 : blks[c] < blks[m]
      BY <1>2, <1>4, <1>5 DEF IInv, Ordered
    <3>2. \A c \in 0 .. m - 1 : blks[c] \in Nat
      BY <1>2, <1>4, <1>5
    <3>. QED
      BY <1>2, <1>4, <1>8, <3>1, <3>2
  <2>6. Searched'
    BY <1>1, <1>2, <1>3, <1>4, <1>8, <2>5 DEF IInv, Searched
  <2>. QED
    BY <2>1, <2>3, <2>4, <2>6 DEF IInv
<1>9. CASE blk_no = blks[m] /\ Found(m) /\ UNCHANGED <<left, right>>
  <2>1. /\ pc' \in {"idle", "close", "returned"}
        /\ pc' = "close" => i' = m /\ action = "REMOVE_BLK" /\ retval' = m
        /\ pc' = "returned" => retval' = HSET_ACTION_FAIL
        /\ i' \in Int /\ retval' \in Int
    BY <1>2, <1>4, <1>9 DEF Found, Back, HSET_ACTION_FAIL
  <2>2. TypeOK'
    BY <1>2, <1>3, <1>4, <1>9, <2>1 DEF IInv, TypeOK
  <2>3. Live' \subseteq Live
    BY <1>3, <1>5, <2>1 DEF Live
  <2>4. Ordered'
    BY <1>3, <2>3 DEF IInv, Ordered
  <2>5. InBounds' /\ Searched'
    BY <1>2, <1>3, <2>1 DEF InBounds, Searched
  <2>6. blks_cnt' = blks_cnt /\ blocks_cnt' = blocks_cnt /\ blocks_cnt = blks_cnt
    BY <1>1, <1>3 DEF IInv, CountsAgree
  <2>7. CountsAgree' /\ Announced'
    BY <1>2, <1>3, <2>1, <2>6 DEF CountsAgree, Announced, counted, HSET_ACTION_FAIL
  <2>. QED
    BY <2>2, <2>4, <2>5, <2>7 DEF IInv
<1>. QED
  BY <1>6, <1>7, <1>8, <1>9

LEMMA AbsentKeeps ==
  ASSUME IInv, Absent
  PROVE  IInv'
<1>1. pc = "search" /\ left > right
  BY DEF Absent
<1>2. UNCHANGED <<blks, capacity, blks_cnt, blocks_cnt, action, blk_no, left, right, todo>>
  BY DEF Absent, array
<1>3. /\ left \in Nat /\ right \in Int /\ i \in Int /\ retval \in Int /\ blks_cnt \in Nat
      /\ right < blks_cnt /\ left = right + 1
  BY <1>1 DEF IInv, TypeOK, InBounds
<1>4. Live = 0 .. blks_cnt - 1
  BY <1>1 DEF Live
<1>5. CASE action = "INSERT_BLK"
  <2>1. pc' = "open" /\ i' = blks_cnt - 1 /\ retval' = retval
    BY <1>5 DEF Absent, LastMoved
  <2>2. TypeOK'
    BY <1>2, <1>3, <2>1 DEF IInv, TypeOK
  <2>3. Live' = Live
    <3>1. Live' = (0 .. blks_cnt) \ {blks_cnt}
      <4>1. blks_cnt' = blks_cnt /\ i' + 1 = blks_cnt
        BY <1>2, <1>3, <2>1
      <4>. QED
        BY <2>1, <4>1, Zenon DEF Live
    <3>2. (0 .. blks_cnt) \ {blks_cnt} = 0 .. blks_cnt - 1
      BY <1>3
    <3>. QED
      BY <1>4, <3>1, <3>2
  <2>4. Ordered' /\ CountsAgree' /\ Announced'
    BY <1>1, <1>2, <2>1, <2>3 DEF IInv, Ordered, CountsAgree, Announced
  <2>5. blks_cnt < capacity
    BY <1>1, <1>5 DEF IInv, Searched
  <2>6. InBounds'
    BY <1>2, <1>3, <2>1, <2>5 DEF InBounds
  <2>7. Searched'
    BY <1>1, <1>2, <1>3, <1>4, <1>5, <2>1, <2>3 DEF IInv, Searched
  <2>. QED
    BY <2>2, <2>4, <2>6, <2>7 DEF IInv
<1>6. CASE action # "INSERT_BLK"
  <2>1. pc' \in {"idle", "returned"} /\ i' = i /\ retval' = HSET_ACTION_FAIL
    BY <1>6 DEF Absent, Back
  <2>2. TypeOK'
    BY <1>2, <1>3, <2>1 DEF IInv, TypeOK, HSET_ACTION_FAIL
  <2>3. Live' = Live
    BY <1>2, <1>4, <2>1 DEF Live
  <2>4. Ordered' /\ CountsAgree' /\ Announced'
    BY <1>1, <1>2, <2>1, <2>3 DEF IInv, Ordered, CountsAgree, Announced, counted
  <2>. QED
    BY <2>1, <2>2, <2>4 DEF IInv, InBounds, Searched
<1>. QED
  BY <1>5, <1>6

(* Moving a cell up moves the hole down by one.                            *)
LEMMA OpenKeeps ==
  ASSUME IInv, Open
  PROVE  IInv'
<1>1. pc = "open" /\ i >= left
  BY DEF Open
<1>2. /\ UNCHANGED <<capacity, blks_cnt, blocks_cnt, pc, action, blk_no, left, right, retval, todo>>
      /\ blks' = [blks EXCEPT ![i + 1] = blks[i]] /\ i' = i - 1
  BY DEF Open
<1>3. /\ blks_cnt \in Nat /\ capacity \in Nat /\ blks_cnt < capacity
      /\ left \in 0 .. blks_cnt /\ i \in 0 .. blks_cnt - 1
      /\ blks \in [0 .. capacity - 1 -> Elems \cup {Junk}]
  BY <1>1 DEF IInv, TypeOK, InBounds
<1>4. /\ Live = (0 .. blks_cnt) \ {i + 1}
      /\ Live' = (0 .. blks_cnt) \ {i}
  BY <1>1, <1>2, <1>3 DEF Live
<1>5. /\ blks'[i + 1] = blks[i]
      /\ \A c \in 0 .. blks_cnt : c # i + 1 => blks'[c] = blks[c]
      /\ blks' \in [0 .. capacity - 1 -> Elems \cup {Junk}]
  BY <1>2, <1>3
<1>6. TypeOK'
  BY <1>2, <1>3, <1>5 DEF IInv, TypeOK
<1>7. \A c \in Live : blks[c] \in Elems /\ blks[c] \in Nat
  BY VectorAssumption DEF IInv, Ordered
<1>8. \A c, d \in Live : c < d => blks[c] < blks[d]
  BY DEF IInv, Ordered
<1>9. Ordered'
  <2>1. \A c \in Live' : blks'[c] \in Elems
    BY <1>3, <1>4, <1>5, <1>7
  <2>2. ASSUME NEW c \in Live', NEW d \in Live', c < d
        PROVE  blks'[c] < blks'[d]
    <3>1. CASE c = i + 1
      BY <1>3, <1>4, <1>5, <1>8, <2>2, <3>1
    <3>2. CASE d = i + 1
      BY <1>3, <1>4, <1>5, <1>8, <2>2, <3>2
    <3>3. CASE c # i + 1 /\ d # i + 1
      BY <1>3, <1>4, <1>5, <1>8, <2>2, <3>3
    <3>. QED
      BY <3>1, <3>2, <3>3
  <2>. QED
    BY <2>1, <2>2 DEF Ordered
<1>10. CountsAgree' /\ Announced' /\ InBounds'
  BY <1>1, <1>2, <1>3 DEF IInv, CountsAgree, Announced, InBounds
<1>11. Searched'
  <2>1. /\ action = "INSERT_BLK"
        /\ \A c \in Live : c < left => blks[c] < blk_no
        /\ \A c \in Live : c >= left => blks[c] > blk_no
    BY <1>1 DEF IInv, Searched
  <2>2. /\ \A c \in Live' : c < left => blks'[c] < blk_no
        /\ \A c \in Live' : c >= left => blks'[c] > blk_no
    BY <1>1, <1>3, <1>4, <1>5, <2>1
  <2>. QED
    BY <1>1, <1>2, <2>1, <2>2 DEF Searched
<1>. QED
  BY <1>6, <1>9, <1>10, <1>11 DEF IInv

(* The number fills the hole.                                              *)
LEMMA PlaceKeeps ==
  ASSUME IInv, Place
  PROVE  IInv'
<1>1. pc = "open" /\ i < left
  BY DEF Place
<1>2. /\ UNCHANGED <<capacity, blocks_cnt, action, blk_no, left, right, i, todo>>
      /\ blks' = [blks EXCEPT ![left] = blk_no]
      /\ blks_cnt' = blks_cnt + 1
      /\ action = "INSERT_BLK"
      /\ retval' = left /\ pc' = "returned"
  BY <1>1 DEF Place, Back, IInv, Searched
<1>3. /\ blks_cnt \in Nat /\ capacity \in Nat /\ blks_cnt < capacity
      /\ left \in 0 .. blks_cnt /\ i = left - 1 /\ i \in Int
      /\ blks \in [0 .. capacity - 1 -> Elems \cup {Junk}]
      /\ blk_no \in Elems /\ blocks_cnt \in Nat /\ blocks_cnt = blks_cnt
  BY <1>1 DEF IInv, TypeOK, InBounds, CountsAgree
<1>4. /\ Live = (0 .. blks_cnt) \ {left}
      /\ Live' = 0 .. blks_cnt
  BY <1>1, <1>2, <1>3 DEF Live
<1>5. /\ blks'[left] = blk_no
      /\ \A c \in 0 .. blks_cnt : c # left => blks'[c] = blks[c]
      /\ blks' \in [0 .. capacity - 1 -> Elems \cup {Junk}]
  BY <1>2, <1>3
<1>6. TypeOK'
  BY <1>2, <1>3, <1>5 DEF IInv, TypeOK
<1>7. /\ \A c \in Live : c < left => blks[c] < blk_no
      /\ \A c \in Live : c >= left => blks[c] > blk_no
      /\ \A c \in Live : blks[c] \in Nat
      /\ blk_no \in Nat
  BY <1>1, <1>3, VectorAssumption DEF IInv, Searched, Ordered
<1>8. Ordered'
  <2>1. \A c \in Live' : blks'[c] \in Elems
    BY <1>3, <1>4, <1>5 DEF IInv, Ordered
  <2>2. ASSUME NEW c \in Live', NEW d \in Live', c < d
        PROVE  blks'[c] < blks'[d]
    <3>1. CASE c = left
      BY <1>3, <1>4, <1>5, <1>7, <2>2, <3>1
    <3>2. CASE d = left
      BY <1>3, <1>4, <1>5, <1>7, <2>2, <3>2
    <3>3. CASE c # left /\ d # left
      BY <1>3, <1>4, <1>5, <2>2, <3>3 DEF IInv, Ordered
    <3>. QED
      BY <3>1, <3>2, <3>3
  <2>. QED
    BY <2>1, <2>2 DEF Ordered
<1>9. CountsAgree' /\ Announced'
  BY <1>2, <1>3 DEF CountsAgree, Announced, counted, HSET_ACTION_FAIL
<1>. QED
  BY <1>2, <1>6, <1>8, <1>9 DEF IInv, InBounds, Searched

(* Moving a cell down moves the hole up by one.                            *)
LEMMA CloseKeeps ==
  ASSUME IInv, Close
  PROVE  IInv'
<1>1. pc = "close" /\ i < blks_cnt - 1
  BY DEF Close, closed, IInv, TypeOK
<1>2. /\ UNCHANGED <<capacity, blks_cnt, blocks_cnt, pc, action, blk_no, left, right, retval, todo>>
      /\ blks' = [blks EXCEPT ![i] = blks[i + 1]] /\ i' = i + 1
  BY DEF Close
<1>3. /\ blks_cnt \in Nat /\ capacity \in Nat /\ blks_cnt <= capacity
      /\ i \in 0 .. blks_cnt - 2
      /\ blks \in [0 .. capacity - 1 -> Elems \cup {Junk}]
  BY <1>1 DEF IInv, TypeOK, InBounds
<1>4. /\ Live = (0 .. blks_cnt - 1) \ {i}
      /\ Live' = (0 .. blks_cnt - 1) \ {i + 1}
  BY <1>1, <1>2, <1>3 DEF Live
<1>5. /\ blks'[i] = blks[i + 1]
      /\ \A c \in 0 .. blks_cnt - 1 : c # i => blks'[c] = blks[c]
      /\ blks' \in [0 .. capacity - 1 -> Elems \cup {Junk}]
  BY <1>2, <1>3
<1>6. TypeOK'
  BY <1>2, <1>3, <1>5 DEF IInv, TypeOK
<1>7. Ordered'
  <2>1. \A c \in Live' : blks'[c] \in Elems
    BY <1>3, <1>4, <1>5 DEF IInv, Ordered
  <2>2. ASSUME NEW c \in Live', NEW d \in Live', c < d
        PROVE  blks'[c] < blks'[d]
    <3>1. CASE c = i
      BY <1>3, <1>4, <1>5, <2>2, <3>1 DEF IInv, Ordered
    <3>2. CASE d = i
      BY <1>3, <1>4, <1>5, <2>2, <3>2 DEF IInv, Ordered
    <3>3. CASE c # i /\ d # i
      BY <1>3, <1>4, <1>5, <2>2, <3>3 DEF IInv, Ordered
    <3>. QED
      BY <3>1, <3>2, <3>3
  <2>. QED
    BY <2>1, <2>2 DEF Ordered
<1>. QED
  BY <1>1, <1>2, <1>3, <1>6, <1>7 DEF IInv, CountsAgree, Announced, InBounds, Searched

(* The hole has reached the end, and the bucket's count follows.           *)
LEMMA RemovedKeeps ==
  ASSUME IInv, Removed
  PROVE  IInv'
<1>1. /\ pc = "close" /\ i >= blks_cnt - 1
      /\ UNCHANGED <<blks, capacity, blocks_cnt, action, blk_no, left, right, i, retval, todo>>
      /\ action = "REMOVE_BLK" /\ retval # HSET_ACTION_FAIL
      /\ pc' = "returned"
      /\ blks_cnt' = blks_cnt - 1
  BY DEF Removed, closed, local, Back, IInv, Announced
<1>2. /\ blks_cnt \in Nat \ {0} /\ i = blks_cnt - 1 /\ capacity \in Nat
      /\ blks_cnt <= capacity /\ blocks_cnt = blks_cnt
  BY <1>1 DEF IInv, TypeOK, InBounds, CountsAgree
<1>3. TypeOK'
  BY <1>1, <1>2 DEF IInv, TypeOK
<1>4. Live' = 0 .. blks_cnt - 2 /\ Live = 0 .. blks_cnt - 2
  BY <1>1, <1>2 DEF Live
<1>5. Ordered'
  BY <1>1, <1>4 DEF IInv, Ordered
<1>6. CountsAgree' /\ Announced'
  BY <1>1, <1>2 DEF CountsAgree, Announced, counted
<1>. QED
  BY <1>1, <1>3, <1>5, <1>6 DEF IInv, InBounds, Searched

(* Counting gives the vector the count its bucket has.                     *)
LEMMA CountedKeeps ==
  ASSUME IInv, Counted
  PROVE  IInv'
<1>1. /\ pc = "returned" /\ pc' = "idle"
      /\ UNCHANGED <<blks, capacity, blks_cnt, action, blk_no, left, right, i, retval, todo>>
      /\ blocks_cnt' = blks_cnt /\ blks_cnt \in Nat
  BY DEF Counted, local, IInv, Announced, TypeOK
<1>2. TypeOK'
  BY <1>1 DEF IInv, TypeOK
<1>3. Ordered'
  BY <1>1 DEF IInv, Ordered, Live
<1>. QED
  BY <1>1, <1>2, <1>3 DEF IInv, CountsAgree, Announced, InBounds, Searched

LEMMA EmptyingKeeps ==
  ASSUME IInv, pc = "idle", remove_all_elements, UNCHANGED <<blks, capacity, pc, local>>,
         todo' \subseteq Elems
  PROVE  IInv'
<1>1. /\ blks_cnt' = 0 /\ blocks_cnt' = 0 /\ pc' = "idle"
      /\ UNCHANGED <<blks, capacity, action, blk_no, left, right, i, retval>>
  BY DEF remove_all_elements, Emptied, local
<1>2. TypeOK'
  BY <1>1 DEF IInv, TypeOK
<1>3. Live' = {}
  BY <1>1 DEF Live
<1>. QED
  BY <1>1, <1>2, <1>3 DEF IInv, Ordered, CountsAgree, Announced, InBounds, Searched

LEMMA CopyNextKeeps ==
  ASSUME IInv, CopyNext
  PROVE  IInv'
<1>1. todo \in SUBSET Nat /\ todo \subseteq Elems /\ todo # {}
  BY VectorAssumption DEF IInv, TypeOK, CopyNext
<1>2. Min(todo) \in Elems
  BY <1>1, MinIn
<1>. QED
  BY <1>1, <1>2, BeginKeeps DEF CopyNext, Actions

LEMMA NextKeepsIInv ==
  ASSUME IInv, [Next]_vars
  PROVE  IInv'
<1>1. ASSUME NEW a \in Actions, NEW x \in Elems, Call(a, x)
      PROVE  IInv'
  <2>1. pc = "idle" /\ Begin(a, x) /\ todo' \subseteq Elems
    BY <1>1 DEF Call, IInv, TypeOK
  <2>. QED
    BY <2>1, BeginKeeps
<1>2. CASE RemoveAll
  <2>1. todo' \subseteq Elems
    BY <1>2 DEF RemoveAll, IInv, TypeOK
  <2>. QED
    BY <1>2, <2>1, EmptyingKeeps DEF RemoveAll
<1>3. ASSUME NEW S \in SUBSET Elems, CopyAll(S)
      PROVE  IInv'
  BY <1>3, EmptyingKeeps DEF CopyAll
<1>4. CASE Step
  BY <1>4, ProbeKeeps, AbsentKeeps, OpenKeeps, PlaceKeeps, CloseKeeps, RemovedKeeps,
     CountedKeeps, CopyNextKeeps DEF Step
<1>5. CASE UNCHANGED vars
  BY <1>5 DEF vars, array, local, IInv, TypeOK, InBounds, Ordered, CountsAgree, Announced,
     counted, Searched, Live
<1>. QED
  BY <1>1, <1>2, <1>3, <1>4, <1>5 DEF Next

(* The vector stays sorted and within its array, its two counts agree and  *)
(* every search is right about what is outside its bounds (do_blk_no,      *)
(* hash_set.c:38-91).                                                      *)
THEOREM VectorInvariant == Spec => []IInv
<1>1. Init => IInv
  BY InitIInv
<1>2. IInv /\ [Next]_vars => IInv'
  BY NextKeepsIInv
<1>. QED
  BY <1>1, <1>2, PTL DEF Spec

(* No loop leaves the array, however often it has grown (hash_set.c:63,    *)
(* 78, 83).                                                                *)
THEOREM VectorInBounds == Spec => []InBounds
<1>1. IInv => InBounds
  BY DEF IInv
<1>. QED
  BY <1>1, VectorInvariant, PTL

(* The cells that count are in increasing order, also while they are being *)
(* moved (hash_set.c:38-91).                                               *)
THEOREM VectorOrdered == Spec => []Ordered
<1>1. IInv => Ordered
  BY DEF IInv
<1>. QED
  BY <1>1, VectorInvariant, PTL

(* The two counts of the elements agree: what do_blk_no returns says what  *)
(* it did to the count of the bucket, so the function that called it makes *)
(* the count of the vector follow (hash_set.c:66, 90, 149-151, 163-165,    *)
(* 297-298).                                                               *)
THEOREM VectorCountsAgree == Spec => []CountsAgree
<1>1. IInv => CountsAgree
  BY DEF IInv
<1>. QED
  BY <1>1, VectorInvariant, PTL

----------------------------------------------------------------------------
(* Refinement: what each step does to the set of numbers.                  *)

LEMMA BeginImplements ==
  ASSUME IInv, pc = "idle", NEW a \in Actions, NEW x \in Elems, Begin(a, x)
  PROVE  Set!Call(a, x)
<1>1. /\ action' = a /\ blk_no' = x /\ blks_cnt' = blks_cnt
      /\ blks_cnt \in Nat /\ Phase = "idle"
  BY DEF Begin, IInv, TypeOK, Phase
<1>2. \A c \in 0 .. blks_cnt - 1 : blks'[c] = blks[c]
  <2>1. CASE a = "INSERT_BLK"
    BY <2>1, GrowKeeps DEF Begin, IInv, TypeOK
  <2>2. CASE a # "INSERT_BLK"
    BY <2>2 DEF Begin
  <2>. QED
    BY <2>1, <2>2
<1>3. Live = 0 .. blks_cnt - 1
  BY DEF Live
<1>4. CASE blks_cnt > 0
  <2>1. pc' = "search" /\ retval' = retval
    BY <1>4 DEF Begin
  <2>2. Live' = Live
    BY <1>1, <1>3, <2>1 DEF Live
  <2>3. Content' = Content /\ Phase' = "called"
    BY <1>2, <1>3, <2>1, <2>2 DEF Content, Phase
  <2>. QED
    BY <1>1, <2>1, <2>3 DEF Set!Call
<1>5. CASE blks_cnt = 0 /\ a = "INSERT_BLK"
  <2>1. pc' = "open" /\ retval' = retval /\ i' = -1
    BY <1>5 DEF Begin
  <2>2. Live = {} /\ Live' = {}
    BY <1>1, <1>3, <1>5, <2>1 DEF Live
  <2>3. Content' = Content /\ Phase' = "called"
    BY <2>1, <2>2 DEF Content, Phase
  <2>. QED
    BY <1>1, <2>1, <2>3 DEF Set!Call
<1>6. CASE blks_cnt = 0 /\ a # "INSERT_BLK"
  <2>1. pc' \in {"idle", "returned"} /\ retval' = HSET_ACTION_FAIL
    BY <1>6 DEF Begin, Back
  <2>2. Live = {} /\ Live' = {}
    BY <1>1, <1>3, <1>6, <2>1 DEF Live
  <2>3. Content = {} /\ Content' = {} /\ Phase' \in {"done", "idle"}
    BY <2>1, <2>2 DEF Content, Phase
  <2>. QED
    BY <1>1, <1>6, <2>1, <2>3 DEF Set!Call, Set!Effect
<1>. QED
  BY <1>1, <1>4, <1>5, <1>6

(* Finding the number performs a search or a removal, and makes an         *)
(* insertion fail; a turn that only narrows the bounds changes nothing.    *)
LEMMA ProbeImplements ==
  ASSUME IInv, Probe
  PROVE  Set!Perform \/ UNCHANGED Set!vars
<1>. DEFINE m == (left + right) \div 2
<1>1. pc = "search" /\ left <= right /\ Phase = "called"
  BY DEF Probe, Phase
<1>2. m \in 0 .. blks_cnt - 1
  BY <1>1, MiddleIsLive
<1>3. UNCHANGED <<blks, blks_cnt, action, blk_no>>
  BY DEF Probe, array
<1>4. Live = 0 .. blks_cnt - 1
  BY <1>1 DEF Live
<1>5. \/ UNCHANGED <<pc, i, retval>>
      \/ blk_no = blks[m] /\ Found(m)
  BY DEF Probe
<1>. HIDE DEF m
<1>6. CASE UNCHANGED <<pc, i, retval>>
  BY <1>3, <1>6 DEF Set!vars, Content, Live, Phase
<1>7. CASE blk_no = blks[m] /\ Found(m)
  <2>1. blk_no \in Content /\ m # HSET_ACTION_FAIL
    BY <1>2, <1>4, <1>7 DEF Content, HSET_ACTION_FAIL
  <2>2. CASE action \in {"SEARCH_BLK", "INSERT_BLK"}
    <3>1. /\ pc' \in {"idle", "returned"}
          /\ (retval' # HSET_ACTION_FAIL) = (action = "SEARCH_BLK")
      BY <1>7, <2>1, <2>2 DEF Found, Back
    <3>2. Content' = Content /\ Phase' \in {"done", "idle"}
      BY <1>3, <1>4, <3>1 DEF Content, Live, Phase
    <3>. QED
      BY <1>1, <1>3, <2>1, <2>2, <3>1, <3>2 DEF Set!Perform, Set!Effect
  <2>3. CASE action = "REMOVE_BLK"
    <3>1. pc' = "close" /\ i' = m /\ retval' = m
      BY <1>7, <2>3 DEF Found
    <3>2. Live' = Live \ {m} /\ Phase' = "done"
      BY <1>3, <1>4, <3>1 DEF Live, Phase
    <3>3. \A c \in Live : c # m => blks[c] # blks[m]
      <4>1. m \in Live /\ m \in Int /\ Live \subseteq Int
        BY <1>2, <1>4
      <4>2. \A c \in Live : blks[c] \in Nat
        BY VectorAssumption DEF IInv, Ordered
      <4>3. \A c, d \in Live : c < d => blks[c] < blks[d]
        BY DEF IInv, Ordered
      <4>. QED
        BY <4>1, <4>2, <4>3
    <3>4. Content' = Content \ {blk_no}
      BY <1>2, <1>3, <1>4, <1>7, <3>2, <3>3 DEF Content
    <3>. QED
      BY <1>1, <1>3, <2>1, <2>3, <3>1, <3>2, <3>4 DEF Set!Perform, Set!Effect
  <2>. QED
    BY <1>7, <2>2, <2>3 DEF Found
<1>. QED
  BY <1>5, <1>6, <1>7

LEMMA AbsentImplements ==
  ASSUME IInv, Absent
  PROVE  Set!Perform \/ UNCHANGED Set!vars
<1>1. pc = "search" /\ left > right /\ Phase = "called"
  BY DEF Absent, Phase
<1>2. UNCHANGED <<blks, blks_cnt, action, blk_no>>
  BY DEF Absent, array
<1>3. /\ left \in Nat /\ right \in Int /\ blks_cnt \in Nat
      /\ right < blks_cnt /\ left = right + 1
  BY <1>1 DEF IInv, TypeOK, InBounds
<1>4. Live = 0 .. blks_cnt - 1
  BY <1>1 DEF Live
<1>5. CASE action = "INSERT_BLK"
  <2>1. pc' = "open" /\ i' = blks_cnt - 1 /\ retval' = retval
    BY <1>5 DEF Absent, LastMoved
  <2>2. Live' = (0 .. blks_cnt) \ {blks_cnt}
    BY <1>2, <1>3, <2>1 DEF Live
  <2>3. Live' = Live
    BY <1>3, <1>4, <2>2
  <2>4. Phase' = "called"
    BY <2>1 DEF Phase
  <2>. QED
    BY <1>1, <1>2, <2>1, <2>3, <2>4 DEF Set!vars, Content
<1>6. CASE action # "INSERT_BLK"
  <2>1. pc' \in {"idle", "returned"} /\ retval' = HSET_ACTION_FAIL
    BY <1>6 DEF Absent, Back
  <2>2. Live' = Live /\ Phase' \in {"done", "idle"}
    BY <1>2, <1>4, <2>1 DEF Live, Phase
  <2>3. \A c \in Live : blks[c] # blk_no
    <3>1. \A c \in 0 .. left - 1 : blks[c] < blk_no
      BY <1>1 DEF IInv, Searched
    <3>2. \A c \in right + 1 .. blks_cnt - 1 : blks[c] > blk_no
      BY <1>1 DEF IInv, Searched
    <3>3. \A c \in Live : blks[c] \in Nat
      BY VectorAssumption DEF IInv, Ordered
    <3>. QED
      BY <1>3, <1>4, <3>1, <3>2, <3>3, VectorAssumption DEF IInv, TypeOK
  <2>4. Content' = Content /\ blk_no \notin Content
    BY <1>2, <2>2, <2>3 DEF Content
  <2>. QED
    BY <1>1, <1>2, <1>6, <2>1, <2>2, <2>4 DEF Set!Perform, Set!Effect
<1>. QED
  BY <1>5, <1>6

LEMMA OpenImplements ==
  ASSUME IInv, Open
  PROVE  UNCHANGED Set!vars
<1>1. pc = "open" /\ i >= left
  BY DEF Open
<1>2. /\ UNCHANGED <<blks_cnt, pc, action, blk_no, retval>>
      /\ blks' = [blks EXCEPT ![i + 1] = blks[i]] /\ i' = i - 1
  BY DEF Open
<1>3. /\ blks_cnt \in Nat /\ capacity \in Nat /\ blks_cnt < capacity
      /\ i \in 0 .. blks_cnt - 1
      /\ blks \in [0 .. capacity - 1 -> Elems \cup {Junk}]
  BY <1>1 DEF IInv, TypeOK, InBounds
<1>4. /\ Live = (0 .. blks_cnt) \ {i + 1}
      /\ Live' = (0 .. blks_cnt) \ {i}
  BY <1>1, <1>2, <1>3 DEF Live
<1>5. /\ blks'[i + 1] = blks[i]
      /\ \A c \in 0 .. blks_cnt : c # i + 1 => blks'[c] = blks[c]
  BY <1>2, <1>3
<1>6. Content' = Content
  <2>1. \A c \in Live : \E d \in Live' : blks'[d] = blks[c]
    BY <1>3, <1>4, <1>5
  <2>2. \A d \in Live' : \E c \in Live : blks'[d] = blks[c]
    BY <1>3, <1>4, <1>5
  <2>. QED
    BY <2>1, <2>2 DEF Content
<1>. QED
  BY <1>2, <1>6 DEF Set!vars, Phase

LEMMA PlaceImplements ==
  ASSUME IInv, Place
  PROVE  Set!Perform
<1>1. pc = "open" /\ i < left /\ Phase = "called"
  BY DEF Place, Phase
<1>2. /\ UNCHANGED <<action, blk_no>>
      /\ blks' = [blks EXCEPT ![left] = blk_no]
      /\ blks_cnt' = blks_cnt + 1
      /\ retval' = left /\ pc' \in {"idle", "returned"}
  BY DEF Place, Back
<1>3. /\ blks_cnt \in Nat /\ capacity \in Nat /\ blks_cnt < capacity
      /\ left \in 0 .. blks_cnt /\ i = left - 1
      /\ blks \in [0 .. capacity - 1 -> Elems \cup {Junk}]
  BY <1>1 DEF IInv, TypeOK, InBounds
<1>4. /\ Live = (0 .. blks_cnt) \ {left}
      /\ Live' = 0 .. blks_cnt
  BY <1>1, <1>2, <1>3 DEF Live
<1>5. /\ blks'[left] = blk_no
      /\ \A c \in 0 .. blks_cnt : c # left => blks'[c] = blks[c]
  BY <1>2, <1>3
<1>6. action = "INSERT_BLK" /\ \A c \in Live : blks[c] # blk_no
  <2>1. /\ action = "INSERT_BLK"
        /\ \A c \in Live : c < left => blks[c] < blk_no
        /\ \A c \in Live : c >= left => blks[c] > blk_no
    BY <1>1 DEF IInv, Searched
  <2>2. blk_no \in Nat /\ \A c \in Live : blks[c] \in Nat
    BY VectorAssumption DEF IInv, TypeOK, Ordered
  <2>3. \A c \in Live : c < left \/ c >= left
    BY <1>3, <1>4
  <2>. QED
    BY <2>1, <2>2, <2>3
<1>7. Content' = Content \cup {blk_no} /\ blk_no \notin Content
  <2>1. Live' = Live \cup {left}
    BY <1>3, <1>4
  <2>. QED
    BY <1>4, <1>5, <1>6, <2>1 DEF Content
<1>8. retval' # HSET_ACTION_FAIL /\ Phase' \in {"done", "idle"}
  BY <1>2, <1>3 DEF HSET_ACTION_FAIL, Phase
<1>. QED
  BY <1>1, <1>2, <1>6, <1>7, <1>8 DEF Set!Perform, Set!Effect

LEMMA CloseImplements ==
  ASSUME IInv, Close
  PROVE  UNCHANGED Set!vars
<1>1. pc = "close" /\ i < blks_cnt - 1
  BY DEF Close, closed, IInv, TypeOK
<1>2. /\ UNCHANGED <<blks_cnt, pc, action, blk_no, retval>>
      /\ blks' = [blks EXCEPT ![i] = blks[i + 1]] /\ i' = i + 1
  BY DEF Close
<1>3. /\ blks_cnt \in Nat /\ capacity \in Nat /\ blks_cnt <= capacity
      /\ i \in 0 .. blks_cnt - 2
      /\ blks \in [0 .. capacity - 1 -> Elems \cup {Junk}]
  BY <1>1 DEF IInv, TypeOK, InBounds
<1>4. /\ Live = (0 .. blks_cnt - 1) \ {i}
      /\ Live' = (0 .. blks_cnt - 1) \ {i + 1}
  BY <1>1, <1>2, <1>3 DEF Live
<1>5. /\ blks'[i] = blks[i + 1]
      /\ \A c \in 0 .. blks_cnt - 1 : c # i => blks'[c] = blks[c]
  BY <1>2, <1>3
<1>6. Content' = Content
  <2>1. \A c \in Live : \E d \in Live' : blks'[d] = blks[c]
    BY <1>3, <1>4, <1>5
  <2>2. \A d \in Live' : \E c \in Live : blks'[d] = blks[c]
    BY <1>3, <1>4, <1>5
  <2>. QED
    BY <2>1, <2>2 DEF Content
<1>. QED
  BY <1>2, <1>6 DEF Set!vars, Phase

LEMMA RemovedImplements ==
  ASSUME IInv, Removed
  PROVE  UNCHANGED Set!vars
<1>1. /\ pc = "close" /\ i >= blks_cnt - 1
      /\ UNCHANGED <<blks, action, blk_no, retval>>
      /\ pc' = "returned" /\ blks_cnt' = blks_cnt - 1
  BY DEF Removed, closed, local, Back, IInv, Announced
<1>2. blks_cnt \in Nat \ {0} /\ i = blks_cnt - 1
  BY <1>1 DEF IInv, TypeOK, InBounds
<1>3. Live' = Live
  BY <1>1, <1>2 DEF Live
<1>. QED
  BY <1>1, <1>3 DEF Set!vars, Content, Phase

LEMMA CountedImplements ==
  ASSUME IInv, Counted
  PROVE  Set!Return
BY DEF Counted, local, Set!Return, Content, Live, Phase

LEMMA EmptyingImplements ==
  ASSUME pc = "idle", remove_all_elements, UNCHANGED <<pc, local>>
  PROVE  Set!RemoveAll
<1>1. blks_cnt' = 0 /\ pc' = "idle" /\ UNCHANGED <<action, blk_no, retval>>
  BY DEF remove_all_elements, Emptied, local
<1>2. Live' = {}
  BY <1>1 DEF Live
<1>3. Content' = {}
  BY <1>2 DEF Content
<1>. QED
  BY <1>1, <1>3 DEF Set!RemoveAll, Phase

LEMMA InitImplements == Init => Set!Init
<1>. SUFFICES ASSUME Init PROVE Set!Init
  OBVIOUS
<1>1. Live = {}
  BY DEF Init, Live
<1>2. Content = {}
  BY <1>1 DEF Content
<1>. QED
  BY <1>2 DEF Init, Set!Init, Phase, HSET_ACTION_FAIL

LEMMA NextImplements ==
  ASSUME IInv, [Next]_vars
  PROVE  [Set!Next]_(Set!vars)
<1>1. ASSUME NEW a \in Actions, NEW x \in Elems, Call(a, x)
      PROVE  Set!Next
  <2>1. Set!Call(a, x)
    BY <1>1, BeginImplements DEF Call
  <2>. QED
    BY <2>1 DEF Set!Next, Actions
<1>2. CASE CopyNext
  <2>1. todo \in SUBSET Nat /\ todo \subseteq Elems /\ todo # {}
    BY <1>2, VectorAssumption DEF IInv, TypeOK, CopyNext
  <2>2. Min(todo) \in Elems
    BY <2>1, MinIn
  <2>3. Set!Call("INSERT_BLK", Min(todo))
    BY <1>2, <2>2, BeginImplements DEF CopyNext, Actions
  <2>. QED
    BY <2>2, <2>3 DEF Set!Next
<1>3. CASE RemoveAll
  BY <1>3, EmptyingImplements DEF RemoveAll, Set!Next
<1>4. ASSUME NEW S \in SUBSET Elems, CopyAll(S)
      PROVE  Set!Next
  BY <1>4, EmptyingImplements DEF CopyAll, Set!Next
<1>5. CASE Probe \/ Absent \/ Open \/ Place \/ Close \/ Removed \/ Counted
  BY <1>5, ProbeImplements, AbsentImplements, OpenImplements, PlaceImplements,
     CloseImplements, RemovedImplements, CountedImplements DEF Set!Next
<1>6. CASE UNCHANGED vars
  BY <1>6 DEF vars, array, local, Set!vars, Content, Live, Phase
<1>. QED
  BY <1>1, <1>2, <1>3, <1>4, <1>5, <1>6 DEF Next, Step

(* The vector is a set to its callers: every operation changes it once, by *)
(* the number it was given, and says whether it did (do_blk_no's comment,  *)
(* hash_set.c:27-36); moving cells, growing and copying change nothing     *)
(* more.                                                                   *)
THEOREM VectorImplementsSet == Spec => ImplementsSet
<1>1. Init => Set!Init
  BY InitImplements
<1>2. IInv /\ [Next]_vars => [Set!Next]_(Set!vars)
  BY NextImplements
<1>. QED
  BY <1>1, <1>2, VectorInvariant, PTL DEF Spec, ImplementsSet, Set!Spec

=============================================================================
