---------------------------- MODULE SortedVector ----------------------------
(***************************************************************************)
(* The sorted vector of hash_set.c, a hash set with one bucket: the vector *)
(* of free buffers, of fully invalid bands and the six vectors of the ext2 *)
(* detector are its instances.  do_blk_no finds a number by binary search  *)
(* and moves the cells behind it one at a time; an action is one turn of   *)
(* one of its loops.                                                       *)
(***************************************************************************)
EXTENDS Integers, FiniteSets, FiniteSetsExt

CONSTANTS Elems,                    \* the block numbers inserted
          DEF_CAPACITY_OF_BUCKET,   \* hash_set.h
          Junk                      \* content of memory nothing has been written to

ASSUME VectorAssumption ==
  /\ Elems \subseteq Nat
  /\ IsFiniteSet(Elems)
  /\ DEF_CAPACITY_OF_BUCKET \in Nat \ {0}

VARIABLES
  blks,        \* buckets[0]->blks, the array
  capacity,    \* buckets[0]->capacity, its length
  blks_cnt,    \* buckets[0]->blks_cnt, which do_blk_no goes by
  blocks_cnt,  \* the vector's own count, which get_vect_size returns
  pc,          \* "idle", the loop of do_blk_no that is running, or "returned"
               \* once it is back in the function that changes blocks_cnt
  action, blk_no,   \* the arguments of do_blk_no
  left, right, \* bounds of the binary search
  i,           \* variable of the loops that move cells (j in the second)
  retval,      \* result of the last do_blk_no
  todo         \* what copy_all_elements has still to insert

array == <<blks, capacity, blks_cnt, blocks_cnt>>
local == <<action, blk_no, left, right, i, retval>>
vars  == <<array, pc, local, todo>>

HSET_ACTION_FAIL == -1
Actions == {"SEARCH_BLK", "INSERT_BLK", "REMOVE_BLK"}

(* create_sorted_vector *)
Init ==
  /\ blks = [c \in 0 .. DEF_CAPACITY_OF_BUCKET - 1 |-> Junk]
  /\ capacity = DEF_CAPACITY_OF_BUCKET
  /\ blks_cnt = 0
  /\ blocks_cnt = 0
  /\ pc = "idle"
  /\ action = "SEARCH_BLK"
  /\ blk_no \in Elems
  /\ left = 0 /\ right = 0 /\ i = 0
  /\ retval = HSET_ACTION_FAIL
  /\ todo = {}

(* insert_into_sorted_vector doubles a full array before it searches.      *)
full_OneLate == blks_cnt > capacity
full == blks_cnt = capacity

Grow ==
  IF full
  THEN /\ capacity' = 2 * capacity
       /\ blks' = [c \in 0 .. 2 * capacity - 1 |-> IF c < capacity THEN blks[c] ELSE Junk]
  ELSE UNCHANGED <<capacity, blks>>

(* Where do_blk_no returns to: is_existing is done then, the other two     *)
(* have still to count.                                                    *)
Back(a) == IF a = "SEARCH_BLK" THEN "idle" ELSE "returned"

(* do_blk_no begins.  In an empty vector nothing is searched: an insertion *)
(* puts the number into the first cell.                                    *)
Begin(a, x) ==
  /\ action' = a
  /\ blk_no' = x
  /\ IF a = "INSERT_BLK" THEN Grow ELSE UNCHANGED <<capacity, blks>>
  /\ IF blks_cnt > 0
     THEN pc' = "search" /\ left' = 0 /\ right' = blks_cnt - 1 /\ UNCHANGED <<i, retval>>
     ELSE IF a = "INSERT_BLK"
     THEN pc' = "open" /\ left' = 0 /\ i' = -1 /\ UNCHANGED <<right, retval>>
     ELSE pc' = Back(a) /\ retval' = HSET_ACTION_FAIL /\ UNCHANGED <<left, right, i>>
  /\ UNCHANGED <<blks_cnt, blocks_cnt>>

Call(a, x) ==
  /\ pc = "idle" /\ todo = {}
  /\ Begin(a, x)
  /\ UNCHANGED todo

Found(m) ==
  \/ action = "SEARCH_BLK" /\ retval' = m /\ pc' = Back(action) /\ UNCHANGED i
  \/ action = "INSERT_BLK" /\ retval' = HSET_ACTION_FAIL /\ pc' = Back(action) /\ UNCHANGED i
  \/ action = "REMOVE_BLK" /\ retval' = m /\ pc' = "close" /\ i' = m

RightOf_Stuck(m) == m
RightOf_Short(m) == m - 2
RightOf(m) == m - 1

(* One turn of the binary search.                                          *)
Probe ==
  LET m == (left + right) \div 2
  IN  /\ pc = "search" /\ left <= right
      /\ \/ /\ blk_no < blks[m]
            /\ right' = RightOf(m)
            /\ UNCHANGED <<pc, left, i, retval>>
         \/ /\ blk_no > blks[m]
            /\ left' = m + 1
            /\ UNCHANGED <<pc, right, i, retval>>
         \/ /\ blk_no = blks[m]
            /\ Found(m)
            /\ UNCHANGED <<left, right>>
      /\ UNCHANGED <<array, action, blk_no, todo>>

LastMoved_OneShort == blks_cnt - 2
LastMoved == blks_cnt - 1

(* The search ends without success: an insertion makes room at left.       *)
Absent ==
  /\ pc = "search" /\ left > right
  /\ IF action = "INSERT_BLK"
     THEN pc' = "open" /\ i' = LastMoved /\ UNCHANGED retval
     ELSE pc' = Back(action) /\ retval' = HSET_ACTION_FAIL /\ UNCHANGED i
  /\ UNCHANGED <<array, action, blk_no, left, right, todo>>

(* A cell is moved up.                                                     *)
Open ==
  /\ pc = "open" /\ i >= left
  /\ blks' = [blks EXCEPT ![i + 1] = blks[i]]
  /\ i' = i - 1
  /\ UNCHANGED <<capacity, blks_cnt, blocks_cnt, pc, action, blk_no, left, right, retval, todo>>

(* The number is put in, and do_blk_no returns where.                      *)
Place ==
  /\ pc = "open" /\ i < left
  /\ blks' = [blks EXCEPT ![left] = blk_no]
  /\ blks_cnt' = blks_cnt + 1
  /\ retval' = left
  /\ pc' = Back(action)
  /\ UNCHANGED <<capacity, blocks_cnt, action, blk_no, left, right, i, todo>>

closed_Early == i >= blks_cnt - 2
closed == i >= blks_cnt - 1

(* A cell is moved down.                                                   *)
Close ==
  /\ pc = "close" /\ ~closed
  /\ blks' = [blks EXCEPT ![i] = blks[i + 1]]
  /\ i' = i + 1
  /\ UNCHANGED <<capacity, blks_cnt, blocks_cnt, pc, action, blk_no, left, right, retval, todo>>

Removed ==
  /\ pc = "close" /\ closed
  /\ blks_cnt' = blks_cnt - 1
  /\ pc' = Back(action)
  /\ UNCHANGED <<blks, capacity, blocks_cnt, local, todo>>

(* The count of the vector follows the result of do_blk_no.                *)
counted_Untested == blocks_cnt + (IF action = "INSERT_BLK" THEN 1 ELSE -1)
counted ==
  IF retval = HSET_ACTION_FAIL THEN blocks_cnt
  ELSE IF action = "INSERT_BLK" THEN blocks_cnt + 1
  ELSE blocks_cnt - 1

Counted ==
  /\ pc = "returned"
  /\ blocks_cnt' = counted
  /\ pc' = "idle"
  /\ UNCHANGED <<blks, capacity, blks_cnt, local, todo>>

Emptied_Half == blks_cnt
Emptied == 0

remove_all_elements == blocks_cnt' = 0 /\ blks_cnt' = Emptied

RemoveAll ==
  /\ pc = "idle" /\ todo = {}
  /\ remove_all_elements
  /\ UNCHANGED <<blks, capacity, pc, local, todo>>

(* copy_all_elements from a vector that holds S: each element, from the    *)
(* smallest, is inserted into the emptied vector.                          *)
CopyAll(S) ==
  /\ pc = "idle" /\ todo = {}
  /\ remove_all_elements
  /\ todo' = S
  /\ UNCHANGED <<blks, capacity, pc, local>>

CopyNext ==
  /\ pc = "idle" /\ todo # {}
  /\ Begin("INSERT_BLK", Min(todo))
  /\ todo' = todo \ {Min(todo)}

Step == Probe \/ Absent \/ Open \/ Place \/ Close \/ Removed \/ Counted \/ CopyNext

Next ==
  \/ \E a \in Actions, x \in Elems : Call(a, x)
  \/ RemoveAll
  \/ \E S \in SUBSET Elems : CopyAll(S)
  \/ Step

Spec == Init /\ [][Next]_vars

(* An operation that has begun runs to its end: nothing blocks it.         *)
FairSpec == Spec /\ WF_vars(Step)

----------------------------------------------------------------------------
(* Properties.                                                             *)

(* The cells that count.  While cells are moved up, the one above i is a   *)
(* hole; while they are moved down, the one at i is.                       *)
Live ==
  IF pc = "open" THEN (0 .. blks_cnt) \ {i + 1}
  ELSE IF pc = "close" THEN (0 .. blks_cnt - 1) \ {i}
  ELSE 0 .. blks_cnt - 1

Content == {blks[c] : c \in Live}

TypeOK ==
  /\ capacity \in Nat \ {0}
  /\ blks \in [0 .. capacity - 1 -> Elems \cup {Junk}]
  /\ blks_cnt \in 0 .. capacity
  /\ blocks_cnt \in Nat
  /\ pc \in {"idle", "search", "open", "close", "returned"}
  /\ action \in Actions
  /\ blk_no \in Elems
  /\ left \in Nat /\ right \in Int /\ i \in Int
  /\ retval \in Int
  /\ todo \subseteq Elems

(* No loop reads or writes a cell outside the array, and an insertion has  *)
(* a cell to spare (hash_set.c:63, 78, 83).                                *)
InBounds ==
  /\ pc = "search" => left >= 0 /\ right < blks_cnt /\ left <= right + 1
  /\ pc = "open" => /\ blks_cnt < capacity
                    /\ left \in 0 .. blks_cnt
                    /\ i \in left - 1 .. blks_cnt - 1
  /\ pc = "close" => i \in 0 .. blks_cnt - 1

(* The cells that count hold numbers, in increasing order, so none twice:  *)
(* the first is the smallest, which get_one_free_buf and                   *)
(* get_fully_invalid_band take, and binary search is right.                *)
Ordered ==
  /\ \A c \in Live : blks[c] \in Elems
  /\ \A c, d \in Live : c < d => blks[c] < blks[d]

(* The count of the bucket and the count of the vector agree whenever the  *)
(* functions that change the second have not got the result of do_blk_no   *)
(* still to look at: callers ask the one how full the vector is, do_blk_no *)
(* goes by the other, and they are changed in different functions by what  *)
(* the one tells the other (hash_set.c:66, 91, 149-151, 163-165).          *)
CountsAgree == pc # "returned" => blocks_cnt = blks_cnt

(* The result of do_blk_no says what it did to the count of the bucket:    *)
(* what is then counted is that.                                           *)
Announced ==
  /\ pc = "close" => action = "REMOVE_BLK" /\ retval # HSET_ACTION_FAIL
  /\ pc = "returned" => blks_cnt = counted

(* The number sought is nowhere outside the bounds of the search, and what *)
(* is being inserted belongs at left.                                      *)
Searched ==
  /\ pc = "search" => /\ \A c \in 0 .. left - 1 : blks[c] < blk_no
                      /\ \A c \in right + 1 .. blks_cnt - 1 : blks[c] > blk_no
  /\ pc = "open" => /\ action = "INSERT_BLK"
                    /\ \A c \in Live : c < left => blks[c] < blk_no
                    /\ \A c \in Live : c >= left => blks[c] > blk_no
  /\ (pc = "search" /\ action = "INSERT_BLK") => blks_cnt < capacity

(* The inductive invariant.                                                *)
IInv == TypeOK /\ InBounds /\ Ordered /\ CountsAgree /\ Announced /\ Searched

Phase ==
  IF pc \in {"search", "open"} THEN "called"
  ELSE IF pc \in {"close", "returned"} THEN "done"
  ELSE "idle"

Set == INSTANCE BlockSet WITH
         content <- Content, ok <- retval # HSET_ACTION_FAIL, phase <- Phase

(* Moving cells about and growing the array are invisible: the vector is a *)
(* set, each call changes it once and by the number it was given, and the  *)
(* result says whether it did (do_blk_no's comment, hash_set.c:27-36).     *)
ImplementsSet == Set!Spec

(* Binary search ends, and so does every operation (hash_set.c:51).        *)
CallReturns == pc # "idle" ~> pc = "idle"

=============================================================================
