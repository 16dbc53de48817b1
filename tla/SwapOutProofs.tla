--------------------------- MODULE SwapOutProofs ---------------------------
(***************************************************************************)
(* The one pass of swap_out_coldest over the slots finds the coldest       *)
(* buffers, as long as nothing has been read from them: what it has chosen *)
(* after i iterations is coldest among the first i slots.                  *)
(***************************************************************************)
EXTENDS StlProofs

NothingRead == \A s \in Slots : reverse_table[s].read_cnt = 0

(* The buffers chosen are no hotter than those met and passed over; at     *)
(* first every slot met is chosen.                                         *)
ChosenSoFar ==
  pc = "cold" =>
    /\ i <= SWAP_OUT_CNT => \A j \in Colds : j < i => cold_bufs[j] = j
    /\ (NothingRead /\ SWAP_OUT_CNT <= i) =>
         \A j \in Colds, s \in Slots :
           (s < i /\ \A l \in Colds : cold_bufs[l] # s) =>
              get_access_cnt(cold_bufs[j]) <= get_access_cnt(s)

(* Among finitely many indexes there is a first one whose value is greatest. *)
LEMMA FirstGreatestCold ==
  ASSUME NEW f \in [Colds -> Nat]
  PROVE  \E j \in Colds : \A l \in Colds : f[l] <= f[j] /\ (l < j => f[l] < f[j])
<1>. DEFINE Top(n, j) == \A l \in 0 .. n - 1 : f[l] <= f[j] /\ (l < j => f[l] < f[j])
            Without == {n \in Nat : n \in 1 .. SWAP_OUT_CNT /\ \A j \in 0 .. n - 1 : ~ Top(n, j)}
<1>1. SWAP_OUT_CNT \in Nat /\ 0 < SWAP_OUT_CNT
  BY BufferAssumption
<1>2. \A l \in 0 .. SWAP_OUT_CNT - 1 : f[l] \in Nat
  BY DEF Colds
<1>3. Without = {}
  <2>1. SUFFICES ASSUME Without # {} PROVE FALSE
    OBVIOUS
  <2>2. PICK n \in Without : \A m \in Without : n <= m
    <3>. HIDE DEF Without
    <3>1. Without \in SUBSET Nat
      BY DEF Without
    <3>. QED
      BY <2>1, <3>1, NatLeast
  <2>3. n \in 1 .. SWAP_OUT_CNT /\ \A j \in 0 .. n - 1 : ~ Top(n, j)
    OBVIOUS
  <2>4. n # 1
    <3>1. SUFFICES ASSUME n = 1 PROVE Top(n, 0)
      BY <2>3
    <3>2. \A l \in 0 .. n - 1 : l = 0 /\ f[l] \in Nat
      BY <1>1, <1>2, <3>1
    <3>. QED
      BY <3>2
  <2>5. n - 1 \in 1 .. SWAP_OUT_CNT /\ n - 1 \in Nat /\ ~ (n <= n - 1)
    BY <1>1, <2>3, <2>4
  <2>6. PICK j \in 0 .. n - 2 : Top(n - 1, j)
    <3>1. n - 1 \notin Without
      BY <2>2, <2>5
    <3>2. \E j \in 0 .. (n - 1) - 1 : Top(n - 1, j)
      <4>. HIDE DEF Top
      <4>. QED
        BY <2>5, <3>1
    <3>3. (n - 1) - 1 = n - 2
      BY <2>3
    <3>. QED
      BY <3>2, <3>3
  <2>7. \A l \in 0 .. n - 1 : f[l] \in Nat /\ l \in Int
    BY <1>1, <1>2, <2>3
  <2>8. \A l \in 0 .. n - 1 : l = n - 1 \/ l \in 0 .. n - 2
    BY <2>3
  <2>9. j \in 0 .. n - 1 /\ n - 1 \in 0 .. n - 1 /\ j < n - 1
    BY <2>3, <2>5, <2>6
  <2>10. \A l \in 0 .. n - 2 : f[l] <= f[j] /\ (l < j => f[l] < f[j])
    BY <2>3, <2>6
  <2>11. CASE f[n - 1] <= f[j]
    <3>1. Top(n, j)
      BY <2>3, <2>7, <2>8, <2>9, <2>10, <2>11
    <3>. QED
      BY <2>3, <2>9, <3>1
  <2>12. CASE f[j] < f[n - 1]
    <3>1. \A l \in 0 .. n - 2 : f[l] < f[n - 1]
      BY <2>3, <2>7, <2>9, <2>10, <2>12
    <3>2. Top(n, n - 1)
      BY <2>3, <2>7, <2>8, <2>9, <3>1
    <3>. QED
      BY <2>3, <2>9, <3>2
  <2>. QED
    BY <2>7, <2>9, <2>11, <2>12
<1>4. \E j \in 0 .. SWAP_OUT_CNT - 1 : Top(SWAP_OUT_CNT, j)
  <2>1. SWAP_OUT_CNT \notin Without
    BY <1>3
  <2>. HIDE DEF Top
  <2>. QED
    BY <1>1, <2>1
<1>. QED
  BY <1>4 DEF Colds

(* The buffer update_cold_buf compares with is the most accessed of those  *)
(* chosen.                                                                 *)
LEMMA HottestIsHottest ==
  ASSUME BufInv
  PROVE  /\ HottestCold \in Colds
         /\ \A l \in Colds : get_access_cnt(cold_bufs[l]) <= get_access_cnt(cold_bufs[HottestCold])
<1>. DEFINE f == [j \in Colds |-> get_access_cnt(cold_bufs[j])]
<1>1. f \in [Colds -> Nat]
  <2>1. ASSUME NEW j \in Colds
        PROVE  get_access_cnt(cold_bufs[j]) \in Nat
    <3>1. cold_bufs[j] \in Slots
      BY DEF BufInv, LocalTypeOK
    <3>2. reverse_table[cold_bufs[j]] \in [blk_no : Blocks, read_cnt : Nat, write_cnt : Nat]
      BY <3>1 DEF BufInv, BufTypeOK
    <3>. QED
      BY <3>2 DEF get_access_cnt
  <2>. QED
    BY <2>1
<1>2. \E j \in Colds : \A l \in Colds : f[l] <= f[j] /\ (l < j => f[l] < f[j])
  <2>. HIDE DEF f
  <2>. QED
    BY <1>1, FirstGreatestCold
<1>3. \E j \in Colds : \A l \in Colds :
        /\ get_access_cnt(cold_bufs[l]) <= get_access_cnt(cold_bufs[j])
        /\ l < j => get_access_cnt(cold_bufs[l]) < get_access_cnt(cold_bufs[j])
  BY <1>2
<1>. QED
  BY <1>3 DEF HottestCold

(* One iteration of the pass.                                              *)
LEMMA ScanChooses ==
  ASSUME IInv, ChosenSoFar, ScanColdBuf
  PROVE  ChosenSoFar' /\ ColdestChosen'
<1>0. BufInv
  BY IInvParts
<1>1. /\ pc = "cold"
      /\ cold_bufs' = NextColdBufs(i)
      /\ i' = NextIndex(BLOCKS_OF_HDD_BUF)
      /\ pc' = IF i + 1 < BLOCKS_OF_HDD_BUF THEN "cold" ELSE "swap"
      /\ reverse_table' = reverse_table
  BY DEF ScanColdBuf, buf
<1>2. /\ i \in Slots /\ i \in Int /\ cold_bufs \in [Colds -> Slots]
      /\ BLOCKS_OF_HDD_BUF \in Nat /\ SWAP_OUT_CNT \in Nat
      /\ 0 < SWAP_OUT_CNT /\ SWAP_OUT_CNT < BLOCKS_OF_HDD_BUF
  BY <1>0, BufferAssumption DEF BufInv, LocalTypeOK, Slots
<1>3. \A s \in Slots : s \in Int /\ reverse_table[s].read_cnt \in Nat
                       /\ reverse_table[s].write_cnt \in Nat
  BY <1>0 DEF BufInv, BufTypeOK, Slots
<1>4. \A s \in Slots : get_access_cnt(s)' = get_access_cnt(s) /\ get_access_cnt(s) \in Int
  BY <1>1, <1>3 DEF get_access_cnt
<1>5. \A j \in Colds : j \in Int /\ j < SWAP_OUT_CNT
  BY <1>2 DEF Colds
(* While the array fills up, slot j goes to place j.                       *)
<1>6. i < SWAP_OUT_CNT => \A j \in Colds : j <= i => cold_bufs'[j] = j
  <2>1. SUFFICES ASSUME i < SWAP_OUT_CNT PROVE \A j \in Colds : j <= i => cold_bufs'[j] = j
    OBVIOUS
  <2>2. cold_bufs' = [cold_bufs EXCEPT ![i] = i]
    BY <1>1, <2>1 DEF NextColdBufs
  <2>3. \A j \in Colds : j < i => cold_bufs[j] = j
    BY <1>1, <1>2, <2>1 DEF ChosenSoFar
  <2>. QED
    BY <1>2, <1>5, <2>2, <2>3
(* When it is full, every slot met is chosen or no colder.                 *)
<1>7. ASSUME NothingRead, SWAP_OUT_CNT <= i + 1,
             NEW j \in Colds, NEW s \in Slots, s <= i, \A l \in Colds : cold_bufs'[l] # s
      PROVE  cold_bufs'[j] \in Slots /\ get_access_cnt(cold_bufs'[j]) <= get_access_cnt(s)
  <2>1. CASE i < SWAP_OUT_CNT
    <3>1. s \in Colds
      BY <1>2, <1>3, <1>7, <2>1 DEF Colds, Slots
    <3>2. cold_bufs'[s] = s
      BY <1>6, <1>7, <2>1, <3>1
    <3>. QED
      BY <1>7, <3>1, <3>2
  <2>2. CASE SWAP_OUT_CNT <= i
    <3>. DEFINE h == HottestCold
    <3>1. /\ h \in Colds
          /\ \A l \in Colds : get_access_cnt(cold_bufs[l]) <= get_access_cnt(cold_bufs[h])
      BY <1>0, HottestIsHottest
    <3>2. \A l \in Colds, t \in Slots :
             (t < i /\ \A m \in Colds : cold_bufs[m] # t) =>
                get_access_cnt(cold_bufs[l]) <= get_access_cnt(t)
      BY <1>1, <1>7, <2>2 DEF ChosenSoFar
    <3>3. cold_bufs' = update_cold_buf(i)
      BY <1>1, <1>2, <2>2 DEF NextColdBufs
    <3>4. \A l \in Colds : cold_bufs[l] # i
      BY <1>0, <1>1, <1>2, <1>5, <2>2 DEF BufInv, Phases
    <3>5. get_access_cnt(i) = reverse_table[i].write_cnt
      BY <1>2, <1>3, <1>7 DEF get_access_cnt, NothingRead
    <3>. DEFINE a == get_access_cnt(i)
                c == get_access_cnt(cold_bufs[h])
    <3>6. /\ s \in Int /\ s <= i /\ cold_bufs[h] \in Slots /\ cold_bufs[j] \in Slots
          /\ a \in Int /\ c \in Int
          /\ get_access_cnt(cold_bufs[j]) \in Int /\ get_access_cnt(cold_bufs[j]) <= c
      BY <1>2, <1>3, <1>4, <1>7, <3>1
    <3>. HIDE DEF h, a, c
    <3>7. CASE a < c
      <4>1. cold_bufs' = [cold_bufs EXCEPT ![h] = i]
        BY <3>3, <3>4, <3>5, <3>7 DEF update_cold_buf, h, a, c
      <4>2. \A l \in Colds : cold_bufs'[l] = IF l = h THEN i ELSE cold_bufs[l]
        BY <1>2, <3>1, <4>1
      <4>3. /\ cold_bufs'[j] \in Slots
            /\ get_access_cnt(cold_bufs'[j]) <= c
            /\ get_access_cnt(cold_bufs'[j]) \in Int
        <5>1. CASE j = h
          <6>1. cold_bufs'[j] = i
            BY <4>2, <5>1
          <6>2. get_access_cnt(cold_bufs'[j]) = a
            BY <6>1 DEF a
          <6>. QED
            BY <1>2, <3>7, <3>6, <6>1, <6>2
        <5>2. CASE j # h
          BY <3>6, <4>2, <5>2
        <5>. QED
          BY <5>1, <5>2
      <4>4. s # i
        BY <1>7, <3>1, <4>2
      <4>5. CASE s = cold_bufs[h]
        BY <4>3, <4>5 DEF c
      <4>6. CASE s # cold_bufs[h]
        <5>1. \A l \in Colds : cold_bufs[l] # s
          BY <1>7, <4>2, <4>6
        <5>2. s < i
          BY <1>2, <3>6, <4>4
        <5>3. c <= get_access_cnt(s)
          BY <3>1, <3>2, <5>1, <5>2 DEF c
        <5>4. get_access_cnt(s) \in Int
          BY <1>4
        <5>. QED
          BY <3>6, <4>3, <5>3, <5>4
      <4>. QED
        BY <4>5, <4>6
    <3>8. CASE ~ (a < c)
      <4>1. cold_bufs' = cold_bufs
        BY <3>3, <3>5, <3>8 DEF update_cold_buf, h, a, c
      <4>2. CASE s = i
        <5>1. get_access_cnt(s) = a
          BY <4>2 DEF a
        <5>. QED
          BY <3>8, <3>6, <4>1, <5>1
      <4>3. CASE s # i
        <5>1. s < i
          BY <1>2, <3>6, <4>3
        <5>. QED
          BY <1>7, <3>2, <3>6, <4>1, <5>1
      <4>. QED
        BY <4>2, <4>3
    <3>. QED
      BY <3>7, <3>8
  <2>. QED
    BY <1>2, <2>1, <2>2
<1>8. NothingRead' <=> NothingRead
  BY <1>1 DEF NothingRead
<1>9. CASE pc' = "cold"
  <2>1. i' = i + 1
    BY <1>1, <1>9 DEF NextIndex
  <2>2. i' <= SWAP_OUT_CNT => \A j \in Colds : j < i' => cold_bufs'[j] = j
    BY <1>2, <1>5, <1>6, <2>1
  <2>3. ASSUME NothingRead, SWAP_OUT_CNT <= i', NEW j \in Colds, NEW s \in Slots, s < i',
               \A l \in Colds : cold_bufs'[l] # s
        PROVE  get_access_cnt(cold_bufs[j])' <= get_access_cnt(s)'
    <3>1. s <= i /\ SWAP_OUT_CNT <= i + 1
      BY <1>2, <1>3, <2>1, <2>3
    <3>2. cold_bufs'[j] \in Slots /\ get_access_cnt(cold_bufs'[j]) <= get_access_cnt(s)
      BY <1>7, <2>3, <3>1
    <3>. QED
      BY <1>1, <3>2 DEF get_access_cnt
  <2>. QED
    BY <1>8, <1>9, <2>2, <2>3 DEF ChosenSoFar, ColdestChosen
<1>10. CASE pc' = "swap"
  <2>1. i + 1 = BLOCKS_OF_HDD_BUF
    BY <1>1, <1>2, <1>10 DEF Slots
  <2>2. ASSUME NothingRead, NEW j \in Colds, NEW s \in Slots \ {cold_bufs'[l] : l \in Colds}
        PROVE  get_access_cnt(cold_bufs[j])' <= get_access_cnt(s)'
    <3>1. s <= i /\ SWAP_OUT_CNT <= i + 1 /\ \A l \in Colds : cold_bufs'[l] # s
      BY <1>2, <1>3, <2>1 DEF Slots
    <3>2. cold_bufs'[j] \in Slots /\ get_access_cnt(cold_bufs'[j]) <= get_access_cnt(s)
      BY <1>7, <2>2, <3>1
    <3>. QED
      BY <1>1, <3>2 DEF get_access_cnt
  <2>. QED
    BY <1>8, <1>10, <2>2 DEF ChosenSoFar, ColdestChosen, NothingRead
<1>. QED
  BY <1>1, <1>9, <1>10

(* Every other step ends the pass, begins one, or leaves it alone.         *)
LEMMA OthersChoose ==
  ASSUME IInv, ChosenSoFar, ColdestChosen, [Next]_vars, ~ScanColdBuf
  PROVE  ChosenSoFar' /\ ColdestChosen'
<1>0. BufInv
  BY IInvParts
<1>1. CASE pc' \notin {"cold", "swap"}
  BY <1>1 DEF ChosenSoFar, ColdestChosen
<1>2. CASE UNCHANGED <<pc, i, cold_bufs, reverse_table, free_hdd_bufs>>
  BY <1>2 DEF ChosenSoFar, ColdestChosen, NothingRead, get_access_cnt
<1>3. ASSUME NEW k \in HostBlocks, NEW d \in Data, WriteUpdate(k, d)
      PROVE  ChosenSoFar' /\ ColdestChosen'
  <2>1. i' = 0 /\ pc' # "swap"
    BY <1>3 DEF WriteUpdate
  <2>2. /\ \A j \in Colds : ~ (j < i')
        /\ ~ (SWAP_OUT_CNT <= i')
    BY <2>1, BufferAssumption DEF Colds
  <2>. QED
    BY <2>1, <2>2 DEF ChosenSoFar, ColdestChosen
<1>4. CASE SwapOut
  <2>1. pc' # "cold" /\ free_hdd_bufs' # {}
    BY <1>4 DEF SwapOut
  <2>. QED
    BY <2>1 DEF ChosenSoFar, ColdestChosen
<1>5. \/ pc' \notin {"cold", "swap"}
      \/ UNCHANGED <<pc, i, cold_bufs, reverse_table, free_hdd_bufs>>
      \/ \E k \in HostBlocks, d \in Data : WriteUpdate(k, d)
      \/ SwapOut
  <2>1. CASE Request
    BY <2>1 DEF Request, WriteHit, WriteNew, ReadBuf, MarkFree, SetMetaFlag, local
  <2>2. CASE Serve
    BY <2>2 DEF Serve, GarbageCollect, AppendNew, TakeFreeBuf, Fault, buf
  <2>3. CASE UNCHANGED vars
    BY <2>3 DEF vars, buf, local
  <2>. QED
    BY <2>1, <2>2, <2>3 DEF Next
<1>. QED
  BY <1>1, <1>2, <1>3, <1>4, <1>5

(* With nothing read since they were filled, no buffer that stays is       *)
(* colder than one swapped out, whatever the number of slots and of        *)
(* buffers swapped out at a time (hdd_buf.c:87-107).                       *)
THEOREM ColdestSwappedOut == Spec => []ColdestChosen
<1>1. Init => ChosenSoFar /\ ColdestChosen
  BY DEF Init, ChosenSoFar, ColdestChosen
<1>2. IInv /\ ChosenSoFar /\ ColdestChosen /\ [Next]_vars => ChosenSoFar' /\ ColdestChosen'
  BY ScanChooses, OthersChoose
<1>. QED
  BY <1>1, <1>2, Invariance, PTL DEF Spec

============================================================================
