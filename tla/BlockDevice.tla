---------------------------- MODULE BlockDevice ----------------------------
(***************************************************************************)
(* What the simulated disk promises its user, whatever happens below: a    *)
(* block reads as the last data written to it, until the file system       *)
(* detector declares the block free.  A write takes effect when its        *)
(* request begins, and nothing changes any block while it is being         *)
(* served: the write buffer (hdd_buf.c), swapping out and the garbage      *)
(* collection of stl.c are all invisible here.                             *)
(***************************************************************************)
CONSTANTS Blocks,   \* logical block numbers
          Data,     \* contents a block can be given
          NoData,   \* a block without mapping: a read leaves the caller's buffer alone
          aware     \* the module parameter "aware": the detector is consulted

VARIABLES store,    \* what a read of each block returns
          busy      \* is a request being served

Init == store = [k \in Blocks |-> NoData] /\ busy = FALSE

(* write_smr_blocks for one block; it may be done in the same step.        *)
Write(k, d) ==
  /\ ~busy
  /\ store' = [store EXCEPT ![k] = d]
  /\ busy' \in BOOLEAN

(* mark_one_blk_bmp: the blocks whose bits are clear are dropped.          *)
Discard(S) ==
  /\ ~busy
  /\ aware
  /\ store' = [k \in Blocks |-> IF k \in S THEN NoData ELSE store[k]]
  /\ busy' = busy

(* The request in progress ends. *)
Done == busy /\ busy' = FALSE /\ UNCHANGED store

Next ==
  \/ \E k \in Blocks, d \in Data : Write(k, d)
  \/ \E S \in SUBSET Blocks : Discard(S)
  \/ Done

Spec == Init /\ [][Next]_<<store, busy>>

============================================================================
