----------------------------- MODULE MCReadExt2 -----------------------------
(***************************************************************************)
(* A small file system for the reader: two direct pointers in an inode,    *)
(* four numbers in a block, so that a file of 86 blocks uses all levels.   *)
(* Three groups of four inodes.  The root [2] has the directory a [5] and  *)
(* the file f [11]; a has the directory d [9], and that one links to both  *)
(* files.  There are deleted entries in the root and in d, and both have   *)
(* one block more than direct pointers.                                    *)
(*                                                                         *)
(* f has three blocks behind its indirect pointer.  g [12] is sparse: of   *)
(* its pointers every second one is 0, so that what the reader joins are   *)
(* numbers of blocks, and it gets to all levels.                           *)
(***************************************************************************)
EXTENDS ReadExt2, TLC

Inode(dir, blocks, i_block) ==
  [dir |-> dir, i_size |-> blocks * EXT2_BLOCK_SIZE, i_block |-> [m \in 0 .. 4 |-> i_block[m + 1]]]

Inodes ==
  [n \in 1 .. 12 |-> CASE n = 2  -> Inode(TRUE, 3, <<20, 21, 22, 0, 0>>)
                       [] n = 5  -> Inode(TRUE, 2, <<30, 31, 0, 0, 0>>)
                       [] n = 9  -> Inode(TRUE, 3, <<40, 41, 42, 0, 0>>)
                       [] n = 11 -> Inode(FALSE, 5, <<50, 51, 52, 0, 0>>)
                       [] n = 12 -> Inode(FALSE, 86, <<60, 61, 62, 63, 64>>)
                       [] OTHER  -> NoFile]

Entry(ino, rec_len, name) == [inode |-> ino, rec_len |-> rec_len, name |-> name]
One(e)     == (0 :> e)
Two(e, f)  == (0 :> e) @@ (1 :> f)

MCDisk ==
  (* the descriptors, two to a block; the inode tables, two blocks each    *)
  (0 :> <<>>) @@ (1 :> (0 :> 4 @@ 1 :> 6)) @@ (2 :> (0 :> 8))
  @@ [k \in 4 .. 9 |-> [m \in {0, 1} |-> Inodes[2 * (k - 4) + m + 1]]]
  (* the root                                                              *)
  @@ (20 :> Two(Entry(2, 1, "."), Entry(2, 1, "..")))
  @@ (21 :> Two(Entry(5, 1, "a"), Entry(11, 1, "f"))) @@ (23 :> One(Entry(0, 2, "x")))
  (* a                                                                     *)
  @@ (30 :> Two(Entry(5, 1, "."), Entry(2, 1, ".."))) @@ (31 :> One(Entry(9, 2, "d")))
  (* d                                                                     *)
  @@ (40 :> Two(Entry(9, 1, "."), Entry(5, 1, "..")))
  @@ (41 :> Two(Entry(0, 1, "x"), Entry(11, 1, "f"))) @@ (43 :> One(Entry(12, 2, "g")))
  (* pointer blocks and the blocks of the files                            *)
  @@ [k \in {22, 42} \cup (50 .. 55) \cup (60 .. 85) |-> <<>>]

(* The numbers in a block; of those that no pointer leads to as a pointer  *)
(* block they do not matter.  At a pointer that is 0 the super block is    *)
(* read as one.                                                            *)
Four(v) == [m \in 0 .. 3 |-> v[m + 1]]
PointerBlocks ==
  0 :> Four(<<12, 90, 0, 40>>)
  @@ 22 :> Four(<<23, 0, 0, 0>>) @@ 42 :> Four(<<43, 0, 0, 0>>) @@ 52 :> Four(<<53, 54, 55, 0>>)
  @@ 62 :> Four(<<65, 0, 66, 0>>)
  @@ 63 :> Four(<<67, 0, 68, 0>>) @@ 67 :> Four(<<69, 0, 0, 0>>) @@ 68 :> Four(<<70, 0, 71, 0>>)
  @@ 64 :> Four(<<72, 0, 73, 0>>) @@ 72 :> Four(<<74, 0, 75, 0>>) @@ 73 :> Four(<<76, 0, 0, 0>>)
  @@ 74 :> Four(<<77, 0, 78, 0>>) @@ 75 :> Four(<<79, 0, 80, 0>>) @@ 76 :> Four(<<81, 0, 82, 0>>)
MCNumbers == PointerBlocks @@ [k \in DOMAIN MCDisk |-> Four(<<0, 0, 0, 0>>)]

(* Every range of f; of g one to three blocks, a long range, and all of it *)
(* from every block on.                                                    *)
MCFileReads == {r \in {11} \X (0 .. 4) \X (1 .. 5) : r[2] + r[3] <= 5}
               \cup {r \in {12} \X (0 .. 85) \X {1, 2, 3, 17, 86} : r[2] + r[3] <= 86}
MCInodesInUse == {2, 5, 9, 11, 12}

----------------------------------------------------------------------------
(* The lines of the three directories; and at each offset in one of them   *)
(* where an entry starts, or at its end, how many of them are behind it.   *)
LinesOfD    == <<<<3, ".">>, <<3, "..">>, <<3, "x">>, <<3, "f">>, <<3, "g">>>>
LinesOfA    == <<<<2, ".">>, <<2, "..">>, <<2, "d">>>> \o LinesOfD
LinesOfRoot == <<<<1, ".">>, <<1, "..">>, <<1, "a">>>> \o LinesOfA \o <<<<1, "f">>, <<1, "x">>>>

From(ino, depth, lines, behind) ==
  [p \in {<<Inodes[ino], depth, s>> : s \in DOMAIN behind} |->
     SubSeq(lines, behind[p[3]] + 1, Len(lines))]

MCTreeLines ==
  From(2, 1, LinesOfRoot, 0 :> 0 @@ 1 :> 1 @@ 2 :> 2 @@ 3 :> 11 @@ 4 :> 12 @@ 6 :> 13)
  @@ From(5, 2, LinesOfA, 0 :> 0 @@ 1 :> 1 @@ 2 :> 2 @@ 4 :> 8)
  @@ From(9, 3, LinesOfD, 0 :> 0 @@ 1 :> 1 @@ 2 :> 2 @@ 3 :> 3 @@ 4 :> 4 @@ 6 :> 5)

=============================================================================
