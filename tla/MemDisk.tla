------------------------------ MODULE MemDisk ------------------------------
(***************************************************************************)
(* The life cycle of the module, mem_disk.c: insmod loads what the last    *)
(* rmmod saved, or initialises the disk when it cannot; then requests are  *)
(* served; rmmod saves, if the parameter "save" says so, into two files    *)
(* that it overwrites in place.  An action is one call of the virtual file *)
(* system, which may fail.  What requests make of the memory is the        *)
(* concern of Stl and Ext2Meta: here they leave one of Contexts.           *)
(***************************************************************************)
EXTENDS Integers, Sequences, FiniteSets, FiniteSetsExt, Functions

CONSTANTS
  TOTAL_SMR_BLOCKS_CNT,
  EXT2_BLOCK_SIZE,   \* of a block, in units of which a transfer moves some or all
  KERN_SECTS_PER_HARD_SECT,
  MetaVectors,   \* the names in meta_vect_index, in order
  Contexts,      \* contents of the memory that requests may leave
  Slots,         \* numbers of the buffers, and what is read from the wrong place
  Faults,        \* calls that may go wrong: "open", "read", "write", or be cut "short"
  MAX_FAULTS,    \* bound on how often they do
  MAX_LEN,       \* bound on a length read from the wrong place
  Junk           \* content of memory nobody has written to, or of a wrong place

ASSUME LifeCycleAssumption ==
  /\ TOTAL_SMR_BLOCKS_CNT \in Nat \ {0} /\ EXT2_BLOCK_SIZE \in Nat \ {0}
  /\ KERN_SECTS_PER_HARD_SECT \in Nat \ {0}
  /\ Faults \subseteq {"open", "read", "write", "short"}
  /\ MAX_FAULTS \in Nat /\ MAX_LEN \in Nat
  /\ Slots \subseteq Nat /\ IsFiniteSet(Slots)
  /\ MetaVectors \in Seq(STRING)

VARIABLES
  data,        \* mdisk_dev->data, a sequence of units
  body,        \* the structures s_ctr, b_ctr, m_ctr without the vectors and lengths
  len,         \* their fields vec_len, vect_len and len[]: vector -> its length
  vect,        \* the vectors they point to, as sets
  disk_file,   \* the file SMR_DISK_FILE_PATH: its units
  ctrl_file,   \* the file SMR_CTRL_FILE_PATH: a structure or a number a cell
  exist,       \* which of these files have been created
  pc,          \* where mem_disk_init or mem_disk_exit is
  pos,         \* position in the file that is read or written
  rw_ptr,      \* position in data
  n,           \* what of Layout is read or written next
  ret,         \* what load_system_data returned
  save,        \* the module parameter
  saved,       \* the context of the last save, Junk if it was not completed
  unnoticed,   \* did a transfer of control data fail or end early, and nothing tell
  faults       \* how many calls went wrong

memory == <<data, body, len, vect>>
files  == <<disk_file, ctrl_file, exist>>
local  == <<pos, rw_ptr, n>>
vars   == <<memory, files, local, pc, ret, save, saved, unnoticed, faults>>

Structures == {"s_ctr", "b_ctr", "m_ctr"}

(* save_smr_ctrl and load_smr_ctrl: a structure, then its vectors.         *)
Layout == <<"s_ctr", "fully_invalid_bands", "b_ctr", "free_hdd_bufs", "m_ctr">> \o MetaVectors
Vectors == Range(Layout) \ Structures
VectorsOf(s) ==
  CASE s = "s_ctr" -> {"fully_invalid_bands"}
    [] s = "b_ctr" -> {"free_hdd_bufs"}
    [] s = "m_ctr" -> Range(MetaVectors)

ASSUME NamesAssumption == Range(MetaVectors) \cap Structures = {}

ImageSize == TOTAL_SMR_BLOCKS_CNT * EXT2_BLOCK_SIZE

Context == [data |-> data, body |-> body, vect |-> vect]

----------------------------------------------------------------------------
(* Calls of the virtual file system.  Files are not truncated: writing     *)
(* leaves what is behind it.  A transfer may end early, at the border of a *)
(* unit of the image or of a cell of control data, and return a count that *)
(* no caller compares with what it asked for.                              *)

(* A definition whose name ends in a capitalised word after an underscore  *)
(* is a slip that could be made in the next one; the runs must notice it.  *)

Works == UNCHANGED faults
Fails(call) == call \in Faults /\ faults < MAX_FAULTS /\ faults' = faults + 1

Overwrite_Appending(file, at, cells) == file \o cells
Overwrite(file, at, cells) ==
  [i \in 1 .. Max({Len(file), at + Len(cells)}) |->
     IF i \in at + 1 .. at + Len(cells) THEN cells[i - at] ELSE file[i]]

FilePaths == {"SMR_DISK_FILE_PATH", "SMR_CTRL_FILE_PATH"}

(* The elements of a vector, which is sorted.                              *)
get_vect_element(S, m) == CHOOSE k \in S : Cardinality({j \in S : j < k}) = m

----------------------------------------------------------------------------
(* mem_disk_init.  Static memory is zero: no block is mapped, but no band  *)
(* is free either, and there are no vectors.                               *)
Zero ==
  [s_ctr |-> [tables |-> "zero", meta_flag |-> "none", cur_paddr |-> 0],
   b_ctr |-> [hdd_buf |-> "zero"],
   m_ctr |-> [status |-> "NO_SB0"]]
Wrong == [s \in Structures |-> [f \in DOMAIN Zero[s] |-> Junk]]

(* What memory and files hold: all units, all structures, all vectors.    *)
DataUnits == {Junk} \cup UNION {Range(c.data) : c \in Contexts}
BodyOK(b)  == /\ DOMAIN b = Structures /\ b = [s \in Structures |-> b[s]]
              /\ \A s \in Structures : DOMAIN b[s] = DOMAIN Zero[s]
VectOK(v)  == v \in [Vectors -> SUBSET Nat] /\ \A x \in Vectors : IsFiniteSet(v[x])

ASSUME ContextAssumption ==
  \A c \in Contexts : /\ c.data \in Seq(DataUnits) /\ Len(c.data) = ImageSize
                      /\ BodyOK(c.body)
                      /\ VectOK(c.vect)

NewData    == [i \in 1 .. ImageSize |-> Junk]
NoLengths  == [v \in Vectors |-> 0]
NoElements == [v \in Vectors |-> {}]

Init ==
  /\ data = NewData
  /\ body = Zero
  /\ len = NoLengths
  /\ vect = NoElements
  /\ disk_file = <<>>
  /\ ctrl_file = <<>>
  /\ exist = {}
  /\ pc = "out"
  /\ pos = 0 /\ rw_ptr = 0 /\ n = 1
  /\ ret = 0
  /\ save = FALSE
  /\ saved = Junk
  /\ unnoticed = FALSE
  /\ faults = 0

Insmod ==
  /\ pc = "out"
  /\ pc' = "load"
  /\ save' \in BOOLEAN
  /\ UNCHANGED <<memory, files, local, ret, saved, unnoticed, faults>>

(* load_system_data: both files must be there, the image in full length.   *)
LoadOpen ==
  /\ pc = "load"
  /\ \/ /\ exist = FilePaths /\ Len(disk_file) = ImageSize
        /\ pc' = "load_disk"
        /\ Works
     \/ /\ \/ ~(exist = FilePaths /\ Len(disk_file) = ImageSize) /\ Works
           \/ Fails("open")
        /\ pc' = "load_failed"
  /\ pos' = 0 /\ rw_ptr' = 0 /\ n' = 1
  /\ UNCHANGED <<memory, files, ret, save, saved, unnoticed>>

more_OneMore == pos <= ImageSize
more == pos < ImageSize

(* Transfer k units of a block: the whole block, or fewer of its units.    *)
Moves(k) ==
  \/ k = EXT2_BLOCK_SIZE /\ Works
  \/ k < EXT2_BLOCK_SIZE /\ Fails("short")

(* Behind data is a page that is not mapped, and what lies beyond is not   *)
(* the driver's.  A transfer there is an error, or harms the kernel; after *)
(* this nothing is claimed.                                                *)
InData == rw_ptr < ImageSize
Overruns(failed) == ~InData /\ Works /\ pc' \in {failed, "oops"}

(* load_smr_disk_data: one turn of its loop.  pos moves by what was read,  *)
(* rw_ptr by a block, also if the read failed.                             *)
LoadBlock ==
  /\ pc = "load_disk" /\ more
  /\ \/ \E k \in 1 .. EXT2_BLOCK_SIZE :
          /\ InData /\ Moves(k)
          /\ data' = Overwrite(data, rw_ptr, SubSeq(disk_file, pos + 1, pos + k))
          /\ pos' = pos + k
          /\ UNCHANGED pc
     \/ /\ \/ Moves(0) /\ UNCHANGED pc
           \/ Fails("read") /\ pc' = "load_failed"
           \/ Overruns("load_failed")
        /\ UNCHANGED <<data, pos>>
  /\ rw_ptr' = IF pc' = "oops" THEN rw_ptr ELSE rw_ptr + EXT2_BLOCK_SIZE
  /\ UNCHANGED <<body, len, vect, files, n, ret, save, saved, unnoticed>>

LoadedDisk ==
  /\ pc = "load_disk" /\ ~more
  /\ pc' = "load_ctrl"
  /\ pos' = 0
  /\ UNCHANGED <<memory, files, rw_ptr, n, ret, save, saved, unnoticed, faults>>

(* The lengths that structure s holds become l.                            *)
WithLengths(s, l) == [v \in Vectors |-> IF v \in VectorsOf(s) THEN l[v] ELSE len[v]]

(* A structure is read over the one in memory.  At the end of the file     *)
(* nothing is read, which is no error; where something else is found, that *)
(* is taken for the structure.                                             *)
LoadStructure(s) ==
  \/ /\ \/ pos >= Len(ctrl_file) /\ Works /\ UNCHANGED unnoticed
        \/ Fails("short") /\ unnoticed' = TRUE
     /\ n' = n + 1
     /\ UNCHANGED <<pc, body, len, vect, pos>>
  \/ /\ pos < Len(ctrl_file) /\ Works
     /\ LET cell == ctrl_file[pos + 1]
        IN  IF "name" \in DOMAIN cell /\ cell.name = s
            THEN body' = [body EXCEPT ![s] = cell.body] /\ len' = WithLengths(s, cell.len)
            ELSE /\ body' = [body EXCEPT ![s] = Wrong[s]]
                 /\ \E l \in 0 .. MAX_LEN : len' = WithLengths(s, [v \in VectorsOf(s) |-> l])
     /\ pos' = pos + 1
     /\ n' = n + 1
     /\ UNCHANGED <<pc, vect, unnoticed>>
  \/ /\ Fails("read")
     /\ pc' = "load_failed"
     /\ UNCHANGED <<body, len, vect, pos, n, unnoticed>>

(* load_sorted_vector: a new vector of the len[v] numbers found, and of    *)
(* what was in the memory allocated for them where the file ends, the read *)
(* ends early or fails; load_smr_ctrl is told of none of these.            *)
LoadVector(v) ==
  LET found      == SubSeq(ctrl_file, pos + 1, Min({pos + len[v], Len(ctrl_file)}))
      numbers(k) == {c.number : c \in {d \in Range(SubSeq(found, 1, k)) : "number" \in DOMAIN d}}
      Missing(k) == {J \in SUBSET Slots : Cardinality(J) <= k /\ (k > 0 => J # {})}
  IN  /\ \E k \in 0 .. Len(found) :
           /\ \/ k = Len(found) /\ Works /\ UNCHANGED unnoticed
              \/ k < Len(found) /\ Fails("short") /\ unnoticed' = TRUE
              \/ k = 0 /\ len[v] > 0 /\ Fails("read") /\ unnoticed' = TRUE
           /\ pos' = pos + k
           /\ \E J \in Missing(len[v] - Cardinality(numbers(k))) :
                vect' = [vect EXCEPT ![v] = numbers(k) \cup J]
      /\ n' = n + 1
      /\ UNCHANGED <<pc, body, len>>

LoadCtrl ==
  /\ pc = "load_ctrl" /\ n <= Len(Layout)
  /\ IF Layout[n] \in Structures THEN LoadStructure(Layout[n]) ELSE LoadVector(Layout[n])
  /\ UNCHANGED <<data, rw_ptr, files, ret, save, saved>>

Loaded ==
  /\ pc = "load_ctrl" /\ n > Len(Layout)
  /\ ret' = 0
  /\ pc' = "ready"
  /\ UNCHANGED <<memory, files, local, save, saved, unnoticed, faults>>

(* init_smr_disk, with init_meta_ctr and init_hdd_buf.  Of the mapping     *)
(* table it leaves the metadata flags alone (stl.c:263), and cur_paddr.    *)
InitialVectors == [v \in Vectors |-> IF v = "free_hdd_bufs" THEN Slots ELSE {}]
InitialBody == [body EXCEPT !.s_ctr.tables = "invalid", !.m_ctr.status = "NO_SB0"]

init_smr_disk ==
  /\ pc = "load_failed"
  /\ body' = InitialBody
  /\ vect' = InitialVectors
  /\ ret' = -1
  /\ pc' = "ready"
  /\ UNCHANGED <<data, len, files, local, save, saved, unnoticed, faults>>

LeaveContext ==
  /\ \E c \in Contexts : data' = c.data /\ body' = c.body /\ vect' = c.vect
  /\ UNCHANGED len

(* If there is a file system, mark_all_free_blks drops blocks.             *)
PowerOn ==
  /\ pc = "ready"
  /\ IF body.m_ctr.status = "EXT2_DETECTED" THEN LeaveContext ELSE UNCHANGED memory
  /\ pc' = "run"
  /\ ret' = 0
  /\ unnoticed' = FALSE
  /\ pos' = 0 /\ rw_ptr' = 0 /\ n' = 1
  /\ UNCHANGED <<files, save, saved, faults>>

----------------------------------------------------------------------------
(* do_request: a request that is not aligned or does not end on the disk   *)
(* has no effect; it is reported as served all the same.                   *)
check_block_size(sector, nsect) ==
  /\ sector % KERN_SECTS_PER_HARD_SECT = 0
  /\ nsect % KERN_SECTS_PER_HARD_SECT = 0
  /\ sector + nsect <= TOTAL_SMR_BLOCKS_CNT * KERN_SECTS_PER_HARD_SECT

do_request(sector, nsect) ==
  /\ pc = "run"
  /\ IF check_block_size(sector, nsect) THEN LeaveContext ELSE UNCHANGED memory
  /\ UNCHANGED <<files, local, pc, ret, save, saved, unnoticed, faults>>

----------------------------------------------------------------------------
(* mem_disk_exit.                                                          *)
Rmmod ==
  /\ pc = "run"
  /\ pc' = IF save THEN "save" ELSE "release"
  /\ UNCHANGED <<memory, files, local, ret, save, saved, unnoticed, faults>>

(* save_system_data.  When one file cannot be opened, the other may have   *)
(* been created.                                                           *)
SaveOpen ==
  /\ pc = "save"
  /\ \/ /\ Works
        /\ exist' = FilePaths
        /\ pc' = "save_disk"
     \/ /\ Fails("open")
        /\ \E path \in FilePaths : exist' = exist \cup {path}
        /\ pc' = "release"
  /\ pos' = 0 /\ rw_ptr' = 0 /\ n' = 1
  /\ UNCHANGED <<memory, disk_file, ctrl_file, ret, save, saved, unnoticed>>

(* save_smr_disk_data: one turn of its loop.                               *)
SaveBlock ==
  /\ pc = "save_disk" /\ more
  /\ \/ \E k \in 1 .. EXT2_BLOCK_SIZE :
          /\ InData /\ Moves(k)
          /\ disk_file' = Overwrite(disk_file, pos, SubSeq(data, rw_ptr + 1, rw_ptr + k))
          /\ pos' = pos + k
          /\ saved' = Junk
          /\ UNCHANGED pc
     \/ /\ \/ Moves(0) /\ UNCHANGED pc
           \/ Fails("write") /\ pc' = "release"
           \/ Overruns("release")
        /\ UNCHANGED <<disk_file, pos, saved>>
  /\ rw_ptr' = IF pc' = "oops" THEN rw_ptr ELSE rw_ptr + EXT2_BLOCK_SIZE
  /\ UNCHANGED <<memory, ctrl_file, exist, n, ret, save, unnoticed>>

SavedDisk ==
  /\ pc = "save_disk" /\ ~more
  /\ pc' = "save_ctrl"
  /\ pos' = 0
  /\ UNCHANGED <<memory, files, rw_ptr, n, ret, save, saved, unnoticed, faults>>

(* The lengths are brought up to date when their structure is written.     *)
Measured_Not(s) == len
Measured(s) == WithLengths(s, [v \in VectorsOf(s) |-> Cardinality(vect[v])])

Cells(part) ==
  IF part \in Structures
  THEN <<[name |-> part, body |-> body[part], len |-> [v \in VectorsOf(part) |-> len'[v]]]>>
  ELSE [i \in 1 .. Cardinality(vect[part]) |-> [number |-> get_vect_element(vect[part], i - 1)]]

SaveCtrl ==
  /\ pc = "save_ctrl" /\ n <= Len(Layout)
  /\ len' = IF Layout[n] \in Structures THEN Measured(Layout[n]) ELSE len
  /\ LET cells == Cells(Layout[n])
     IN  \/ \E k \in 0 .. Len(cells) :
              /\ \/ k = Len(cells) /\ Works /\ UNCHANGED unnoticed
                 \/ k < Len(cells) /\ Fails("short") /\ unnoticed' = TRUE
              /\ ctrl_file' = Overwrite(ctrl_file, pos, SubSeq(cells, 1, k))
              /\ pos' = pos + k
              /\ n' = n + 1
              /\ UNCHANGED pc
         \/ /\ Fails("write") /\ cells # <<>>
            /\ pc' = "release"
            /\ UNCHANGED <<ctrl_file, pos, n, unnoticed>>
  /\ UNCHANGED <<data, body, vect, disk_file, exist, rw_ptr, ret, save, saved>>

Saved ==
  /\ pc = "save_ctrl" /\ n > Len(Layout)
  /\ saved' = IF unnoticed THEN Junk ELSE Context
  /\ pc' = "release"
  /\ UNCHANGED <<memory, files, local, ret, save, unnoticed, faults>>

(* The memory is freed, static variables with the module.                  *)
Release ==
  /\ pc = "release"
  /\ pc' = "out"
  /\ data' = NewData /\ body' = Zero /\ len' = NoLengths /\ vect' = NoElements
  /\ pos' = 0 /\ rw_ptr' = 0 /\ n' = 1
  /\ save' = FALSE /\ unnoticed' = FALSE
  /\ UNCHANGED <<files, ret, saved, faults>>

----------------------------------------------------------------------------
Next ==
  \/ Insmod \/ LoadOpen \/ LoadBlock \/ LoadedDisk \/ LoadCtrl \/ Loaded
  \/ init_smr_disk \/ PowerOn
  \/ \E sector, nsect \in 0 .. (TOTAL_SMR_BLOCKS_CNT + 1) * KERN_SECTS_PER_HARD_SECT : do_request(sector, nsect)
  \/ Rmmod \/ SaveOpen \/ SaveBlock \/ SavedDisk \/ SaveCtrl \/ Saved \/ Release

Spec == Init /\ [][Next]_vars

----------------------------------------------------------------------------
(* Types.  No call, however it ends, makes the image in the file longer    *)
(* than the disk, or moves an end of data.                                 *)
TypeOK ==
  /\ data \in Seq(DataUnits) /\ Len(data) = ImageSize
  /\ BodyOK(body)
  /\ len \in [Vectors -> Nat]
  /\ VectOK(vect)
  /\ disk_file \in Seq(DataUnits) /\ Len(disk_file) <= ImageSize
  /\ exist \subseteq FilePaths
  /\ pc \in {"out", "load", "load_disk", "load_ctrl", "load_failed", "ready", "run",
             "save", "save_disk", "save_ctrl", "release", "oops"}
  /\ pos \in Nat
  /\ rw_ptr \in Nat
  /\ n \in 1 .. Len(Layout) + 1
  /\ ret \in {0, -1}
  /\ save \in BOOLEAN
  /\ unnoticed \in BOOLEAN
  /\ faults \in 0 .. MAX_FAULTS

(* A load that reports success brings back the memory as the last save     *)
(* left it, block for block and vector for vector, unless control data was *)
(* transferred in part without notice, however many sessions without       *)
(* saving and saves that failed to begin lie between, whatever longer      *)
(* content the files had (mem_disk.c:463-550), and however the transfers   *)
(* of the image went, although no loop looks at the counts they return.    *)
LoadRestores ==
  pc = "ready" /\ ret = 0 /\ saved # Junk /\ ~unnoticed => Context = saved

(* pos counts what was transferred and rw_ptr blocks, so that a transfer   *)
(* cut short sets them apart for good (mem_disk.c:395-397, 417-419).  An   *)
(* image that was taken for complete is one over which they kept in step;  *)
(* and only where they had come apart does a loop run behind data, never   *)
(* by a turn too many.                                                     *)
ImageInStep ==
  /\ pc \in {"load_ctrl", "save_ctrl"} => rw_ptr = ImageSize
  /\ pc = "oops" => pos < rw_ptr

(* "try to load saved context . If it fails, we call init_smr_disk() to    *)
(* initialize the system" (mem_disk.c:662): what is loaded is a saved      *)
(* context, whole, be it of a disk that was used or of one that was only   *)
(* initialised.                                                            *)
LoadsContext ==
  pc = "ready" /\ ret = 0 =>
    \/ Context \in Contexts
    \/ body.s_ctr.tables = "invalid" /\ vect = InitialVectors

============================================================================
