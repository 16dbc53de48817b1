\* Two direct pointers and four numbers in a block: 86 blocks use all three levels.  The
\* reader may be the end of the kernel.
CONSTANTS
  EXT2_NDIR_BLOCKS = 2
  BLK_NUM_PER_BLK = 4
  EXT2_BLOCK_SIZE = 2
  DESCS_PER_BLOCK = 2
  INODES_PER_BLOCK = 2
  s_inodes_per_group = 4
  WORD = 100
  Disk <- MCDisk
  Numbers <- MCNumbers
  FileReads <- MCFileReads
  InodesInUse <- MCInodesInUse
  TreeLines <- MCTreeLines
SPECIFICATION FairSpec
INVARIANT TypeOK
INVARIANT ReadsRange
INVARIANT FaultsWhereLost
INVARIANT ListsTree
INVARIANT MemoryReturned
PROPERTY CallReturns
CHECK_DEADLOCK FALSE
