\* A disk of two groups; super blocks of a larger disk and of a smaller block size are
\* also written, and are to be refused.
CONSTANTS
  TOTAL_SMR_BLOCKS_CNT = 12
  BITS_PER_BITMAP = 6
  DESCS_PER_BLOCK = 2
  INODES_PER_BLOCK = 2
  NoData = NoData
  NoReq = NoReq
  Writes <- TwoGroupWrites
  FsSuper <- TwoGroups
  FsDescs <- TwoDescs
SPECIFICATION FairSpec
INVARIANT TypeOK
INVARIANT DetectedExactly
INVARIANT DetectionNotLate
INVARIANT FlagsFollowStatus
PROPERTY DroppedOnlyIfFree
PROPERTY WriteAnswered
