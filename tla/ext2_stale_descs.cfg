\* Block 1 may hold zeroes from before the file system was made.
CONSTANTS
  TOTAL_SMR_BLOCKS_CNT = 6
  BITS_PER_BITMAP = 6
  DESCS_PER_BLOCK = 2
  INODES_PER_BLOCK = 2
  NoData = NoData
  NoReq = NoReq
  Writes <- WipedGroupWrites
SPECIFICATION Spec
INVARIANT DescriptorsDetected
