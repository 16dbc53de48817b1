\* One write fails while saving.
CONSTANTS
  TOTAL_SMR_BLOCKS_CNT = 2
  EXT2_BLOCK_SIZE = 2
  KERN_SECTS_PER_HARD_SECT = 2
  Slots = {0, 1}
  Faults = {"write"}
  MAX_FAULTS = 1
  MAX_LEN = 2
  Junk = Junk
  MetaVectors <- MCMetaVectors
  Contexts <- MCContexts
SPECIFICATION Spec
INVARIANT LoadsContext
