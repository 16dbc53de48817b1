\* Any one call fails or ends early, in any of any number of sessions. It may be the
\* end of the kernel.
CONSTANTS
  TOTAL_SMR_BLOCKS_CNT = 2
  EXT2_BLOCK_SIZE = 2
  KERN_SECTS_PER_HARD_SECT = 2
  Slots = {0, 1}
  Faults = {"open", "read", "write", "short"}
  MAX_FAULTS = 1
  MAX_LEN = 2
  Junk = Junk
  MetaVectors <- MCMetaVectors
  Contexts <- MCContexts
SPECIFICATION Spec
INVARIANT TypeOK
INVARIANT LoadRestores
INVARIANT ImageInStep
CHECK_DEADLOCK FALSE
