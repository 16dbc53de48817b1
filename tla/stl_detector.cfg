\* Two bands of two blocks, all in use; a buffer of three slots of which two are swapped
\* out, and the third, written less, can take the place of one of them; the detector frees
\* blocks and flags block 0.  Serve is weakly fair.
CONSTANTS
  TOTAL_SMR_BANDS_CNT = 2
  BLOCKS_PER_BAND = 2
  BLOCKS_OF_HDD_BUF = 3
  SWAP_OUT_CNT = 2
  favor = TRUE
  aware = TRUE
  HostBlocks = {0, 1, 2, 3}
  MetaBlocks = {0}
  Data = {d}
  Blank = Blank
  MAX_ACCESS = 2
SPECIFICATION FairSpec
VIEW LiveState
INVARIANT TypeOK
INVARIANT MappingBijection
INVARIANT BufferOwnership
INVARIANT BandCounters
INVARIANT FullyInvalidExact
INVARIANT FreeRun
INVARIANT GcFindsRoom
INVARIANT ColdBufsDistinct
INVARIANT ColdestChosen
PROPERTY RequestAnswered
