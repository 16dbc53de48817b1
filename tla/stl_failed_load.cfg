\* The smallest disk with a place in the middle of a band that is not the first.
CONSTANTS
  TOTAL_SMR_BANDS_CNT = 2
  BLOCKS_PER_BAND = 2
  BLOCKS_OF_HDD_BUF = 2
  SWAP_OUT_CNT = 1
  favor = FALSE
  aware = FALSE
  HostBlocks = {0, 1, 2, 3}
  MetaBlocks = {}
  Data = {d}
  Blank = Blank
  MAX_ACCESS = 1
SPECIFICATION ReloadSpec
INVARIANT CursorAtFree
