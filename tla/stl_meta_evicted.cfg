\* Metadata is favored.
CONSTANTS
  TOTAL_SMR_BANDS_CNT = 2
  BLOCKS_PER_BAND = 2
  BLOCKS_OF_HDD_BUF = 2
  SWAP_OUT_CNT = 1
  favor = TRUE
  aware = TRUE
  HostBlocks = {0, 1, 2, 3}
  MetaBlocks = {0, 1}
  Data = {d}
  Blank = Blank
  MAX_ACCESS = 4
SPECIFICATION Spec
INVARIANT FavoredMetaKept
