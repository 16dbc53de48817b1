\* Seven of eight blocks in use, no detector.
CONSTANTS
  TOTAL_SMR_BANDS_CNT = 2
  BLOCKS_PER_BAND = 4
  BLOCKS_OF_HDD_BUF = 2
  SWAP_OUT_CNT = 1
  favor = FALSE
  aware = FALSE
  HostBlocks = {0, 1, 2, 3, 4, 5, 6}
  MetaBlocks = {}
  Data = {d}
  Blank = Blank
  MAX_ACCESS = 1
SPECIFICATION Spec
CONSTRAINT BandZeroIntact
INVARIANT NoOops
CHECK_DEADLOCK FALSE
