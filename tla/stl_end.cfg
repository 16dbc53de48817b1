\* Bands of four blocks: phy_bands[0].valid_cnt can be the number of FREE_PHY_BLOCK.
\* All eight blocks of the disk are in use.  The driver stops where it faults.
CONSTANTS
  TOTAL_SMR_BANDS_CNT = 2
  BLOCKS_PER_BAND = 4
  BLOCKS_OF_HDD_BUF = 3
  SWAP_OUT_CNT = 2
  favor = FALSE
  aware = TRUE
  HostBlocks = {0, 1, 2, 3, 4, 5, 6, 7}
  MetaBlocks = {}
  Data = {d}
  Blank = Blank
  MAX_ACCESS = 2
SPECIFICATION Spec
VIEW NamelessState
INVARIANT FaultHadRoom
CHECK_DEADLOCK FALSE
