\* All four blocks are in use, are read and rewritten in the buffer, and can be freed; two
\* contents, so that a wrong one shows.
CONSTANTS
  TOTAL_SMR_BANDS_CNT = 2
  BLOCKS_PER_BAND = 2
  BLOCKS_OF_HDD_BUF = 2
  SWAP_OUT_CNT = 1
  favor = FALSE
  aware = TRUE
  HostBlocks = {0, 1, 2, 3}
  MetaBlocks = {}
  Data = {d, e}
  Blank = Blank
  MAX_ACCESS = 2
SPECIFICATION Spec
SYMMETRY DataSymmetry
VIEW LiveState
INVARIANT IInv
PROPERTY ImplementsDevice
PROPERTY ShingledWrite
