CONSTANTS
  BlockSize = 2
  MaxMetadataSize = 5
  Sizes = {2, 4}
  Claims <- MCClaims
  Pieces <- MCPieces
  Lengths = {0, 1, 2, 3}
SPECIFICATION LiveSpec
PROPERTIES HonestNotRejected
