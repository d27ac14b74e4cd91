CONSTANTS
  BlockSize = 2
  MaxMetadataSize = 5
  Sizes = {1, 3, 5}
  Claims <- MCClaims
  Pieces <- MCPieces
  Lengths = {0, 1, 2, 3}
SPECIFICATION LiveSpec
INVARIANTS TypeOK ReturnsWholeMetadata
PROPERTIES HonestNotRejected HonestFetched HeldOnlyByTalk
