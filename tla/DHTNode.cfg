CONSTANTS
  InfohashLength = 2
  Half = 1
  ByteBits = 2
  HexBase = 2
  HexValue <- MCHexValue
  HexDigit <- MCHexDigit
  Bits <- MCBits
  IPv4len = 1
  IPv6len = 2
  V4Prefix <- MCPrefix
  self <- MCself
  family = "udp4"
  local <- MClocal
  Routers <- MCRouters
  Packets <- MCPackets
  max = 2
  QueueCap = 1
  NumBlocks = 2
  BlackCap = 1
SPECIFICATION LiveSpec
INVARIANTS TypeOK DistancesRight
PROPERTIES ReaderReturns RoundsEnd DeafNodeBootstraps DistantNodesQueried
