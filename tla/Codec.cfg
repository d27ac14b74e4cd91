CONSTANTS
  InfohashLength = 3
  Half = 1
  ByteBits = 2
  HexBase = 2
  HexValue <- MCHexValue
  HexDigit <- MCHexDigit
  Bits <- MCBits
  IPv4len = 1
  IPv6len = 2
  V4Prefix <- MCPrefix
  Strings <- MCStrings
  Compacts <- MCCompacts
  Texts <- MCTexts
  Receivers <- MCReceivers
  Sources <- MCSources
  Lists <- MCLists
  Messages <- MCMessages
  Infos <- MCInfos
SPECIFICATION Spec
INVARIANTS IdsParse DistanceIsXorPrefix CachedDistanceHolds AddressesSurvive
  ConformingAccepted AnnouncersReported MetadataLoads
