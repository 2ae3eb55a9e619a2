SPECIFICATION HttpSpec
CONSTANTS
  NULL = NULL
  HeaderCap = 128
  MaxLinkId = 4
  Links <- MCLinks
  StatusCodes <- MCStatus
  TypeLens <- ShortTypes
  BodyLens <- MCBodies
INVARIANTS ResponseDelimited NothingOwed
