CONSTANTS
  Infohash = {1, 2}
  Address = {1}
  NoPeer = 0
  Worker = {w1}
  NoWorker = NoWorker
  Callback = {c1}
  Tag = {"xxx"}
  Match <- MCMatch
  Texts <- MCTexts
  SkipTags = {"xxx"}
  Limit = 1
  CacheCap = 1
  StoreFails = FALSE
SPECIFICATION FetchesEndSpec
PROPERTIES NextIsReached
