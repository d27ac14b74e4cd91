CONSTANTS
  Infohash = {1, 2}
  Address = {1}
  NoPeer = 0
  Worker = {w1, w2}
  NoWorker = NoWorker
  Callback = {c1}
  Tag = {"xxx"}
  Match <- MCMatch
  Texts <- MCTexts
  SkipTags = {"xxx"}
  Limit = 2
  CacheCap = 1
  StoreFails = TRUE
SPECIFICATION LiveSpec
INVARIANTS TypeOK HandOver PeersKnown
PROPERTIES DispatcherGoesOn PendingIsFetched LeavesIndexOnly RejectedStaysOut
