CONSTANTS
  Infohash = {1, 2}
  Address = {1, 2}
  Tag = {"hd"}
  TagLists <- MCTagListsShort
  IdBound = 3
SPECIFICATION Spec
PROPERTIES AnnouncementStored
