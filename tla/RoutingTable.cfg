CONSTANTS
  Node <- MCNode
  self = "me"
  max = 5
  dist <- MCDist
  Nil = Nil
SPECIFICATION Spec
INVARIANTS TypeOK InSync HeapOrdered ClosestKept GetMembers
PROPERTIES GetExact PanicNeedsRace NewcomerKept ImplementsTable
