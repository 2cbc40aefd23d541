SPECIFICATION Spec
CONSTANTS
  BlockSize = 2
  Actors = 1
  Programs <- Threes
CHECK_DEADLOCK FALSE
PROPERTY ActorPanicEnds
