SPECIFICATION Spec
CONSTANTS
  Item <- MCItem
  KindOf <- MCKind
  Tag = {1, 2}
  AdmittedBase = {3}
  PossibleEdges <- MCEdges
  PossibleRejections <- MCRejections
INVARIANTS LeastFixpoint EmittedItemsCompile RedChainsReachTheirRoot
PROPERTY KeepsPromise
CHECK_DEADLOCK FALSE
