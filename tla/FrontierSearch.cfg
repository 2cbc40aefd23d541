SPECIFICATION Spec
CONSTANTS
  Item <- MCItem
  KindOf <- MCKind
  Edges <- MCGraph
  Defined <- MCDefined
  External <- MCExternal
  FileOf <- MCFile
  LineOf <- MCLine
  PossibleSeeds <- MCSeeds
  Outcomes <- MCOutcomes
  MaxNodes = 4
INVARIANTS NeverWorseThanBaseline RepairsGiveUpItems MemoIsSound
PROPERTY KeepsPromise
CHECK_DEADLOCK FALSE
