SPECIFICATION LinkSpec
CONSTANTS
  NoName = NoName
  Lines <- MCLines
  Rest <- MCRest
  ModName <- MCModName
  OrdinalName <- MCOrdinalName
  OrdinalShaped <- MCOrdinalShaped
  Unspellable <- MCUnspellable
  RuntimeName <- MCRuntimeName
INVARIANT OneElementIsEnough
CHECK_DEADLOCK FALSE
