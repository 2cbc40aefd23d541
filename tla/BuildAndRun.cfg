SPECIFICATION StationSpec
CONSTANTS
  Job = {a, b}
  MaxEdits = 1
  MaxRuns = 2
  NoName = NoName
  Lines <- MCLines
  Rest <- MCRest
  ModName <- MCModName
  OrdinalName <- MCOrdinalName
  OrdinalShaped <- MCOrdinalShaped
  Unspellable <- MCUnspellable
  RuntimeName <- MCRuntimeName
  BlockSize = 2
  Actors = 2
  Programs <- Threes
CHECK_DEADLOCK FALSE
INVARIANTS
  SectionNeverOlder
  NoTornSidecar
  UsesFollowTheirSymbols
  StaticsNeverMeet
  ModuleNamesApart
  MentionsKeepTheirShape
  CallsFitTheirCallee
  DefinitionsSurvive
  PanicIsTheProgramsOwn
  OneMessageInFlight
PROPERTIES CodeIsTheCompilers RunsLikeC ProgramEnds
