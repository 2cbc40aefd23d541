SPECIFICATION ServicesSpec
CONSTANTS
  r1 = r1  r2 = r2  r3 = r3  r4 = r4
  example = example  source = source  huge = huge
  ann = ann  NoUser = NoUser
  Request <- Four
  Key <- Keys
  User <- JustAnn
  KeyOf <- FourKeys
  UserOf <- FourUsers
  Examples <- OneExample
  Oversized <- OneHuge
  Daily = 2
  Lifetime = 2
  MaxConcurrent = 1
  MaxWindows = 1
  MaxRestarts = 1
  First = "first"
  Emitter <- MCEmitter
  Sound <- MCSound
  Golden <- MCGolden
  Allow <- MCAllow
  Warnings <- MCWarnings
  MaxIterations = 3
CHECK_DEADLOCK FALSE
INVARIANTS LifetimeIsExact NeverOvercharged FreeLaneIsPaidFor NeverShipsRed
PROPERTIES EveryUnitUsable EveryoneIsServed RatchetNeverRegresses
