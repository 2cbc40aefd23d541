SPECIFICATION HarnessSpec
CONSTANTS
  First = "first"
  Emitter <- MCEmitter
  Sound <- MCSound
  Golden <- MCGolden
  Allow <- MCAllow
  Warnings <- MCWarnings
  MaxIterations = 3
INVARIANT NumbersAreMeasured
CHECK_DEADLOCK FALSE
