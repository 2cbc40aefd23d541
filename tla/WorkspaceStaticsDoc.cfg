SPECIFICATION Spec
CONSTANTS
  main = main  f0 = f0  g0 = g0  h0 = h0  print = print
  x0 = x0  y0 = y0  z0 = z0  R0 = R0
  out = out  one = one  two = two
  Function <- MCFunction
  Global <- MCGlobal
  Record = {R0}
  Static <- MCStatic
  Main = main
  Sink = {print}
  Lines <- MCLines
  Stdout = out
  ActorName = {one, two}
  Rank <- MCRank
  Pins <- MCPins
INVARIANT StaticsFaceNoBoundary
CHECK_DEADLOCK FALSE
