SPECIFICATION Spec
CONSTANTS
  a = a  b = b  e = e
  ctor = ctor  m0 = m0  m1 = m1  out = out
  g0 = g0  k0 = k0
  f0 = f0  h = h
  s1 = s1  s2 = s2
  t = t
  Name <- MCName
  Class <- MCClass
  Template <- MCTemplate
  SignatureOf <- MCSignatureOf
  CallsOf <- MCCallsOf
  FieldsOf <- MCFieldsOf
  MethodsOf <- MCMethodsOf
  Special <- MCSpecial
  Outline <- MCOutline
  Programs <- MCPrograms
  PossibleFaults <- MCFaults
  PossibleRefusals <- MCRefusals
CHECK_DEADLOCK FALSE
INVARIANT CallsResolve
