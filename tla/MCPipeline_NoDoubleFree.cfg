CONSTANTS
  Captures <- MCCapturesWithFaults
  Fields <- MCNoFields
  NoCapture = NoCapture
  SSIDs <- MCSSIDs
  Scripts <- MCGetterScript
  SizeW = 4
  MaxTime = 3
SPECIFICATION Spec
INVARIANT NoDoubleFree
