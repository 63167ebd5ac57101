CONSTANTS
  Captures <- MCCaptures
  Fields <- MCNoFields
  NoCapture = NoCapture
  SSIDs <- MCSSIDs
  Scripts <- MCGetterScript
  SizeW = 4
  MaxTime = 3
SPECIFICATION Spec
INVARIANT RecordingNeverThrows
