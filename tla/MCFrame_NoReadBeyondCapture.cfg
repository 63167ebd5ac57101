CONSTANTS
  Captures <- MCCapturesWithWrap
  Fields <- MCFields
  NoCapture = NoCapture
SPECIFICATION Spec
INVARIANT NoReadBeyondCapture
