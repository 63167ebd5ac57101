CONSTANTS
  Captures <- MCCaptures
  Fields <- MCFieldsWithEmpty
  NoCapture = NoCapture
SPECIFICATION Spec
INVARIANT GetValueNeverThrows
