CONSTANTS
  Captures <- MCCaptures
  Fields <- MCFields
  NoCapture = NoCapture
SPECIFICATION Spec
INVARIANT DecodeToleratesTruncatedElements
