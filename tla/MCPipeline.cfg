CONSTANTS
  Captures <- MCCaptures
  Fields <- MCNoFields
  NoCapture = NoCapture
  SSIDs <- MCSSIDs
  Scripts <- MCScripts
  SizeW = 4
  MaxTime = 2
SPECIFICATION FairSpec
INVARIANT TypeOK
INVARIANT RowsRecordFirstAndLastSighting
INVARIANT OutputIsScriptValue
PROPERTY EveryBeaconIsEventuallyRecorded
