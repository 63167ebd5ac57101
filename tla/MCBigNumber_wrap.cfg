CONSTANTS
  SizeW = 5
  HexStrings <- MCHexStrings
  Offsets <- MCWrapOffsets
  Lengths <- MCWrapLengths
SPECIFICATION Spec
INVARIANT NoUndefinedBehaviour
