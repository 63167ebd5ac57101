CONSTANTS
  SizeW = 8
  HexStrings <- MCHexStrings
  Offsets <- MCOffsets
  Lengths <- MCLengths
SPECIFICATION Spec
PROPERTY CutByteFromStart
