CONSTANTS
  Fields <- MCFields
  Literals <- MCLiterals
  MaxLines = 6
SPECIFICATION Spec
INVARIANT TypeOK
INVARIANT CompilerMatchesGrammar
