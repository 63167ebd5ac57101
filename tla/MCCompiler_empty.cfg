CONSTANTS
  Fields <- MCFields
  Literals <- MCLiterals
  MaxLines = 3
SPECIFICATION Spec
INVARIANT EveryScriptMatchesGrammar
