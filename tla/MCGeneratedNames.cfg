CONSTANTS
  Files <- MCFiles
  MaxFiles = 5
  RuntimeNames <- MCRuntimeNames
  Underscore = "_"
  Dot = "."
  MutableTokens <- MCMutableTokens
  Numeral <- MCNumeral
  Before <- MCBefore
SPECIFICATION Spec
INVARIANTS NamesDistinct MutablesDistinct UniqueNamesKept PathsFindTypes
PROPERTY NamingEnds
CHECK_DEADLOCK FALSE
