\* The same attributes; README.md says that a readable and writable one can
\* be read and written from SMP.
CONSTANTS
  Table <- AllTypes
  Hex = 2
  Span32 = 16
  Span64 = 32
  Grain = 4
  ATTR_MAX_VALUE_SIZE = 5
  Numbers <- MCNumbers
  Char = {"a", "b"}
  Strings <- MCStrings
  Arrays <- MCArrays
  HexTexts <- MCHexTexts
  BitWeights <- MCBitWeights
  Unknown = Unknown
SPECIFICATION Spec
INVARIANTS
  SmpReadThenWrite
