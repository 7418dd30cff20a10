\* One attribute of each type and every way to set, save, restore and read
\* it. A byte has 4 values; ATTR_MAX_VALUE_SIZE is that of the generator
\* for strings of three characters and arrays of two bytes.
CONSTANTS
  Table <- AllTypes
  Hex = 2
  Span32 = 16
  Span64 = 32
  Grain = 4
  ATTR_MAX_VALUE_SIZE = 5
  Numbers <- MCNumbers
  Char = {"a", "b"}
  Strings <- MCStrings
  Arrays <- MCArrays
  HexTexts <- MCHexTexts
  BitWeights <- MCBitWeights
  Unknown = Unknown
SPECIFICATION Spec
INVARIANTS
  ValueIsAsTold
  ReadsBack
  ReadersAgree
  ReadMayBeWritten
