SPECIFICATION MCSpec
CONSTANTS
  Documents <- MCDocuments
  OctetBits = 2
  FloatMantissa = 5
  DoubleMantissa = 12
  Cells = 9
  MaxSteps = 2
  Starts <- BufferStarts
  Texts <- BufferTexts
  Offsets <- BufferOffsets
  Values <- IntegerValues
  Sampled <- DoubleMagnitudes
INVARIANT MarkupKept
PROPERTY BuffersExact
CHECK_DEADLOCK FALSE
