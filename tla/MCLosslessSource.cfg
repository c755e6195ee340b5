\* The numbers of the source.  After the last block both programs stop.
CONSTANTS
  Last = 63
  RunBits = 4
  SizeBits = 4
  MaxSize = 11
  ByteBits = 8
  WindowBytes = 4
  Inputs <- SourceInputs
SPECIFICATION CodeSpec
CHECK_DEADLOCK FALSE
INVARIANTS AlwaysRoundTrip
