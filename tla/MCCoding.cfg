\* Five frames, at most three apart from I-frame to I-frame.  Three-bit bytes and
\* a window of three: the longest symbol just fits, as in the source.
CONSTANTS
  MAX_IFRAME_OFFSET = 3
  num_frames = 5
  Blocks = 2
  Pictures <- MCPictures
  CodedSizes <- MCCodedSizes
  Last = 10
  RunBits = 2
  SizeBits = 2
  MaxSize = 2
  ByteBits = 3
  WindowBytes = 3
  Inputs <- SmallInputs
SPECIFICATION MCSpec
INVARIANTS RowsPointAtIframes TrailerIsVideo ReaderFindsItsPlace
           WindowShowsStream RoundTrip StaysInBuffers
PROPERTIES NoDrift DecodingEnds
