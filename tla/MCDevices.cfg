\* The rings as the source has them: four slots and four frame buffers.  Two
\* messages tell a slot's old contents from its new ones, two pictures old from
\* new.  The FIFO of the real video DMA is deeper than two; the run shows that
\* two are enough.
CONSTANTS
  RingSize = 4
  Msg = {m1, m2}
  NoMsg = NoMsg
  NumBuffers = 4
  FifoDepth = 2
  Frame = {f1, f2}
  Black = Black
  Payloads = {b1, b2, b3}
  descriptor_fifo_depth = 3
  MaxCounter = 2
SPECIFICATION MCSpec
INVARIANTS NoSlotReuse NoTearing FifoHasRoom StillFrameHasBuffer
PROPERTIES SendReturns PostedIsReceived ImplementsChannel
           BufferBecomesAvailable RegisteredIsDisplayed ImplementsFrameQueue
           ImplementsTransferQueue
