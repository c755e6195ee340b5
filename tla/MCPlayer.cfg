CONSTANTS
  MAX_IFRAME_OFFSET = 2
  Near = 4
  MinSkip = 3
  Videos <- MCVideos
  Capacity = 3
  Presses <- MCPresses
SPECIFICATION Spec
INVARIANTS NoBufferRace MessagesInOrder SlaveStaysInFile FramesInStep QuietWhenWaiting
PROPERTIES ScreenFollows ReturnsToButtons ButtonIsServed PlaysToTheEnd
