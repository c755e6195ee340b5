\* The numbers of the source.
CONSTANTS
  MAX_IFRAME_OFFSET = 24
  Near = 120
  MinSkip = 108
  Videos <- ManyIframes
SPECIFICATION Spec
CHECK_DEADLOCK FALSE
INVARIANT RewindByFiveSeconds
