\* 24, 120 and 108 divided by twelve.  Reading outside the table ends a
\* behaviour, so the system may stop.
CONSTANTS
  MAX_IFRAME_OFFSET = 2
  Near = 10
  MinSkip = 9
  Videos <- ShortVideos
SPECIFICATION Spec
CHECK_DEADLOCK FALSE
INVARIANTS LoopsFindTheRow RewindStaysInTable ForwardByFiveSeconds
