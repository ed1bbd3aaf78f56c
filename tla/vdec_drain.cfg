\* A session with two CAPTURE buffers.
SPECIFICATION FairSpec
CONSTANTS
  Buffers = 2
  Room = 2
  Inputs = 3
  Stops = 2
  Seeks = 1
  Prompt = TRUE
  Hasty = FALSE
  Restarts = TRUE
INVARIANTS
  LastComesLast OneLastPerStop NothingAfterRelease
PROPERTIES
  StopIsAnswered InputIsParsed
CHECK_DEADLOCK FALSE
