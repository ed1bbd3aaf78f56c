\* Two data rings and the commands'; a part of two frames on each port.
SPECIFICATION FairSpec
CONSTANTS
  Rings = 3
  McuTotal = 2
  DataTotal = 2
  Seed = 3
  Batch = 2
  Polls = 2
  Frames = 5
  SizesTold = TRUE
INVARIANTS
  ChargedIsOutstanding NeverOverrun
PROPERTIES
  QueuedIsSent
CHECK_DEADLOCK FALSE
