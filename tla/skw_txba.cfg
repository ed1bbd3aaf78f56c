\* Two classes of one peer.
SPECIFICATION FairSpec
CONSTANTS
  Tid = {be, vi}
  None = None
  He = TRUE
  WorkRoom = 2
  EventRoom = 1
INVARIANTS
  ClaimIsBacked
PROPERTIES
  DroppedIsAskedAgain
CHECK_DEADLOCK FALSE
