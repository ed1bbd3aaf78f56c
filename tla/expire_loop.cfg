\* Every index of the small set, a window that took in day 3 and not day 1.
SPECIFICATION Spec
CONSTANTS
  image = image headers = headers meta = meta board = board fam = fam
  Indexes <- SmallIndexes
  Shipped <- OneShipped
  Cutoff = 2
INVARIANTS
  LoopKeepsLeast SameAnswers
PROPERTY Ends
CHECK_DEADLOCK FALSE
