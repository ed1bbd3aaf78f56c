\* Kernels of two families, or a base and a board, over five days, a window of one.
SPECIFICATION Spec
CONSTANTS
  k1 = k1 k2 = k2 base = base board = board other = other
  path = path dtb = dtb module = module dropped = dropped
  a1 = a1 a2 = a2 a3 = a3 b1 = b1 b2 = b2
  o0 = o0 o1 = o1 o2 = o2 o3 = o3 n0 = n0 n1 = n1 n2 = n2 p0 = p0
  Kernel <- Kernels
  Plain <- Plains
  Board <- Boards
  Inputs <- Hashes
  InputsOf <- HashesOf
  Upstream <- Upstreams
  DependsOn <- Dependencies
  MadeOf <- Images
  Path = {path, dtb, module, dropped}
  Ships <- Shipped
  Announces <- Notices
  Histories <- BothMove
  Keep = 1
  LastDay = 5
  Forward = TRUE
  Guarded = TRUE
INVARIANTS
  DependsResolve GoBack NoOrphans NamesKeepInputs ContentsOfNewest
PROPERTIES
  StampsStay OldOnesGo UpgradesUnpack
CHECK_DEADLOCK FALSE
