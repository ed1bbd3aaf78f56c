\* Two workflow runs and a Mac's, any of them ending at any gh call, each driven on
\* while under way; what is stored is served in the end.
SPECIFICATION FairSpec
CONSTANTS
  c1 = c1 c2 = c2 m1 = m1
  before = before base_pkg = base_pkg board_pkg = board_pkg
  Package <- OnePackage
  CI = {c1, c2}
  Mac = {m1}
  Build = {c1, c2, m1, before}
  Seed <- SeedOne
  Size <- OneSize
  Whole = FALSE
  Prompt = TRUE
  Answered = TRUE
  Outlasts = TRUE
INVARIANTS
  OnePublisher IndexedDebsHosted ServedDebsHosted
PROPERTIES SuccessIsExact RunsEnd
CHECK_DEADLOCK FALSE
