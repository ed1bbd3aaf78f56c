\* A run that failed while replacing the index, then one with nothing new.
SPECIFICATION Spec
CONSTANTS
  c1 = c1 c2 = c2 m1 = m1
  before = before base_pkg = base_pkg board_pkg = board_pkg
  Package <- OnePackage
  CI = {c1, c2}
  Mac = {}
  Build = {c1, c2, m1, before}
  Seed <- SeedOne
  Size <- OneSize
  Whole = TRUE
  Prompt = TRUE
  Answered = TRUE
  Outlasts = TRUE
PROPERTY ImagesOverReadableRepo
CHECK_DEADLOCK FALSE
