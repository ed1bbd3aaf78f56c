\* gh may stop between deleting the old Packages and uploading the new.
SPECIFICATION Spec
CONSTANTS
  c1 = c1 c2 = c2 m1 = m1
  before = before base_pkg = base_pkg board_pkg = board_pkg
  Package <- OnePackage
  CI = {c1, c2}
  Mac = {}
  Build = {c1, c2, m1, before}
  Seed <- SeedOne
  Size <- OneSize
  Whole = FALSE
  Prompt = TRUE
  Answered = TRUE
  Outlasts = TRUE
INVARIANT NoneOnlyWhenNothingPublished
CHECK_DEADLOCK FALSE
