\* Two groups, one published before and one not: some reused, some new.
SPECIFICATION Spec
CONSTANTS
  c1 = c1 c2 = c2 m1 = m1
  before = before base_pkg = base_pkg board_pkg = board_pkg
  Package <- TwoPackages
  CI = {c1, c2}
  Mac = {}
  Build = {c1, c2, m1, before}
  Seed <- SeedOne
  Size <- OneSize
  Whole = TRUE
  Prompt = TRUE
  Answered = TRUE
  Outlasts = TRUE
INVARIANTS
  TypeOK NamesKeepBytes NoBoxAhead
PROPERTY ImplementsRepo
CHECK_DEADLOCK FALSE
