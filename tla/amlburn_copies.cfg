\* Every box, three verbs, anything failing or killed between any two steps.
SPECIFICATION Spec
CONSTANTS
  Port = {"A", "B"}
  Default = "B"
  Layouts <- Boxes
  Window = 2
  Guarded = {1}
  PartFirst = 2
  PartLen = 1
  ImageLen = 3
  Starts = {0, 1, 4}
  Counts = {0, 2}
  Width = 8
  Verbs = 3
  AllAnswer = TRUE
  FileReads = TRUE
  FileTakes = TRUE
INVARIANTS
  FileIsSource TargetIsFile NothingStranded RomGetsNoCommand
PROPERTIES
  WritesImageInOrder OnlyEmmcWritten
CHECK_DEADLOCK FALSE
