\* Every list of ranges, failures, lost power and repeated runs.
SPECIFICATION Spec
CONSTANTS
  RawFrom = 1
  Start = 6
  RangeLists <- SmallLists
INVARIANTS
  OwnSectorsKept InstalledIsWhole
PROPERTIES
  LoaderLast
