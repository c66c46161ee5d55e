SPECIFICATION Spec
CONSTANTS
  Writers = {w1, w2}
  Nobody = nobody
  Services = {"s3", "azure", "onedrive"}
  Lens = {0, 2, 5}
  PartSize = 2
  SmallMax = 1
  Fragment = 2
  MaxParts = 2
INVARIANTS
  TypeOK
  OnlyWholeObjects
  OkMeansPublished
  OldSurvivesFailure
  DanglingIsExplained
PROPERTIES
  WritersEnd
  StoreSpec
CHECK_DEADLOCK FALSE
