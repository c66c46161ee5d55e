SPECIFICATION Spec
CONSTANTS
  Services = {"s3", "azure", "sftp", "onedrive"}
  Tops = {d, e}
  Leaves = {x}
  Ops = {o1, o2}
  MaxFirst = 2
  MaxBorn = 5
SYMMETRY Symmetry
INVARIANTS
  TypeOK
  NothingLostUnasked
  OkMeansDone
  
PROPERTIES
  RenamesWhatItSaw
CHECK_DEADLOCK FALSE
