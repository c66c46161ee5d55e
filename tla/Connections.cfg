SPECIFICATION Spec
CONSTANTS
  Clients = {a1, a2}
  Writers = {a1, a2}
  Marks = {b1, b2}
  Saved = {"agent", "password", "s3"}
  Ed = {k1, k2}
  Rsa = {k3}
  NoKey = NoKey
SYMMETRY Symmetry
INVARIANTS
  TypeOK
  OnlyApprovedKeys
  OnePin
  FileParses
  
  
PROPERTIES
  OthersStay
CHECK_DEADLOCK FALSE
