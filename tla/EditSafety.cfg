\* One session of one file, two commands at a time.
SPECIFICATION SafetySpec
CONSTANTS
  Paths = {p1}
  Sessions = {s1}
  Calls = {c1, c2}
  Commands = {"open", "force", "discard", "copy", "close", "disconnect", "exit"}
  InPlace = TRUE
  NoPath = NoPath
  NoSession = NoSession
SYMMETRY Symmetry
INVARIANTS
  TypeOK
  NoBlindOverwrite
  TrackedEditIsAttended
PROPERTY
  CloseSparesEdits
