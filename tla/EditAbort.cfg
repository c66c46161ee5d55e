\* A close that comes in the middle of a save.
SPECIFICATION SafetySpec
CONSTANTS
  Paths = {p1}
  Sessions = {s1}
  Calls = {c1}
  Commands = {"open", "force", "discard", "copy", "close", "disconnect", "exit"}
  InPlace = TRUE
  NoPath = NoPath
  NoSession = NoSession
SYMMETRY Symmetry
INVARIANT
  AbortedSaveIsRecovered
