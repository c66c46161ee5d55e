\* A file opened twice at once: two sessions save the same temp file.
SPECIFICATION Spec
CONSTANTS
  Paths = {p1}
  Sessions = {s1, s2}
  Calls = {c1, c2}
  Commands = {"open"}
  InPlace = FALSE
  NoPath = NoPath
  NoSession = NoSession
INVARIANTS
  NoBlindOverwrite
  TrackedEditIsAttended
PROPERTY
  EditsArrive
