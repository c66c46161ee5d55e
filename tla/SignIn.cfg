SPECIFICATION Spec
CONSTANTS
  Sessions = {s1, s2}
  Callers = {c1, c2}
  Capacity = 2
  MaxJunk = 1
  MaxTokens = 3
  MaxDeletes = 1
INVARIANTS
  TypeOK
  
  TimedOutUnanswered
  NewestStored
PROPERTIES
  NeverOlder
  LoginsEnd
CHECK_DEADLOCK FALSE
