SPECIFICATION Spec
CONSTANTS
  Rows = {x, y}
  Slots = {s1, s2}
  Readers = {r1}
  MaxTime = 2
  Ttl = 1
  MaxEpoch = 2
SYMMETRY Symmetry
INVARIANTS TypeOK AnswerIsCurrent
CHECK_DEADLOCK FALSE
PROPERTIES Promise
