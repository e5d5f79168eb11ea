CONSTANTS
  e1 = e1
  e2 = e2
  e3 = e3
  e4 = e4
  e5 = e5
  w1 = w1
  w2 = w2
  w3 = w3
  p1 = p1
  p2 = p2
  v1 = v1
  None = None
  Events = {e1, e2, e3, e4}
  Writers = {w1, w3}
  SnapshotWriters = {w3}
  Purgers = {p1}
  Verifiers = {v1}
  MaxDamage = 1
SPECIFICATION Spec
SYMMETRY Alike
CHECK_DEADLOCK FALSE
INVARIANTS ChainIntact InnerDamageVisible
PROPERTIES AppendOnly NoFalseAlarm
