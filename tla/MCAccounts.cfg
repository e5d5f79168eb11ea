CONSTANTS
  User = {u1, u2}
  Request = {p1, p2}
  Assertion = {x1}
  None = None
  Subject <- MCSubject
  MaxRequests = 4
  MaxSessions = 2
SYMMETRY Interchangeable
SPECIFICATION Spec
INVARIANTS OneShot ResetEndsSessions OwnerRetained DirectoryAgrees
CHECK_DEADLOCK FALSE
