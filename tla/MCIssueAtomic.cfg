CONSTANTS
  i1 = i1
  i2 = i2
  i3 = i3
  r1 = r1
  r2 = r2
  todo = todo
  doing = doing
  done = done
  c1 = c1
  Unset = Unset
  Issues = {i1, i2, i3}
  Requests = {r1, r2}
  Statuses = {todo, doing, done}
  Contents = {}
  FirstStatus = todo
  Transitions <- OneWay
  WipLimit <- LimitOnDoing
  Kinds = {"bulk", "archive"}
  MaxVersion = 2
SPECIFICATION Spec
SYMMETRY SlotsAndIssues
CHECK_DEADLOCK FALSE
INVARIANTS WipOverrunBounded
PROPERTIES EditsAreAtomic
