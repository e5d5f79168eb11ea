CONSTANTS
  i1 = i1
  i2 = i2
  i3 = i3
  r1 = r1
  r2 = r2
  todo = todo
  doing = doing
  done = done
  c1 = c1
  Unset = Unset
  Issues = {i1}
  Requests = {r1, r2}
  Statuses = {todo, doing, done}
  Contents = {c1}
  FirstStatus = todo
  Transitions <- OneWay
  WipLimit <- LimitOnDoing
  Kinds = {"ui"}
  MaxVersion = 3
SPECIFICATION Spec
SYMMETRY Slots
CHECK_DEADLOCK FALSE
PROPERTIES EditorLosesNoUpdate
