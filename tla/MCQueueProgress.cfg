CONSTANTS
  d1 = d1
  d2 = d2
  d3 = d3
  c1 = c1
  w1 = w1
  w2 = w2
  Kinds = {"email", "webhook", "chat"}
  Deliveries = {d1, d2}
  Channels = {c1}
  Channel <- SameChannel
  CreatedAt <- ByName
  Workers = {w1, w2}
  MaxAttempts = 2
  MaxCrashes = 1
  MaxStalls = 0
  MaxBounces = 1
SPECIFICATION FairSpec
CHECK_DEADLOCK FALSE
PROPERTIES AllSettle
