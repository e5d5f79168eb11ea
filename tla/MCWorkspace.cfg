CONSTANTS
  Handler = {h1, h2}
  Upload = {t1, t2}
  Customer = {p1, p2}
  Mail = {t1, t2}
  ReplyKey = {k1}
  MaxServiceRequests = 2
  Agent = {p1, p2}
  Queue = {t1, t2}
  Ticket = {t1, t2}
  Status = {st1, st2}
  None = None
  QueueLimit = 2
  SnapshotLimit = 1
  WipLimit = 1
  Sprint = {t1, t2}
  Task = {t1, t2}
  Release = {r1}
  Work = {t1, t2}
  Item = {t1, t2}
  Rank = {0, 1}
  Estimate = {1, 2}
  Browser = {b1}
  MaxEvents = 2
  StreamBatch = 1
  Datum = {t1, t2}
  Job = {r1}
  Target = {t1, t2}
  Bulk = {t1, t2}
  BulkBatch = 1
  Token = {t1, t2}
  RequestKey = {k1}
  RateLimit = 2
  Stages = 3
  MaxVisits = 3
  Nodes = 3
  MaxLinks = 3
  Overlap = 2
  Pieces = 3
  MaxPages = 2
  Cohort = 2
  Points = 9
  Today = 1
  Aim = {t1, t2}
  MaxDepth = 3
  Measure = {0, 1}
  Viewer = m1
  Others = {m2}
  MaxNotes = 3
  InboxSize = 1
  Occasion = {t1, t2}
  MaxTries = 2
  Scenes = {"forms", "mail", "queues", "sprints", "releases", "scenarios",
            "browser", "customer", "screen", "deletion", "bulk", "api",
            "workflow", "access", "links", "report", "goals",
            "discussion", "bell", "inbox", "automation"}
SPECIFICATION Spec
SYMMETRY Symmetry
INVARIANTS FormsHold EffectMatchesRecord QueuesHold CompletedOnce ReleasedOnce RollbackExact
INVARIANTS NothingMissed  DeletionGoverned BulkExact AutomationTells OncePerKey
INVARIANTS WorkflowIntact RecoveryHolds
CHECK_DEADLOCK FALSE
