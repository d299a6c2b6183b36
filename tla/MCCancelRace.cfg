SPECIFICATION Spec
CONSTANTS
  t1 = t1
  t2 = t2
  r1 = r1
  r2 = r2
  Threads = {t1, t2}
  Requests = {r1, r2}
  Contexts = {c1, c2, c3, c4}
  PriorityRequests = {r2}
  FT = TRUE
  Workloads <- OneRequestReused
  Null = Null
INVARIANTS OwnCompletion
CHECK_DEADLOCK FALSE
