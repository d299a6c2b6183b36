SPECIFICATION FairSpec
CONSTANTS
  c1 = c1
  c2 = c2
  r1 = r1
  r2 = r2
  Comms = {c1, c2}
  Requests = {r1, r2}
  CommOf <- OneEach
  AnyRequests = {a1}
  Heartbeat = Heartbeat
  Modes = {"directed", "any"}
  Mortal = {c1}
  MaxPosts = 2
  MaxCloses = 1
  Null = Null
CHECK_DEADLOCK FALSE
INVARIANTS NothingLeftOnCanceled FailureReportedOnce
PROPERTIES DeadPeerDetected
