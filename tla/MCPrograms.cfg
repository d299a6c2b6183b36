SPECIFICATION FairSpec
CONSTANTS
  Clients = {"c1", "c2"}
  Workers = {"w1", "w2"}
  TestSizes <- TwoSizes
  Sessions <- AllSessions
CHECK_DEADLOCK FALSE
INVARIANTS ExactExchange
PROPERTIES SessionsEnd ServerStops
