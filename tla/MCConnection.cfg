SPECIFICATION FairSpec
CONSTANTS
  u1 = u1
  u2 = u2
  Users = {u1, u2}
  Side <- TwoOnServer
  Rank <- Ranks
  Hosts = {"h1", "h2"}
  UseShm = TRUE
  FT = TRUE
  Faults = TRUE
INVARIANTS CommOutlivesUse FramesMatch AgreeWhenReady UsableOnReturn
PROPERTIES ConnectionComesUp
