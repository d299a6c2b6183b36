SPECIFICATION FairSpec
CONSTANTS
  Size = 3
  Hostnames <- OneHost
  Hosts <- Placements
  None = None
  Programs <- TwoPrograms
  Input <- Different
  Modulus = 8
CHECK_DEADLOCK FALSE
INVARIANTS BarrierSynchronises
