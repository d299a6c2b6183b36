SPECIFICATION LibrarySpec
CONSTANTS
  Size = 3
  Hostnames <- OneHost
  Hosts <- Placements
  None = None
  Programs <- TwoPrograms
  Input <- Different
  Modulus = 8
  UseShm = {TRUE, FALSE}
  FT = {TRUE, FALSE}
  Regions = {"r1", "r2"}
  Null = Null
  Items = {a, b}
  Blank = Blank
  InitCap = 1
  MaxCap = 4
CHECK_DEADLOCK FALSE
INVARIANTS MeshComplete BarrierWithRoot BroadcastDelivers AllreduceAgrees
  RegionsAccounted AllClosed
PROPERTIES AllReturn ImplementsFifo
