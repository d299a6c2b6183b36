SPECIFICATION FairSpec
CONSTANTS
  t1 = t1
  t2 = t2
  t3 = t3
  r1 = r1
  r2 = r2
  r3 = r3
  Cancellers = {t1, t2}
  NoThread = NoThread
  Threads = {t1, t2}
  Requests = {r1, r2}
  MayWait <- PrivateUse2
  MayTest <- PrivateUse2
PROPERTIES WaitReturns
