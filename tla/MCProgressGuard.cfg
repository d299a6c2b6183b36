SPECIFICATION PollSpec
CONSTANTS
  t1 = t1
  t2 = t2
  t3 = t3
  r1 = r1
  r2 = r2
  r3 = r3
  Cancellers = {t2}
  NoThread = NoThread
  Threads = {t1, t2, t3}
  Requests = {r1, r2, r3}
  MayWait <- PollWait
  MayTest <- PollTest
INVARIANTS WaitersAreLive LeadershipHeld NoLostWakeup
PROPERTIES WaitReturns
