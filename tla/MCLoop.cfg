SPECIFICATION FairSpec
CONSTANTS
  t1 = t1
  t2 = t2
  l1 = l1
  l2 = l2
  Threads = {t1, t2}
  NoThread = NoThread
  Loops = {l1, l2}
  NoLoop = NoLoop
  MaxHandles = 1
  MaxRuns = 3
INVARIANTS TypeOK RegistryExact NothingOpenAtEnd RaceOnlyOutsideRun
PROPERTIES LoopsEnd
CHECK_DEADLOCK FALSE
