SPECIFICATION FairSpec
CONSTANTS
  r1 = r1  r2 = r2  r3 = r3
  Last = 3
  Runners = {r1, r2, r3}
  NoRunner = NoRunner
  MaxGroup = 3
  MaxFaults = 1
  MaxCrashes = 1
INVARIANTS LockExclusive BookkeepingAgrees RunsOnce LeftLockedOnlyWhenCutOff
PROPERTIES HistoryIsAStack Terminates
