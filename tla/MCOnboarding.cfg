CONSTANTS
  d1 = d1
  d2 = d2
  t1 = t1
  t2 = t2
  t3 = t3
  None = None
  Codes = {d1, d2}
  Tokens = {t1, t2, t3}
  MaxActive = 2
  MaxFaults = 3
SPECIFICATION FairSpec
INVARIANT CodeUsedOnce
INVARIANT TokenAgrees
PROPERTY JoinedForGood
PROPERTY NodeJoins
