CONSTANTS
  c1 = c1
  c2 = c2
  d1 = d1
  Command = {c1, c2}
  Scene = {c1}
  Bound = {c2}
  Device = {d1}
  DeviceOf <- OneDevice
  MaxAttempts = 2
  DedupMax = 1
  MaxLate = 1
  MaxFaults = 1
SPECIFICATION FairSpec
INVARIANT NotifiedWasTold
PROPERTY NoPushWhileRemembered
PROPERTY WindowKept
PROPERTY WindowsSettle
CHECK_DEADLOCK FALSE
