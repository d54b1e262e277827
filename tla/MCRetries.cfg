\* One tick at a time, whatever is lost: an end of waiting for every sent command.
CONSTANTS
  c1 = c1
  c2 = c2
  d1 = d1
  Cmd = {c1}
  Device = {d1}
  DeviceOf <- OneDevice
  Direct = {}
  Tick = {t1}
  NoCmd = NoCmd
  CommandBound = 2
  EventBound = 3
  MaxRestarts = 1
  AckTimeout = 3
  RetryInterval = 1
  MaxRetries = 2
  MaxConfigAttempts = 2
SPECIFICATION FairSpec
PROPERTY SentIsResolved
