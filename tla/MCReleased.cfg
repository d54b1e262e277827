\* Without loss, every device is released.
CONSTANTS
  c1 = c1
  c2 = c2
  d1 = d1
  Cmd = {c1}
  Device = {d1}
  DeviceOf <- OneDevice
  Direct = {}
  Tick = {t1}
  NoCmd = NoCmd
  CommandBound = 1
  EventBound = 3
  MaxRestarts = 1
  AckTimeout = 2
  RetryInterval = 1
  MaxRetries = 1
  MaxConfigAttempts = 1
SPECIFICATION ReliableSpec
PROPERTY DeviceIsReleased
