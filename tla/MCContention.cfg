\* Two commands for one device, one of them run by a direct executor.
CONSTANTS
  c1 = c1
  c2 = c2
  d1 = d1
  Cmd = {c1, c2}
  Device = {d1}
  DeviceOf <- OneDevice
  Direct = {c2}
  Tick = {t1}
  NoCmd = NoCmd
  CommandBound = 1
  EventBound = 3
  MaxRestarts = 0
  AckTimeout = 2
  RetryInterval = 1
  MaxRetries = 1
  MaxConfigAttempts = 1
SPECIFICATION Spec
INVARIANTS
  TypeOK
  OneInFlightPerDevice
PROPERTY ReservesDevices
