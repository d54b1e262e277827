\* One command, two ticks of the watcher at once, one API restart.
CONSTANTS
  c1 = c1
  d1 = d1
  Cmd = {c1}
  Device = {d1}
  DeviceOf <- OneDevice
  Direct = {}
  Tick = {t1, t2}
  NoCmd = NoCmd
  CommandBound = 2
  EventBound = 3
  MaxRestarts = 1
  AckTimeout = 2
  RetryInterval = 1
  MaxRetries = 1
  MaxConfigAttempts = 2
SYMMETRY TickSymmetry
SPECIFICATION ResendsSpec
INVARIANTS
  ActuatedAtMostOnce
  CompletedWasActuated
  ConfigAttemptsCapped
  ResendsBounded
PROPERTY OutcomeIsFinal
