CONSTANTS
  router = router
  watcher = watcher
  Callers = {router, watcher}
  MaxBinds = 2
  MaxEdits = 1
  MaxFaults = 1
  MaxQueue = 1
SPECIFICATION FairSpec
INVARIANT AcceptedMeansSameMapping
PROPERTY RegistryOnlyGrows
PROPERTY ComesToAgree
