CONSTANTS
  r1 = r1
  n1 = n1
  poll = poll
  e1 = e1
  e2 = e2
  Rules = {r1}
  Nodes = {n1}
  Host <- OneHost
  Watches <- OneAtATime
  Poll = poll
  Triggered = {e1, e2}
  TTL = 2
  Cooldown = 3
  MinStreak = 2
  MaxRun = 2
  MaxFaults = 1
SPECIFICATION FairSpec
INVARIANT RepeatsNeedFaults
INVARIANT OneAlarmPerEpisode
PROPERTY AlertsGetThrough
PROPERTY ReturnIsTold
