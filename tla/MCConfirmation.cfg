CONSTANTS
  r1 = r1
  r2 = r2
  m1 = m1
  m2 = m2
  m3 = m3
  c1 = c1
  c2 = c2
  s1 = s1
  NoScene = NoScene
  Replicas = {r1}
  Messages = {m1, m2}
  Conversations = {c1, c2}
  Scenes = {s1}
  MaxAsks = 2
  MaxFaults = 1
  Backends = {"file", "redis"}
SYMMETRY Symmetry
SPECIFICATION Spec
CHECK_DEADLOCK FALSE
INVARIANT AskKept
PROPERTY SettledIsFinal
PROPERTY ExpiredNotExecuted
PROPERTY NeverGuesses
