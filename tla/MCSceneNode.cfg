CONSTANTS
  ventLeft = ventLeft
  fan01 = fan01
  Channels = {ventLeft, fan01}
  Width = 10
  MinPulse = 2
  MaxPulse = 4
  MaxAsked = 5
  MaxLag = 2
SPECIFICATION FairSpec
INVARIANT OutputHasCommand
INVARIANT OverrunNeedsWrap
PROPERTY CompletedIsDone
PROPERTY OutputEnds
