CONSTANTS
  e1 = e1
  e2 = e2
  o1 = o1
  o2 = o2
  c1 = c1
  c2 = c2
  NoThread = NoThread
  Effects = {e1, e2}
  Outputs = {o1, o2}
  CaptureThreads = {c1, c2}
SPECIFICATION FairSpec
INVARIANTS
  CaptureOwned
  NoLostWakeup
PROPERTIES
  StopReturns
  EnabledIsHeard
