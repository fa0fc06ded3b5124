CONSTANTS
  w = w
  c1 = c1
  c2 = c2
  s1 = s1
  s2 = s2
  s3 = s3
  Writer = w
  NoThread = NoThread
  Null = Null
  Clients = {c1, c2}
  Sessions = {s1, s2, s3}
  Usecases = {"OFFLOAD", "OFFLOAD2", "WITH_HAPTICS", "MMAP", "VOIP", "DEEP_BUFFER"}
  MaxFrames = 3
  Latency = 1
SYMMETRY Symmetry
SPECIFICATION Spec
INVARIANTS
  SessionsOwned
  FlagsMatchSession
  EffectsFollowSession
  GaplessBeforeData
  PositionNotAhead
PROPERTY ImplementsLifecycle
