CONSTANTS
  w = w
  c1 = c1
  c2 = c2
  s1 = s1
  s2 = s2
  s3 = s3
  Writer = w
  NoThread = NoThread
  Null = Null
  Clients = {c1}
  Sessions = {s1, s2}
  Usecases = {"OFFLOAD2"}
  MaxFrames = 3
  Latency = 1
SPECIFICATION Spec
PROPERTY StandbyKeepsPosition
