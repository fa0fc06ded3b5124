CONSTANTS
  w = w
  c1 = c1
  c2 = c2
  s1 = s1
  s2 = s2
  s3 = s3
  Writer = w
  NoThread = NoThread
  Null = Null
  Clients = {c1}
  Sessions = {s1, s2}
  Usecases = {"OFFLOAD2", "WITH_HAPTICS", "MMAP"}
  MaxFrames = 2
  Latency = 1
SPECIFICATION FairSpec
PROPERTY
  HandlersReturn
