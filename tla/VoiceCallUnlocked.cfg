CONSTANTS
  s1 = s1
  s2 = s2
  MaxVoiceSessions = 2
  Streams = {s1, s2}
  Devices = {"speaker"}
  TtyModes = {}
  DeviceMutes = {}
  Proxy = Proxy
  Null = Null
  NoThread = NoThread
  Serialized = FALSE
  PalFailures = {"close"}
  Callers = {"mode", "route", "param", "mute"}
SYMMETRY StreamSymmetry
SPECIFICATION Spec
CONSTRAINT NoOverlap
INVARIANTS
  HandleIsOpen
  NoOrphanStream
  StreamMatchesCall
  MicMuteHeld
