CONSTANTS
  s1 = s1
  s2 = s2
  MaxVoiceSessions = 2
  Streams = {s1, s2}
  Devices = {"speaker"}
  TtyModes = {"VCO"}
  DeviceMutes = {TRUE}
  Proxy = Proxy
  Null = Null
  NoThread = NoThread
  Serialized = TRUE
  PalFailures = {"mute", "close", "device"}
  Callers = {"mode", "route", "param"}
SPECIFICATION FairSpec
INVARIANTS
  ActiveNeedsInCall
PROPERTIES
  RoutedTogether
  AskedCallEnds
