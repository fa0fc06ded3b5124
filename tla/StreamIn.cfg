CONSTANTS
  plain = plain
  lab = lab
  lab2 = lab2
  x1 = x1
  x2 = x2
  mic = mic
  usb = usb
  Null = Null
  NoStream = NoStream
  NoSession = NoSession
  Streams = {plain, lab, lab2}
  LabStreams = {lab, lab2}
  StSessions = {x1, x2}
  Mics = {mic}
  Usbs = {usb}
  Routed = {plain}
  StDevs = {TRUE}
  MicMutes = {TRUE, FALSE}
  MaxVa = 2
SPECIFICATION Spec
SYMMETRY LabSymmetry
CONSTRAINT LabBound
INVARIANTS
  SessionsOwned
  MuteReaches
  RouteReaches
  LabReadMutesPcm
