CONSTANTS
  plain = plain
  lab = lab
  lab2 = lab2
  x1 = x1
  x2 = x2
  mic = mic
  usb = usb
  Null = Null
  NoStream = NoStream
  NoSession = NoSession
  Streams = {lab}
  LabStreams = {lab}
  StSessions = {x1}
  Mics = {mic}
  Usbs = {usb}
  Routed = {}
  StDevs = {TRUE}
  MicMutes = {TRUE, FALSE}
  MaxVa = 2
SPECIFICATION Spec
INVARIANT PcmMutedOnlyForLab
