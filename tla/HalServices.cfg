CONSTANTS
  Outputs = {"primary", "deep"}
  Primary = "primary"
  NoOutput = "no output"
  Handles = {1, 2}
  Routes <- MCRoutes
  Cards = {1}
  Lc3Fields = {"Codec", "StreamMap", "FrameDuration"}
  Lc3Required = {"Codec", "StreamMap"}
  Angles <- MCAngles
  SettingSessions = {1, 2}
  VoiceVolumes = {1}
  TtyModes = {"OFF", "VCO"}
  VoiceEffects = {"volume_boost"}
  RxDevices = {"speaker", "headset"}
  HfpVolumes <- MCHfpVolumes
  FmVolumes <- MCFmVolumes
  CaliThreads = {"t1", "t2"}
  NoThread = "no thread"
  CaptureSessions = {"s1", "s2"}
  Configs = {"c1", "c2"}
  Listeners = {"l1", "l2"}
  Volumes = {0, 1, 700}
  GainTable <- MCGainTable
  Sources = {"primary", "deep"}
  Sinks = {"mic"}
  PrimaryOutput = "primary"
  OutputTracks = {"speech"}
  BtSessions = {1}
  BufSize = 3
  CaptureSizeMax = 2
  CaptureSizes = {0, 1, 3, 5}
  Periods = {1, 2}
  Window = 2
  Peaks = {1, 2}
  MaxSamples = 7
SPECIFICATION ServicesSpec
CONSTRAINT ServicesBound
INVARIANTS
  PatchIsRouted
  PalReleased
  Lc3OfThisRound
  SettingsReach
  HfpWhole
  FmVolumeHeard
  MasksAgree
  AmpRestored
  LevelFollowsActive
  MetadataCurrent
  RepliesAreRecent
PROPERTIES
  OkIsStored
CHECK_DEADLOCK FALSE
