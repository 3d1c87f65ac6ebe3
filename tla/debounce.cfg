SPECIFICATION Spec
CONSTANTS
  a = a
  b = b
  NoApp = NoApp
  Apps <- OneApp
  InitSaved <- OneSaved
  InitLevel = 0
  InitMuted = {FALSE}
  MaxRaw = 3
  WorstRaw = 1
  FineAim = 1
  ProbeClicks = 2
  MaxClicks = 2
  MaxEvent = 3
  MaxSteps = 4
  GenSpan = 3
  Gains = {1}
  Reordered = {TRUE}
  SlowLink = FALSE
  LateReports = FALSE
  MaxQueue = 1
  MaxIdle = 1
  MaxUpdates = 0
  MaxManual = 0
  MaxRemote = 0
  MaxDrops = 1
  MaxBoots = 0
  MaxWriteFailures = 0

PROPERTIES UntouchedIsNotLearned
