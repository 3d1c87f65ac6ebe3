SPECIFICATION Spec
CONSTANTS
  a = a
  b = b
  NoApp = NoApp
  Apps <- OneApp
  InitSaved <- FarSaved
  InitLevel = 0
  InitMuted = {FALSE,TRUE}
  MaxRaw = 9
  WorstRaw = 2
  FineAim = 1
  ProbeClicks = 2
  MaxClicks = 3
  MaxEvent = 3
  MaxSteps = 8
  GenSpan = 3
  Gains = {1,2}
  Reordered = {TRUE}
  SlowLink = FALSE
  LateReports = FALSE
  MaxQueue = 1
  MaxIdle = 1
  MaxUpdates = 0
  MaxManual = 1
  MaxRemote = 0
  MaxDrops = 0
  MaxBoots = 1
  MaxWriteFailures = 1
INVARIANTS PlannedBurstStopsShort
PROPERTIES CompletionIsExact UntouchedIsNotLearned MutedNeedsLease
