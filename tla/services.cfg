SPECIFICATION ServicesSpec
CONSTANTS
  A = A
  B = B
  NoApp = NoApp
  Never = Never
  NotAbsent = NotAbsent
  Apps <- TwoApps
  Capacity = 2
  Limit = 2
  QueueSize = 2
  MaxSeq = 3
  MaxBoot = 2
  MaxLogMishaps = 1
  MaxEvent = 3
  LastGood = 0
  Ambiguity = 1
  Settle = 2
  MaxPipe = 1
  MaxCollectorMishaps = 1
  Absence = 2
  MaxBackoff = 8
  MaxAttempts = 2

INVARIANTS NothingIsLostSilently AvailableIsCurrent
PROPERTIES LogsArrive SensorIsSource SettledBeforeShown FrontIsShown RestartsAreDue
