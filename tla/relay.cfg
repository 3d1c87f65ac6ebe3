SPECIFICATION FairSpec
CONSTANTS
  A = A
  B = B
  NoApp = NoApp
  Apps <- TwoApps
  MaxEvent = 2
  Playback = "separate"
  MaxMishaps = 1
PROPERTIES RetryGrantsNothing DeliveredIsNotNews DueIsOwner
