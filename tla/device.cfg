SPECIFICATION DeviceSpec
CONSTANTS
  X = X
  Y = Y
  N = N
  M = M
  S = S
  T = T
  G = G
  H = H
  NoReceiver = NoReceiver
  Unset = Unset
  Receivers <- TwoReceivers
  Networks <- TwoNetworks
  Subnets <- TwoSubnets
  Hubs <- TwoHubs
  MaxLinkMishaps = 1
  MaxNetMishaps = 2
  MaxToken = 3
  MaxPairMishaps = 1

INVARIANTS DeviceTypeOK LinkIsBonded ForgetIsFinal FixedIsWhole
PROPERTIES RetriesGoOn Reachable OwnerIsKept RejectionIsNoticed
