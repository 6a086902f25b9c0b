SPECIFICATION LinkFairSpec
CONSTANTS
  Flow = {f1, f2}
  MaxSize = 2
  Limit = 3
  m_quota = 2
  CoDelDrops = TRUE
  TxTime = 2
  Delay = 3
  Gaps = {0, 3}
  MaxPackets = 5
  NumApps = 2
  StopTime = 4
INVARIANTS
  LinkTypeOK
  StopsFirst
  DeviceHasRoom
  NeverStalls
PROPERTIES
  ImplementsChannel
  AllArrive
