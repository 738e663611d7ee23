CONSTANTS
  NodeGroups = {g1, g2}
  ErrorInfos = {e1, e2}
  NoInfo = NoInfo
  InitialBackoffDuration = 1
  MaxBackoffDuration = 3
  BackoffResetTimeout = 4
  MaxLag = 1
  MaxTime = 7
  r1 = r1
  r2 = r2
  None = None
  Replicas = {r1, r2}
  LeaseDuration = 3
  RenewDeadline = 2
  MaxInactivityTime = 2
  MaxFailingTime = 3
  MaxStartupTime = 3
  Troubles <- SomeTroubles
  Pods <- TwoPods
  Productive = 2
  Clients = {r1, r2}
  Requests = 4
  Groups = {g1, g2}
  Missing = None
  Failed = NoInfo
  CloudChanges = 2
  CloudErrors = 1
  Inputs <- SomeInputs
  Nowhere = None
  LastProbe = 4
  StatusTroubles = 2
SPECIFICATION RuntimeSpec
INVARIANTS EscalationIsEarned OneReplicaActs NoWakeUpLost 
  
