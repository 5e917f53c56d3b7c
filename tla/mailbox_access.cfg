CONSTANTS
  Devices = {d1, d2}
  Indices = {i1, i2}
  NoIndex = noIndex
  Clients = {c1, c2}
  Service = service
  NoThread = noThread
  MaxAccesses = 2
  MaxPush = 2
  ListSize = 2
SPECIFICATION FairSpec
INVARIANT IInv
INVARIANT EventsConserved
INVARIANT FailureIsExplained
PROPERTY ImplementsService
PROPERTY ListIsDrained
