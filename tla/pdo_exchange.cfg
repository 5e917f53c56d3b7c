CONSTANTS
  Devices = {d1, d2}
  Apps = {a1}
  RtCallers = {r1}
  NoThread = noThread
  MaxWrites = 2
  MaxFrames = 1
SPECIFICATION FairSpec
INVARIANT IInv
INVARIANT NothingTorn
INVARIANT SentIsCurrent
INVARIANT ReadIsCurrent
INVARIANT LocksAreOrdered
PROPERTY ImplementsRegisters
PROPERTY RtReturns
