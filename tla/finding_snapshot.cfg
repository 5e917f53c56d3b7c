CONSTANTS
  N = 2
  Readers = {reader}
  Rt = rt
  Service = service
  NoThread = noThread
  MaxCycles = 2
  MaxFailures = 1
SPECIFICATION Spec
INVARIANT SnapshotIsConsistent
