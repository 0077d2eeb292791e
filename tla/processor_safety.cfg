SPECIFICATION Spec
CONSTANTS
  a = a
  b = b
  r1 = r1
  r2 = r2
  NoRow = NoRow
  Free = Free
  NoFolder = NoFolder
  Folder = {a, b}
  RelPath = {r1}
  Priority = {0, 1}
  Client = {c1, c2}
  NTargets = 2
  NAnchors = 1
  Batches <- SafetyBatches
  MinAge = 1
  TicksPerSecond = 1
  MaxClock = 4
  MaxStamp = 1
  MaxAdds = 2
  MaxFaults = 2
INVARIANTS TypeOK NoScanLost RowsAreCommittedEvents
PROPERTIES DispatchIsGated ImplementsQueue BatchesAreAtomic
