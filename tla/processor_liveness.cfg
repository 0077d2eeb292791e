SPECIFICATION FairSpec
CONSTANTS
  a = a
  b = b
  r1 = r1
  r2 = r2
  NoRow = NoRow
  Free = Free
  NoFolder = NoFolder
  Folder = {a, b}
  RelPath = {r1}
  Priority = {0, 1}
  Client = {c1, c2}
  NTargets = 1
  NAnchors = 1
  Batches <- LivenessBatches
  MinAge = 1
  TicksPerSecond = 1
  MaxClock = 3
  MaxStamp = 0
  MaxAdds = 2
  MaxFaults = 2
PROPERTIES AddReturns Drains
