SPECIFICATION Spec
CONSTANTS
  a = a
  b = b
  r1 = r1
  r2 = r2
  NoRow = NoRow
  Free = Free
  NoFolder = NoFolder
  Folder = {a}
  RelPath = {r1, r2}
  Priority = {0}
  Client = {c1, c2}
  NTargets = 1
  NAnchors = 0
  Batches <- RaceBatches
  MinAge = 1
  TicksPerSecond = 1
  MaxClock = 5
  MaxStamp = 3
  MaxAdds = 2
  MaxFaults = 0
PROPERTIES WaitsForAllFiles
