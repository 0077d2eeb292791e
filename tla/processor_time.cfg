SPECIFICATION Spec
CONSTANTS
  a = a
  b = b
  r1 = r1
  r2 = r2
  NoRow = NoRow
  Free = Free
  NoFolder = NoFolder
  Folder = {a, b}
  RelPath = {r1, r2}
  Priority = {0, 1}
  Client = {c1, c2}
  NTargets = 1
  NAnchors = 0
  Batches <- TimeBatches
  MinAge = 3
  TicksPerSecond = 2
  MaxClock = 9
  MaxStamp = 3
  MaxAdds = 3
  MaxFaults = 0
PROPERTIES MinAgeRespected MostUrgentFirst
