SPECIFICATION DiffSpec
CONSTANTS
  a = a
  b = b
  c = c
  f = f
  na = na
  nb = nb
  nc = nc
  nf = nf
  new = new
  Top = Top
  NoItem = NoItem
  DriveFolder = {a, b, c}
  DriveFile = {f}
  Name = {na, nb, nc, nf, new}
  NamesOf <- MayTake
  Trees <- BothTrees
  MaxOps = 3
INVARIANTS SyncsEnd
CHECK_DEADLOCK FALSE
