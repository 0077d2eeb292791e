SPECIFICATION FairSpec
CONSTANTS
  media = media
  tv = tv
  x = x
  y = y
  plex = plex
  emby = emby
  jellyfin = jellyfin
  remote = remote
  Top = Top
  NoItem = NoItem
  NoRow = NoRow
  NoFile = NoFile
  Void = Void
  AnyLibrary = AnyLibrary
  DriveFolder = {media, tv}
  DriveFile = {x, y}
  Name <- Names
  NamesOf <- MayTake
  Trees <- TwoTrees
  MaxOps = 2
  Folder <- Folders
  RelPath <- RelPaths
  Priority <- OnlyPriority
  Events <- SomeEvents
  RulesOf <- RulesOfTrigger
  DriveRules <- TvRules
  Includes <- Seen
  Excludes <- Hidden
  Target = {plex, emby, jellyfin, remote}
  Kind <- Kinds
  TargetRules <- RulesOfTarget
  Downstream <- NoRules
  FirstLibraries <- First
  LaterLibraries <- Later
  MaxEvents = 2
  MaxFaults = 1
INVARIANTS TypeOK NothingUntold
PROPERTIES DiffsAreCovered ServersAreTold
CHECK_DEADLOCK FALSE
