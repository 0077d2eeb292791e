SPECIFICATION FairSpec
CONSTANTS
  root = root
  show = show
  season = season
  poster = poster
  episode = episode
  note = note
  showFolder = showFolder
  seasonFolder = seasonFolder
  Filtered = Filtered
  NoPath = NoPath
  Path = {root, show, season, poster, episode, note}
  Dir = {root, show, season}
  Roots = {root}
  Parent <- TreeParent
  Folder = {showFolder, seasonFolder}
  FolderOf <- TreeFolderOf
  Delay = 1
  QueueSize = 2
  MaxOps = 5
  MaxFaults = 1
INVARIANTS TypeOK NoGap ChangesAreKept
PROPERTIES ChangesArrive
