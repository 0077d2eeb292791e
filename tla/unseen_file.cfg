SPECIFICATION Spec
CONSTANTS
  root = root
  show = show
  season = season
  poster = poster
  episode = episode
  note = note
  showFolder = showFolder
  seasonFolder = seasonFolder
  Filtered = Filtered
  NoPath = NoPath
  Path = {root, show, season, poster, episode, note}
  Dir = {root, show, season}
  Roots = {root}
  Parent <- TreeParent
  Folder = {showFolder, seasonFolder}
  FolderOf <- TreeFolderOf
  Delay = 1
  QueueSize = 9
  MaxOps = 3
  MaxFaults = 0
INVARIANTS ChangesAreAdded
