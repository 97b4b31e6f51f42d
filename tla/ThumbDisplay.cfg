SPECIFICATION Spec
CONSTANTS
  Images = {"book"}
  Videos = {"video"}
  Folders <- MCFolders
  MaxEvents <- MCMaxEvents
  MaxSched = 2
  MaxLeft = 0
INVARIANTS TextureOfSnapshot
PROPERTIES OnlyNamedLosses
CHECK_DEADLOCK FALSE
