CONSTANTS
  Videos = {"video"}
  Stills = {"book"}
  Moving = {"image"}
  Desks <- MCDesks
  Places = {0, 1}
  MaxSession = 3
  MaxChanges = 1
  MaxFrames = 1
SPECIFICATION Spec
INVARIANTS PictureOfTarget Awaited NothingHeldOpen
PROPERTIES OnlyNamedLosses
CHECK_DEADLOCK FALSE
