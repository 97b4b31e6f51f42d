SPECIFICATION FairSpec
CONSTANTS
  PageCount = 4
  Workers = 2
  Conditions = {"single", "spread"}
  SignatureOf <- Widths
  BytesOf <- Sizes
  Animated = {}
  Snapshots <- Views
  Ids = {1, 2, 3, 4, 5, 6, 7, 8}
  MaxEvents = 3
  MaxCommands = 1
  Totals = {1, 2, 7, 14}
  None = None
INVARIANTS RequestsKept CacheSound PolicyOrder
PROPERTIES Evictions WantedDecoded
CHECK_DEADLOCK FALSE
