SPECIFICATION FairSpec
CONSTANTS
  library = library
  books = books
  wal = wal
  key1 = key1
  key2 = key2
  Database = library
  Required <- MCRequired
  Optional <- MCOptional
  Keys <- MCKeys
  MaxSets = 2
  MaxFaults = 2
  MaxCrashes = 3
INVARIANTS
    OneDataSet
    ClearedStaysGone
PROPERTIES
    PendingSwapEnds
