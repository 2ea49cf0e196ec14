\* Two slots that are dropped, swapped and filled again, and overflow.
CONSTANTS
  Sensors = {Video, Radar}
  TrackCapacity = 2
  WireIds = 3
  MaxAge = 1
  MaxBatch = 2
  MaxIds = 2
  MaxTime = 2
SPECIFICATION FairSpec
INVARIANTS TypeOK IdsDistinct PublishedInStep EntriesExisted
PROPERTIES ImplementsTable Expires MainReturns
