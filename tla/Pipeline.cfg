\* Three detections per sensor: the radar list is moved twice, the queue fills.
CONSTANTS
  Video = Video
  Radar = Radar
  Main = Main
  Null = Null
  Capacity = 2
  MaxDetections = 3
  InitialRoom <- Rooms
SPECIFICATION FairSpec
INVARIANTS TypeOK RefsBalanced NoUseAfterFree QueueClosedQuietly NothingStale
PROPERTY ShutdownCompletes
