\* Expected to be violated.
CONSTANTS
  Video = Video
  Radar = Radar
  Main = Main
  Null = Null
  Capacity = 2
  MaxDetections = 3
  InitialRoom <- Rooms
SPECIFICATION Spec
INVARIANT PointerValid
