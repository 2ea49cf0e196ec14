\* Refutes PredictionsAddUp.
CONSTANTS
  Sensors = {Video, Radar}
  TrackCapacity = 2
  WireIds = 3
  MaxAge = 2
  MaxBatch = 1
  MaxIds = 2
  MaxTime = 3
SPECIFICATION Spec
INVARIANTS PredictionsAddUp
