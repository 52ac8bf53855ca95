CONSTANTS
  DataSizes <- MCDataSizes
  TrailerValues <- MCTrailerValues
  FrameKinds <- MCKnownKinds
  Versions <- MCVersions
  MaxFrames <- MCMaxFrames
SPECIFICATION Spec
INVARIANTS
  FramesPreserved
\* A consumed body stops: collect() has returned.
CHECK_DEADLOCK FALSE
