\* The adapter implements the frame-stream contract, with its fairness,
\* for bodies of DATA, TRAILERS and error frames.
CONSTANTS
  DataSizes <- MCDataSizes
  TrailerValues <- MCTrailerValues
  FrameKinds <- MCKnownKinds
  Versions <- MCVersions
  MaxFrames <- MCMaxFrames
SPECIFICATION FairSpec
PROPERTIES
  FrameStreamFairSpec
\* A consumed body stops: collect() has returned.
CHECK_DEADLOCK FALSE
