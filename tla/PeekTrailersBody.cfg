\* Peeking, end of stream and size hints, with every frame kind.
CONSTANTS
  DataSizes <- MCDataSizes
  TrailerValues <- MCTrailerValues
  FrameKinds <- MCAllKinds
  Versions <- MCVersions
  MaxFrames <- MCMaxFrames
SPECIFICATION Spec
INVARIANTS
  TypeOK
  PeekExact
  IsEndStreamSound
  SizeHintSound
  SizeHintNoPanic
\* A consumed body stops: collect() has returned.
CHECK_DEADLOCK FALSE
