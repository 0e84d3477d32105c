CONSTANTS
  SeqMod = 8
  PayloadSize = 26
  MinFec = 2
  DataShardsMax = 6
  MultiAbove = 4
  Sizes <- MCSizes
  MaxPerMs = 3
  MaxBatchSize = 2
  MaxBatch = 4
  MaxRetries = 2
  MaxFrames = 2
  MaxTime = 1
SPECIFICATION FairSpec
INVARIANTS
  SeqConsecutive
  
  
  PacedRate
  AudioFecCovers
PROPERTIES
  FrameEnds
CHECK_DEADLOCK FALSE
