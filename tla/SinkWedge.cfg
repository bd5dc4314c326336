SPECIFICATION DriveSpec
CONSTANTS
  N = 3
  Item <- Numbers
  SeqOf <- OwnNumber
  MaxResumes = 0
  MaxManifests = 0
  Concurrency = 2
  BufferBytes = 1
CHECK_DEADLOCK FALSE
PROPERTIES EveryRunEnds
