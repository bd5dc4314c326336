SPECIFICATION DriveSpec
CONSTANTS
  N = 3
  Item <- Numbers
  SeqOf <- OwnNumber
  MaxResumes = 1
  MaxManifests = 1
  Concurrency = 2
  BufferBytes = 1
CHECK_DEADLOCK FALSE
INVARIANTS DriveTypeOK NeverOverstates NoFileStraddles ManifestKeepsOutput WrittenOnce NeverClamped NeverOutOfRange FinishedHoldsAll
PROPERTIES Implements OrderKept EndsOrWedges
