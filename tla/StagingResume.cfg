SPECIFICATION RecoverySpec
CONSTANTS
  q1 = q1
  r1 = r1
  r2 = r2
  Queue <- OneQueue
  Record <- TwoRecords
  StageOf <- SameStage
  Span <- UnitSpan
  SegmentBytes = 1
  MaxBudget = 2
  CheckpointModes = {TRUE}
  MaxSegment = 1
  MaxCrashes = 1
CHECK_DEADLOCK FALSE
INVARIANT
  ResumedCopyIsOwn
