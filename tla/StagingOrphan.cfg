SPECIFICATION Spec
CONSTANTS
  q1 = q1
  q2 = q2
  r1 = r1
  r2 = r2
  r3 = r3
  Queue <- OneQueue
  Record <- TwoRecords
  StageOf <- SameStage
  Span <- UnitSpan
  SegmentBytes = 1
  MaxBudget = 2
  CheckpointModes = {FALSE}
  MaxSegment = 2
SYMMETRY Symmetry
INVARIANT LiveRecordHasSegment
