SPECIFICATION Spec
CONSTANTS
  q1 = q1
  q2 = q2
  r1 = r1
  r2 = r2
  r3 = r3
  Queue <- TwoQueues
  Record <- ThreeRecords
  StageOf <- TwoStages
  Span <- Oversized
  SegmentBytes = 1
  MaxBudget = 2
  CheckpointModes = {TRUE}
  MaxSegment = 1
INVARIANTS
  ManifestReadable
  CountsFollowRecords
