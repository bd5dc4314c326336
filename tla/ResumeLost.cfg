SPECIFICATION RRSpec
CONSTANTS
  N = 2
  Item <- Morsels
  SeqOf <- NumberOf
  MaxResumes = 1
  NRows = 2
  SplitEnds = {2}
  Sizes = {1}
  MayFail = {1}
  Portable = {FALSE}
  MaxManifests = 1
CHECK_DEADLOCK FALSE
INVARIANTS NoRowLost

