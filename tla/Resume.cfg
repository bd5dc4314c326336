SPECIFICATION RRSpec
CONSTANTS
  N = 2
  Item <- Morsels
  SeqOf <- NumberOf
  MaxResumes = 1
  NRows = 2
  SplitEnds = {2}
  Sizes = {1, 2}
  MayFail = {1}
  Portable = {TRUE, FALSE}
  MaxManifests = 2
CHECK_DEADLOCK FALSE
INVARIANTS RRTypeOK PortableComplete RunningForgetsNone RunningNamesOnce
PROPERTIES DeliversExactlyOnce
CONSTRAINT OnlySound
