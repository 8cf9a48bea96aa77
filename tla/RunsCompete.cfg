CONSTANTS
  Runs = {r1, r2}
  NoFile = NoFile
  Levels = {"streaming", "reread"}
  MaxFaults = 2
  MaxSignals = 1

SPECIFICATION Spec
INVARIANT TypeOK
INVARIANT OneRunAtATime
INVARIANT LogIsTruthful
INVARIANT MetadataCertifiesImage
INVARIANT SignalsNeverSplitShrink
PROPERTY FilesOfOthersKept
