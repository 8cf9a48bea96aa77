CONSTANTS
  Slots = {1, 2, 3}
  FixedMargin = 24
  Kib = 4
  MaxU64 = 4000
  TotalSectors = 5
  MaxStart = 4
  MaxSectors = 2
  SectorSizes = {0, 2, 3}
  Alignments = {0, 16, 18}
  Starts = {0, 1, 7, 8}
  Minimums = {0, 8, 64, 72, 600, 808}
  Currents = {0, 64, 72, 100, 640, 800, 3992}
  Devices = {0, 90, 108, 200, 672, 700, 4000}
  Availables = {0, 112, 4000}
  Blocks = {4, 8}

SPECIFICATION AnalysisSpec
INVARIANT AcceptsWellFormed
INVARIANT ShrinkableRootIsLast
INVARIANT PlanFits
INVARIANT PlanIsAchievable
CHECK_DEADLOCK FALSE
