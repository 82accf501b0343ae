SPECIFICATION Spec
CONSTANTS
  Image = {"image"}
  Build = {}
  Key <- ImageOnly
  Table <- ReaderTables
  Worker = {w1, w2}
  Reaper = {r1}
  None = None
  MaxJobs = 2
  MaxFaults = 0
SYMMETRY Symmetry
INVARIANTS PublishedBytesKept
\* A deleted project has nothing left to do.
CHECK_DEADLOCK FALSE
