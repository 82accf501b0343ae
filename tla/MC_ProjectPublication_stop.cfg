SPECIFICATION Spec
CONSTANTS
  Image = {}
  Build = {"build"}
  Key <- BuildOnly
  Table <- ReaderTables
  Worker = {w1}
  Reaper = {r1}
  None = None
  MaxJobs = 2
  MaxFaults = 0
SYMMETRY Symmetry
INVARIANTS StagedBuildsKept
\* A deleted project has nothing left to do.
CHECK_DEADLOCK FALSE
