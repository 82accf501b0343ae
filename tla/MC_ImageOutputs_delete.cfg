SPECIFICATION Spec
CONSTANTS
  Output = {"card"}
  Source = "source"
  Key <- Objects
  Table <- ReaderTables
  Worker = {w1}
  Sweeper = {s1}
  Reaper = {r1}
  None = None
  MaxAttempts = 2
  MaxFaults = 0
SYMMETRY Symmetry
PROPERTIES DeletedStaysDeleted
\* A session that ended leaves nothing to do once its objects are gone.
CHECK_DEADLOCK FALSE
