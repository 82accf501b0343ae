SPECIFICATION VideoSpec
CONSTANTS
  Attempt = {a1,a2}
  Job = {j1,j2}
  Original = "original"
  First = "first"
  Key <- Files
  Table <- VideoTables
  Reaper = {r1}
  None = None
  RetryBudget = 2
  MaxVideoFaults = 0
SYMMETRY Passes
INVARIANTS OriginalOwned
CHECK_DEADLOCK FALSE
