SPECIFICATION PerFileSpec
CONSTANTS
  Reqs = {r1, r2}
  f1 = f1
  f2 = f2
  good = good
  new = new
  bad = bad
  Files = {f1, f2}
  Bodies = {good, bad}
  Torn = Torn
  Absent = Absent
  NoFile = NoFile
  MaxBackups = 2
  MaxSecond = 2
  Supervised = TRUE
  Unsupervised = TRUE
  Valid <- ValidPerFile
SYMMETRY Slots
INVARIANTS TypeOK Settled Recoverable
PROPERTIES ValidatedWasChecked RollbackRestores OverwrittenIsBackedUp
