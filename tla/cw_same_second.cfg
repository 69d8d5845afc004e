SPECIFICATION Spec
CONSTANTS
  Reqs = {r1, r2}
  f1 = f1
  f2 = f2
  good = good
  new = new
  bad = bad
  Files = {f1}
  Bodies = {good, new, bad}
  Torn = Torn
  Absent = Absent
  NoFile = NoFile
  MaxBackups = 2
  MaxSecond = 1
  Supervised = TRUE
  Unsupervised = FALSE
  Valid <- ValidPerFile
SYMMETRY Slots
PROPERTIES RollbackRestores
