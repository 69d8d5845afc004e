SPECIFICATION Spec
CONSTANTS
  Reqs = {r1, r2}
  Entity <- MCEntity
  MaxEntries = 2
  Entry <- EntryPlain
  Attempts = 1
  MayRename = FALSE
PROPERTIES OneEntryPerWrite
