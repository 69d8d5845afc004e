SPECIFICATION ReadingSpec
CONSTANTS
  conf = conf
  a = a
  b = b
  dir = dir
  gone = gone
  out = out
  Files = {conf, a, b}
  Entry = conf
  Dirs = {dir, gone}
  Gone = {gone}
  Elsewhere = {out}
  Listing <- MCListing
  Nodes <- MCNodes
  Path <- MCPath
  Key <- MCKey
  Keys <- MCKeys
  Conventional = "conv"
  Outside = {"out", "secrets"}
  Members <- MCMembers
  Configures <- MCConfigures
  ByName <- MCByName
  PairLimit = 2
  Cases <- MCCases
INVARIANTS TypeOK HitsAreExact RenameIsComplete SkippedIsExact WiringFollowsHa IncludesResolve SpliceTouchesOneEntry RenameTouchesValues RelationsAreTrue
PROPERTIES WritesFollowWholeWalk OverwrittenHasBackup EveryWalkEnds
