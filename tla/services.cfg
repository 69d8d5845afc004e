SPECIFICATION ServicesSpec
CONSTANTS
  Reqs = {r1, r2}
  Entity <- MCEntity
  MaxEntries = 2
  Entry <- MCAutomations
  Attempts = 2
  MayRename = FALSE
  good = good
  new = new
  Files = {f1, f2}
  Bodies = {good, new, bad}
  Torn = Torn
  Absent = Absent
  NoFile = NoFile
  MaxBackups = 1
  MaxSecond = 1
  Valid <- MCValid
  p = p
  q = q
  Peers <- MCPeers
  Unresolved = {q}
  Addrs = {a1, a2}
  Unknown = Unknown
  Nobody = Nobody
  Schedule = 2
  MaxMoves = 2
  Terms <- MCTerms
  Location <- MCLocation
  Cap = 2
INVARIANTS IdsStayUnique CreatedIsNotOld UnloadedIsReported QuiescentValid MonitorIsSound GrepIsSound
PROPERTIES OneEntryUnlessStale TunnelRecovers EveryHandlerEnds
