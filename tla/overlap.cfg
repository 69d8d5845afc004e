SPECIFICATION OverlapSpec
CONSTANTS
  Starts = {s1, s2}
  Stops = {t1}
  BootId = BootId
  Nobody = Nobody
  ip = ip
  host = host
  Confs = {ip, host}
  NoConf = NoConf
  Hostname = {host}
  Addr <- MCAddr
  Slots = {r1, r2}
  EntityDomains = {"sensor", "select"}
  Item <- MCItems
  Full <- MCBlocks
  MaxBlocks = 2
  Script = "script"
  Helpers = {"counter", "timer"}
  Slug = {"k", "l"}
  Keyed = {"counter", "timer"}
  KeyedFirst = {"timer"}
  Ui <- MCUi
  Movable = {"script", "counter"}
  MaxEntries = 2
  ForwardHa = {TRUE, FALSE}
SYMMETRY Symmetry
INVARIANTS MonitorsOwned StoresAreSound CreatedIsRead
PROPERTIES UpFromCanonical StoresAreCatalogs CreatesDarkenNobody
