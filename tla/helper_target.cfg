SPECIFICATION Spec
CONSTANTS
  Reqs = {r1}
  Script = "script"
  Helpers = {"counter"}
  Slug = {"k"}
  Keyed = {}
  KeyedFirst = {}
  Ui = {}
  Movable = {"counter"}
  MaxEntries = 1
INVARIANTS CreatedIsRead
