SPECIFICATION Spec
CONSTANTS
  Reqs = {r1}
  Domain = {"sensor", "select"}
  Item <- Namesake
  Full <- NamesakeBlocks
  MaxBlocks = 2
PROPERTIES CreatedIsOurs
