SPECIFICATION Spec
CONSTANTS
  Workers = {w}
  Main = m
  Inodes = {i1, i2}
  Partial = Partial
  None = None
  Lines = {"l"}
  Endpoints = {"a", "w"}
  Directions = {"source"}
  Ids <- MCIds
  Documents <- MCDocuments
  Surroundings <- MCSurroundings
INVARIANTS TypeOK FileWhole FileIsTruth LegIsTruth ServesUnlessRemoved
PROPERTIES ValidStays StartsAgain
