\* The main thread and a worker, an ordinary line and the leg, two addresses for accounts, one job waiting.
CONSTANTS
  line = line
  Leg = leg
  Lines = {line, leg}
  Documents <- MCDocuments
  Registering = {line}
  Objects = {o1, o2}
  Workers = {worker}
  Main = main
  Nothing = Nothing
  QueueBound = 1
SPECIFICATION Spec
SYMMETRY Symmetry
INVARIANTS TypeOK AccountThereWhenAsked RegisteredOnce SwitchedOffIsOff StatusIsHeard
