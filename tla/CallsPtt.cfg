\* A push-to-talk line the PBX may call too.
CONSTANTS
  Lines = {ptt}
  Calls = {c1, c2}
  Operators = {o1}
  Callers = {o1, supervisor}
  Supervisor = supervisor
  Nobody = Nobody
  Conference = Nobody
  DialOut = {}
  PushToTalk = {ptt}
  AutoAnswer = {ptt}
  Inbound = {ptt}
  QueueBound = 2
SPECIFICATION Spec
INVARIANTS GateNeedsCall OneCallPerLine NoOrphanCall
SYMMETRY CallSymmetry
