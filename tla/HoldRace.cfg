\* An operator hangs the conference leg up while the supervisor is at it.
CONSTANTS
  Lines = {conf}
  Calls = {c1, c2}
  Operators = {o1}
  Callers = {o1, supervisor}
  Supervisor = supervisor
  Nobody = Nobody
  Conference = conf
  DialOut = {conf}
  PushToTalk = {}
  AutoAnswer = {}
  Inbound = {}
  QueueBound = 2
SPECIFICATION Spec
PROPERTY HoldKeepsLegDown
