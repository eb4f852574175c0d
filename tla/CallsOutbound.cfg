\* The conference leg on an extension nobody calls.
CONSTANTS
  Lines = {conf}
  Calls = {c1, c2}
  Operators = {o1}
  Callers = {o1, supervisor}
  Supervisor = supervisor
  Nobody = Nobody
  Conference = conf
  DialOut = {conf}
  PushToTalk = {}
  AutoAnswer = {}
  Inbound = {}
  QueueBound = 2
SPECIFICATION FairSpec
INVARIANTS TypeOK StateIsOfItsCall
PROPERTIES NoCallDropped KeepsTrying
