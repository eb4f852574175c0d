\* One line that answers by itself, one caller, one status request at a time.
CONSTANTS
  Lines = {l1}
  AutoAnswer = {l1}
  Callers = {operator}
  Readers = {viewer}
  Nobody = Nobody
SPECIFICATION Spec
INVARIANT NoCircularWait
