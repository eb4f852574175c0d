CONSTANTS
  MaxCalls = 3
  RingSize = 2
  Rates = {8, 16}
  DefaultRate = 8
  Edits = TRUE
  Renegotiates = TRUE
SPECIFICATION Spec
INVARIANT TypeOK
PROPERTIES HearsThisCall PlaysThisCall
