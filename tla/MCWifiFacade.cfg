SPECIFICATION Spec
CONSTANTS
  n1 = n1
  n2 = n2
  none = none
  Names = {n1, n2}
  None = none
  Responders = {"disconnect", "scan", "lookup"}
  MaxDepth = 3
  MaxLookups = 3
  MaxJoins = 2
INVARIANTS FlagsTrue AnswerIsForItsName
 
