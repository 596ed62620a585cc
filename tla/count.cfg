CONSTANTS
  Limit = 60
  MaxNow = 2
SPECIFICATION Spec
INVARIANTS TypeOK OutputCorrect
PROPERTIES Termination
