CONSTANTS
  Limit = 60
  MaxNow = 2
SPECIFICATION Spec
PROPERTIES Refines
