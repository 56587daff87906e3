CONSTANTS
  Files <- Ascending
  MaxResets = 0
SPECIFICATION Spec
INVARIANTS
  AllRowsReturned
CHECK_DEADLOCK FALSE
