SPECIFICATION Spec
INVARIANTS
  ReleasedOnFailure
CONSTANTS
  Apps = {a1}
  None = None
  Signals = {"ctrl-c"}
CHECK_DEADLOCK FALSE
