SPECIFICATION Spec
INVARIANTS
  OneProgrammer
  FwupdKeptOut
  EcBootable
  TornIsKnown
  FwupdReleased
CONSTANTS
  Apps = {a1, a2}
  None = None
  Signals = {"ctrl-c", "again"}
CHECK_DEADLOCK FALSE
