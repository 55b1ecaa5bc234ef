SPECIFICATION Usb4Spec
INVARIANTS
  NeverStranded
  NothingAfterCancel
PROPERTIES
  FullTime
  ImplementsModeEntry
  PartnerServed
CONSTANTS
  MaxAttach = 1
