CONSTANTS
  Client = {c1}
  ApiThread = {t1, t2}
  MaxAttempts = 3
  None = none
SPECIFICATION Spec
SYMMETRY SymPairing
INVARIANTS
  TypeOK
  PairedInOrder
  EntryMatchesAttempt
  OnePinPerClient
PROPERTY
  PinStands
CHECK_DEADLOCK FALSE
