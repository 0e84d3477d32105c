CONSTANTS
  Cert = {c1, c2}
  Setting = {default, changed}
  Default = default
  Thread = {t1}
  MaxFile = 3
SPECIFICATION Spec
INVARIANTS
  FileLoads
  SameClientsAfterRestart
PROPERTY
  ImplementsRegistry
CHECK_DEADLOCK FALSE
