CONSTANTS
  Session <- MCSession
  Lobby = "lobby"
  Key <- MCKey
  Finger <- MCFinger
  Linux <- MCLinux
  Modifier <- MCModifier
  ComboModifier <- MCModifier
  ComboKey = "W"
  Paste <- MCPaste
  Pad <- MCPad
  MaxHeld = 1
SPECIFICATION Spec
INVARIANTS
  KeysDownAreHeld
  PadsAreActive
PROPERTIES
  LeavesNothingDown
