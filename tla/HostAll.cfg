\* Every original host, `up` again and bare `down` at any time, every failure.
CONSTANTS
  Ifaces = {i1}
  Originals <- AllHosts
  ReUp = TRUE
  BareDown = TRUE
  Faults = {"kill", "reboot", "tor", "cmd", "pin", "save", "undo"}
SPECIFICATION Spec
INVARIANTS
  TypeOK
  NoDeadPin
  MountsNeverStack
  NoSelfBackup
PROPERTIES
  SpoofIsDurable
