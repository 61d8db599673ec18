\* One writer beside one status reader and one connection, every kind of failure.
CONSTANTS
  Writers = {w1}
  Readers = {r1}
  MaxRestarts = 1
  Faults = {"kill", "reboot", "tor", "i2pd", "nft", "delete", "flush", "save", "dns", "launch", "uid"}
SPECIFICATION PacketSpec
VIEW View
INVARIANTS
  TypeOK
  NoFalseGreen
  SwitchRemovedLast
  FailureStaysBlocked
  NoClearFlow
PROPERTIES
  KeepsPromise
