\* One writer beside a Tor and an i2pd that may keep dying; no kill, no failed save.
CONSTANTS
  Writers = {w1}
  Readers = {}
  MaxRestarts = 4
  Faults = {"tor", "i2pd", "dns", "launch", "nft", "flush", "uid", "reboot"}
SPECIFICATION FairSpec
INVARIANTS
  QuietSnapshot
  NoOrphan
PROPERTIES
  CommandsReturn
