\* One `up` per `down` on a usual host; helpers fail, Tor dies, the machine reboots.
CONSTANTS
  Ifaces = {i1, i2}
  Originals <- UsualHosts
  ReUp = FALSE
  BareDown = FALSE
  Faults = {"reboot", "tor", "cmd", "pin"}
SPECIFICATION Spec
INVARIANTS
  Reversible
