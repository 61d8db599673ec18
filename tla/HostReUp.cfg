\* `up` again after a failed bring-up, nothing else fails.
CONSTANTS
  Ifaces = {i1, i2}
  Originals <- UsualHosts
  ReUp = TRUE
  BareDown = FALSE
  Faults = {}
SPECIFICATION Spec
INVARIANTS
  Reversible
