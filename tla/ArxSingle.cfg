\* One command at a time, nothing fails or is interrupted.
CONSTANTS
  Procs = {p1, p2}
  Nets = {n1, n2, n3}
  None = None
  Overlap = FALSE
  Faults = {"tor"}
SPECIFICATION Spec
SYMMETRY Symmetry
INVARIANTS
  TypeOK
  FailClosed
  NothingLeft
PROPERTIES
  KeepsIsolation
