\* Three overlapping commands, interrupted under their apps, which may survive.
CONSTANTS
  Procs = {p1, p2, p3}
  Nets = {n1, n2, n3}
  None = None
  Overlap = TRUE
  Faults = {"ctrlc", "orphan"}
SPECIFICATION Spec
SYMMETRY Symmetry
INVARIANTS
  ClosedAtRest
