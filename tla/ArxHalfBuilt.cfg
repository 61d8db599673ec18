\* One command at a time; a setup command may fail or be killed.
CONSTANTS
  Procs = {p1, p2}
  Nets = {n1, n2, n3}
  None = None
  Overlap = FALSE
  Faults = {"fail", "kill"}
SPECIFICATION Spec
SYMMETRY Symmetry
INVARIANTS
  FailClosed
