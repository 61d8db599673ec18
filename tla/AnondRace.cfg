\* Two command slots that may both run `up` and `down`, and be killed.
CONSTANTS
  w1 = w1
  w2 = w2
  Writers = {w1, w2}
  Readers = {}
  MaxRestarts = 0
  Faults = {"kill", "save", "nft", "delete", "dns", "tor"}
SPECIFICATION RaceSpec
SYMMETRY Symmetry
VIEW View
INVARIANTS
  LoneDownIsComplete
  LoneUpIsProtected
