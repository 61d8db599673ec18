\* Two exit addresses; one streamed action or timeout at a time.
CONSTANTS
  Ips = {"ip1", "ip2"}
  MaxCalls = 2
  MaxLater = 1
CHECK_DEADLOCK FALSE \* a closed panel without an interval rests
SPECIFICATION Spec
INVARIANTS
  TypeOK
  OneInterval
PROPERTIES
  QuietWhenClosed
  ShowsWhatIs
  LocationOfExit
