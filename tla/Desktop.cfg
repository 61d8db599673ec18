\* Two of each: packages, streams, windows, kernel runs, repositories. Three kernels.
CONSTANTS
  Packages = {p1, p2}
  MaxMessages = 2
  MaxKills = 1
  MaxTotal = 2
  MaxWaiting = 1
  MaxCalls = 3
  Actions = {c1, c2}
  Capacity = 1
  MaxLines <- LinesOfAnond
  Windows = {t1, t2}
  Flavors = {k1, k2, k3}
  Runs = {r1, r2}
  Repos = {a, b}
  MaxCommits = 2
  Ports = {1, 2}
  Processes = {"", "a"}
  Ssids = {"x", "y"}
  MaxSignal = 1
  MaxPrinted = 3
SPECIFICATION DesktopSpec
INVARIANTS
  DesktopTypeOK
  NoNag
  ToldOnce
  TileIsBadge
  KernelRemains
  NewsIsTold
  ListingsMatch
PROPERTIES
  BroadcastArrives
  CountCatchesUp
  StreamEnds
  DoneIsReady
  Relays
