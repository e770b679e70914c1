SPECIFICATION DesktopSpec
CONSTANTS
  Tracks = {t1}
  Calls = {c1}
  HqSettings = {TRUE}
  LikesRuns = {l1, l2}
  Upgrades = {u1}
  LikesPermits = 1
  MaxUpkeep = 1
  None = None
  Failed = Failed
  NTracks = 3
  MaxInputs = 3
  MaxFailures = 1
  MaxSwaps = 2
  NoTrack = 0
INVARIANTS
  OneLeader
  LikedKept
  
PROPERTIES
  CallsEnd
  SelectionLoads
CHECK_DEADLOCK FALSE
