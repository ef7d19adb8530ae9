SPECIFICATION FairSpec
CONSTANTS
  Cases = {c1}
  Sweeps = {sweep}
  Replays = {replay}
  NoRun = NoRun
  Impatient = {}
  MaxUpdates = 1
PROPERTIES
  RevokedIsNotDebited
CHECK_DEADLOCK FALSE
