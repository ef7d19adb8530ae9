SPECIFICATION FairSpec
CONSTANTS
  Cases = {c1, c2}
  Sweeps = {sweep, stream}
  Replays = {replay}
  NoRun = NoRun
  Impatient = {stream, replay}
  MaxUpdates = 1
INVARIANTS
  SettledOnce
  RowMatchesItsLastWork
PROPERTIES
  EachCaseKeepsItsContract
  RunsEnd
CHECK_DEADLOCK FALSE
