\* A detached or a foreground Run and one follower; appends fail cleanly, torn or after the write.
CONSTANTS
  p1 = p1
  q1 = q1
  r1 = r1
  NoRun = NoRun
  Temporary = Temporary
  Executors = {p1}
  Readers = {q1}
  Followers = {q1}
  Given <- OneEach
  Runs = {r1}
  NumSteps = 1
  SharedModes = {FALSE}
  AppendFaults = {"clean", "torn", "synced"}
  MaxDiskFaults = 1
  MaxIndexFaults = 1
  MaxRemoteFaults = 0
  MaxCancels = 1
  MaxCrashes = 1
  MaxTroubles = 1
SPECIFICATION FollowSpec
INVARIANTS
  IndexNeverContradicts
  FollowShowsAll
PROPERTIES
  TerminalIsFinal
  FollowEnds
\* Every process ends: Execute returns, the follow is over.
CHECK_DEADLOCK FALSE
