\* Two commands flush while a local Run is executed; the disk, the Space, the index and the processes fail.
CONSTANTS
  p1 = p1
  p2 = p2
  q1 = q1
  q2 = q2
  r1 = r1
  r2 = r2
  NoRun = NoRun
  Executors = {p1}
  Readers = {q1, q2}
  Runs = {r1}
  NumSteps = 1
  SharedModes = {FALSE}
  AppendFaults = {"clean", "synced"}
  MaxDiskFaults = 1
  MaxIndexFaults = 1
  MaxRemoteFaults = 1
  MaxCancels = 0
  MaxCrashes = 1
SPECIFICATION SyncSpec
SYMMETRY Symmetry
INVARIANTS
  TakenIsComplete
PROPERTIES
  QueuedUntilTaken
