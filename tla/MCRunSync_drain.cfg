\* One command after the other flushes the outbox.
CONSTANTS
  p1 = p1
  p2 = p2
  q1 = q1
  q2 = q2
  r1 = r1
  r2 = r2
  NoRun = NoRun
  Executors = {p1}
  Readers = {q1}
  Runs = {r1}
  NumSteps = 1
  SharedModes = {FALSE}
  AppendFaults = {"clean"}
  MaxDiskFaults = 0
  MaxIndexFaults = 1
  MaxRemoteFaults = 1
  MaxCancels = 0
  MaxCrashes = 0
SPECIFICATION SyncSpec
PROPERTIES
  OutboxDrains
