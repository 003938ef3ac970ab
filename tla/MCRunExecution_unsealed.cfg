\* One failing append of the terminal event.
CONSTANTS
  p1 = p1
  p2 = p2
  q1 = q1
  r1 = r1
  r2 = r2
  NoRun = NoRun
  Executors = {p1}
  Readers = {}
  Runs = {r1}
  NumSteps = 1
  SharedModes = {FALSE}
  AppendFaults = {"clean"}
  MaxDiskFaults = 1
  MaxIndexFaults = 0
  MaxRemoteFaults = 0
  MaxCancels = 0
  MaxCrashes = 0
SPECIFICATION Spec
INVARIANTS
  SealedOnReturn
\* Every process ends: Execute returns, is refused or crashes.
CHECK_DEADLOCK FALSE
