\* Two processes with one Run id; the coordinator refuses up to two records, Ctrl-C and a crash at any point.
CONSTANTS
  p1 = p1
  p2 = p2
  q1 = q1
  r1 = r1
  r2 = r2
  NoRun = NoRun
  Executors = {p1, p2}
  Readers = {}
  Runs = {r1}
  NumSteps = 2
  SharedModes = {FALSE, TRUE}
  AppendFaults = {"clean"}
  MaxDiskFaults = 0
  MaxIndexFaults = 0
  MaxRemoteFaults = 2
  MaxCancels = 1
  MaxCrashes = 1
SPECIFICATION Spec
INVARIANTS
  SingleWriter
  ScriptIsAnnounced
  GapOnlyBeforeFailure
  SealedOnReturn
PROPERTIES
  CancelEnds
\* Every process ends: Execute returns, is refused or crashes.
CHECK_DEADLOCK FALSE
