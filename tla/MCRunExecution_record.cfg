\* The refinement and the outbox, with failures of the disk, the index and the coordinator.
CONSTANTS
  p1 = p1
  p2 = p2
  q1 = q1
  r1 = r1
  r2 = r2
  NoRun = NoRun
  Executors = {p1}
  Readers = {q1}
  Runs = {r1}
  NumSteps = 2
  SharedModes = {FALSE, TRUE}
  AppendFaults = {"clean"}
  MaxDiskFaults = 1
  MaxIndexFaults = 2
  MaxRemoteFaults = 2
  MaxCancels = 1
  MaxCrashes = 1
SPECIFICATION Spec
INVARIANTS
  OutcomeIsQueued
PROPERTIES
  ImplementsRecord
\* Every process ends: Execute returns, is refused or crashes.
CHECK_DEADLOCK FALSE
