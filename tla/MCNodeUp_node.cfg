\* One Share and one Request, one slot in the channel, a failure and Ctrl-C.
CONSTANTS
  s1 = s1
  s2 = s2
  r1 = r1
  r2 = r2
  None = None
  Shares = {s1}
  Requests = {r1}
  Manual = {r1}
  Backgrounded = {s1}
  Slots = 1
  ApproveAll = FALSE
  MaxFaults = 1
  MaxStops = 1
SPECIFICATION FairSpec
INVARIANTS
  ReviewedBeforeRun
  RunsOnce
  ClaimsAreHeld
PROPERTIES
  RequestIsTaken
  StopEnds
\* The node ends.
CHECK_DEADLOCK FALSE
