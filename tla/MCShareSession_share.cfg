\* One `share` and one `node up` of the same Identity; the node may attach twice.
CONSTANTS
  c = c
  n1 = n1
  None = None
  Creator = c
  Nodes = {n1}
  NumArtifacts = 2
  MaxFaults = 2
  MaxCancels = 1
  MaxAttaches = 2
SPECIFICATION FairSpec
INVARIANTS
  ExpiryIsTrue
  SuccessIsShared
  ReturnsAreStored
  OneExecutor
  OutcomeIsShared
PROPERTIES
  RequestIsTaken
\* The commands end.
CHECK_DEADLOCK FALSE
