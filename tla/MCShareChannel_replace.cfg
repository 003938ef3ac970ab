\* Next beside a submission; two disturbances, and Close.
CONSTANTS
  w = w
  s = s
  request = request
  closure = closure
  None = None
  Waiters = {w}
  Submitters = {s}
  Messages = {request}
  Buffer = 1
  MaxSubmissions = 1
  MaxFaults = 2
  MaxCancels = 1
  MaxCloses = 1
SPECIFICATION Spec
INVARIANTS
  NoStrayConnection
  NothingMissed
PROPERTIES
  ImplementsLog
CHECK_DEADLOCK FALSE
