\* One goroutine waits and submits.
CONSTANTS
  w = w
  s = s
  request = request
  closure = closure
  None = None
  Waiters = {w}
  Submitters = {w}
  Messages = {request, closure}
  Buffer = 3
  MaxSubmissions = 1
  MaxFaults = 1
  MaxCancels = 0
  MaxCloses = 1
SPECIFICATION AwaitSpec
PROPERTIES
  MessageArrives
  CloseEndsCalls
  SubmissionReturns
CHECK_DEADLOCK FALSE
