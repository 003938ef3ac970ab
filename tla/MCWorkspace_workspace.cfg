\* Two processes; three commands, two failures or crashes.
CONSTANTS
  p1 = p1
  p2 = p2
  a = a
  b = b
  None = None
  Torn = Torn
  Absent = Absent
  Servers = {a, b}
  Processes = {p1, p2}
  Menu <- Menus
  MaxCommands = 3
  MaxFaults = 2
  Trees <- TwoDigests
  Listings = {1, 2}
SPECIFICATION Spec
INVARIANTS
  TokenGoesHome
  ScopeGoesHome
  SuccessHolds
  PinsAreBacked
PROPERTIES
  PinsAreKept
\* The commands are done.
CHECK_DEADLOCK FALSE
