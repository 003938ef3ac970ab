\* One Capability and one Recipe, with everything a person may have got wrong.
CONSTANTS
  None = None
  Bad = Bad
  MaxSafe = 3
  MaxInt = 2
  Trees <- AllTrees
  Hosts <- AllHosts
  Givens <- AllGivens
  Texts <- AllTexts
  Requests <- AllRequests
  Media = {"pdf", "text"}
  MaxChanges = 1
SPECIFICATION Spec
INVARIANTS
  StaticErrorsAreCaught
  ReadyRuns
  ContractIsMet
  VersionIsMet
\* A command ends.
CHECK_DEADLOCK FALSE
