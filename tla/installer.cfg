SPECIFICATION Spec
CHECK_DEADLOCK FALSE
CONSTANTS
  Requests <- SomeRequests
  Absent = Absent
  Surprises = {"killed", "flap"}
  MaxCalls = 2
  MaxFaults = 2
INVARIANT CredentialsKept
INVARIANT ServesItsFiles
PROPERTY KeepsPromise
