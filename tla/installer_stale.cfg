SPECIFICATION Spec
CHECK_DEADLOCK FALSE
CONSTANTS
  Requests <- SomeRequests
  Absent = Absent
  Surprises = {"killed"}
  MaxCalls = 2
  MaxFaults = 1
INVARIANT AppliedIsServed
