SPECIFICATION Spec
CONSTANTS
  Surprises = {{"noop"}, {"noop", "straggler"}, {"noop", "straggler", "killed", "localTemp"}}
  MaxCalls = 2
  MaxFaults = 4
INVARIANT TypeOK
INVARIANT BaselineRestored
INVARIANT KeptWhenMaybeApplied
INVARIANT ReportIsTrue
PROPERTY OnlyOwnRulesRemoved
PROPERTY ImplementsGuardedExit
