SPECIFICATION Spec
CONSTANT MaxFaults = 4
INVARIANT ReportIsTrue
PROPERTY StagingKept
