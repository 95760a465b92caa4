SPECIFICATION FairSpec
CHECK_DEADLOCK FALSE
CONSTANT MaxFaults = 3
INVARIANT LockoutGuarded
INVARIANT PreparedIsFinal
INVARIANT RestoredIsTrue
PROPERTY LockoutEnds
PROPERTY Recovers
