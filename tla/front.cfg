SPECIFICATION FairSpec
CONSTANTS
  e = e
  a = a
  n = n
  PlaceholderMode = "neutral"
  Temporary = FALSE
  OwnerTexts = {e, a}
  EmptyText = e
  NeutralText = n
  Absent = Absent
  Torn = Torn
  MaxEdits = 1
  MaxFaults = 2
INVARIANT TypeOK
INVARIANT OwnerContentPreserved
INVARIANT RestoredIsExact
INVARIANT CleanRollback
INVARIANT ConflictNamesOwner
INVARIANT CommittedIsWhole
PROPERTY ForeignTargetLeftAlone
PROPERTY NoVisibleEditDestroyed
PROPERTY Terminates
