SPECIFICATION FairSpec
CHECK_DEADLOCK FALSE
CONSTANTS
  Ids = {i1, i2}
  Egresses = {e1}
  None = None
  Original = Original
  Temporary = Temporary
  Unknown = Unknown
  MaxFaults = 1
PROPERTY InterruptedApplyResumes
