SPECIFICATION FairSpec
CHECK_DEADLOCK FALSE
CONSTANTS
  Ids = {i1, i2, i3}
  Egresses = {e1, e2}
  None = None
  Original = Original
  Temporary = Temporary
  Unknown = Unknown
  MaxFaults = 3
INVARIANT IntentKept
INVARIANT SiteIsMarked
INVARIANT LinkIsVerified
INVARIANT CompleteIsWhole
PROPERTY ExitIntentStable
 
