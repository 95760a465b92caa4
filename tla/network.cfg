SPECIFICATION FairSpec
CONSTANTS
  Keys = {k1, k2}
  Ifaces = {eth0, eth1}
  None = None
  MaxFaults = 2
INVARIANT EarlierKept
INVARIANT RolledBack
INVARIANT AppliedIsWhole
PROPERTY FrontNeverDenied
PROPERTY Recovers
