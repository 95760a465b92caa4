SPECIFICATION Spec
CONSTANTS
  e = e
  a = a
  b = b
  n = n
  PlaceholderMode = "keep"
  Temporary = FALSE
  OwnerTexts = {e, a, b}
  EmptyText = e
  NeutralText = n
  Absent = Absent
  Torn = Torn
  MaxEdits = 1
  MaxFaults = 1
INVARIANT LaterEditReported
