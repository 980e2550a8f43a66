SPECIFICATION BillingSpec
CONSTANTS
  Users = {u1}
  Subs = {s1, s2}
  NULL = NULL
  MaxDuplicates = 0
  MaxFailures = 0
  MaxEvents = 4
CHECK_DEADLOCK FALSE
INVARIANTS ActiveIsRecorded
