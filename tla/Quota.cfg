\* Five requests against limits of one and two: the limit is reached, passed by
\* a race, and two windows run out under them.
SPECIFICATION Spec
CONSTANTS
  Request = {r1, r2, r3, r4, r5}
  Billing = {b1, b2}
  FREE_QUOTA = 1
  PAID_QUOTA = 2
  MaxWindows = 2
SYMMETRY Symmetry
INVARIANTS TypeOK CounterCountsJobs QuotaHolds TiersAgree
CHECK_DEADLOCK FALSE
