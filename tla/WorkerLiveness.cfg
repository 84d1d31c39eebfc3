\* A FREE and a PAID session compete for one slot; the worker dies or is
\* stopped once.
SPECIFICATION FairSpec
CONSTANTS
  Session = {free, paid}
  NoSession = NoSession
  Conn = {c1}
  Paid = {paid}
  Slots = 1
  MaxStalledCount = 1
  MaxRestarts = 1
  MaxFaults = 0
PROPERTY EnqueuedIsSettled
CHECK_DEADLOCK FALSE
