\* One death of the worker is enough to stall the entry out, so that only the
\* BullMQ backstop can give its job a verdict; one fault of the API loses a
\* report, or the backstop's.
SPECIFICATION FairSpec
CONSTANTS
  Session = {s1}
  NoSession = NoSession
  Conn = {}
  Paid = {}
  Slots = 1
  MaxStalledCount = 0
  MaxRestarts = 1
  MaxFaults = 0
  MaxApiFaults = 1
INVARIANT QuietRecordsAreFinal
PROPERTY EnqueuedJobsEnd
CHECK_DEADLOCK FALSE
