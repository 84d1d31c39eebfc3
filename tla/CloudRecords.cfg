\* One session, no phone: a worker restart lets its entry run again, one fault
\* of the API loses a report.
SPECIFICATION Spec
CONSTANTS
  Session = {s1}
  NoSession = NoSession
  Conn = {}
  Paid = {}
  Slots = 1
  MaxStalledCount = 1
  MaxRestarts = 1
  MaxFaults = 0
  MaxApiFaults = 1
INVARIANT QuietRecordsAreFinal
PROPERTY RecordsFollowLifecycle
CHECK_DEADLOCK FALSE
