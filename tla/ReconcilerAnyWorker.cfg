\* One session, two possible runs, a worker that publishes anything.
SPECIFICATION BoundedSpec
CONSTANTS
  Session = {s1}
  NoSession = NoSession
  MaxStalledCount = 0
  MaxApiFaults = 1
INVARIANTS TypeOK ClosedHasVerdict
PROPERTY RecordsNeverReopen
CHECK_DEADLOCK FALSE
