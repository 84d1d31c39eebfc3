\* One session, two phones, two restarts: enough to stall its entry out.
SPECIFICATION Spec
CONSTANTS
  Session = {s1}
  NoSession = NoSession
  Conn = {c1, c2}
  Paid = {}
  Slots = 1
  MaxStalledCount = 1
  MaxRestarts = 2
  MaxFaults = 1
SYMMETRY Symmetry
INVARIANTS TypeOK NoOrphanContainer EveryEndIsReported SlotHeldForSomeone OneVerdictPerRun
CHECK_DEADLOCK FALSE
