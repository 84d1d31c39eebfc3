\* Nothing crashes and no message is lost.
SPECIFICATION Spec
CONSTANTS
  Session = {s1}
  NoSession = NoSession
  Conn = {}
  Paid = {}
  Slots = 1
  MaxStalledCount = 1
  MaxRestarts = 0
  MaxFaults = 0
  MaxApiFaults = 0
INVARIANT ClosedSessionHoldsNoSlot
CHECK_DEADLOCK FALSE
