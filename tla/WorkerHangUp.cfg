\* One session, one phone.
SPECIFICATION Spec
CONSTANTS
  Session = {s1}
  NoSession = NoSession
  Conn = {c1}
  Paid = {}
  Slots = 1
  MaxStalledCount = 0
  MaxRestarts = 0
  MaxFaults = 0
INVARIANT DisconnectFreesSlot
CHECK_DEADLOCK FALSE
