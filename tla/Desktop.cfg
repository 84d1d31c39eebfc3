\* Two phones that may share the session, an agent that is started twice, so
\* that it may come back without the URL it advertised, one fault.
SPECIFICATION FairSpec
CONSTANTS
  Session = {s1}
  NoSession = NoSession
  Conn = {c1, c2}
  MaxBoots = 2
  MaxFaults = 1
INVARIANTS TypeOK EndIsUnderWay SucceededIsClosed StatusTellsTheRoute
PROPERTY FallsBackToCloud
CHECK_DEADLOCK FALSE
