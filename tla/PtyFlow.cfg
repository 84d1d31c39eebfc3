\* Five writes: three pause the PTY, two more follow once it has resumed.
SPECIFICATION FairSpec
CONSTANTS
  Session = {s1}
  NoSession = NoSession
  Conn = {c1}
  c = c1
  s = s1
  High = 2
  Low = 1
  MaxOutput = 5
INVARIANTS TypeOK EndsAgree PtyNeedsSocket
PROPERTIES PausedResumes EndReachesClient
CHECK_DEADLOCK FALSE
