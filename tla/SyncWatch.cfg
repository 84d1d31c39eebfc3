\* A file and one below a directory of that name; two edits, so that one can
\* fall into a round, into its tail on the server, or undo the other; beside
\* them either a failure or a request of the phone's editor.
SPECIFICATION FairSpec
CONSTANTS
  Path <- MCPath
  Above <- MCAbove
  Content = {"x", "y"}
  Sock = {s1, s2}
  MaxFaults = 1
  MaxEdits = 2
  MaxSaves = 1
  MaxUpsets = 1
INVARIANTS TypeOK QuietMeansSynced
PROPERTY ChangeStartsRound
CHECK_DEADLOCK FALSE
