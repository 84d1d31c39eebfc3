\* Three requests, of which two race and the third finds what they left; two
\* writes of the editor, one fault.
SPECIFICATION Spec
CONSTANTS
  Path <- MCPath
  Above <- MCAbove
  Content = {"x", "y"}
  Request = {r1, r2, r3}
  HostIdentity = FALSE
  MaxSaves = 2
  MaxFaults = 1
SYMMETRY Symmetry
INVARIANTS TypeOK InitializedMeansReady
PROPERTY CommitIsCurrent
CHECK_DEADLOCK FALSE
