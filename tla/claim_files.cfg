CHECK_DEADLOCK FALSE
CONSTANTS
  r1 = r1
  r2 = r2
  a = a
  b = b
  None = None
  Requests = {r1, r2}
  Paths = {a, b}
  Contents = {"old", "new"}
  Default = "old"
  Templates <- MCTemplates
  RetentionKeep = 1
  MaxRevisions = 3
  MaxJobs = 1
SPECIFICATION Spec
SYMMETRY Symmetry
INVARIANT ApplicationHasFile
