\* One user at a time; up to five jobs of every kind; both processes may crash.
SPECIFICATION Spec
CONSTANTS
  hashA = hashA
  hashB = hashB
  r1 = r1
  r2 = r2
  w1 = w1
  w2 = w2
  c1 = c1
  c2 = c2
  None = None
  Hashes = {hashA, hashB}
  Clusters = {c1}
  Workers = {w1}
  Requests = {r1}
  MaxJobs = 5
  RetentionKeep = 1
  Kinds = {"PLAN", "APPLY", "ANSIBLE", "VERIFY", "DESTROY_PLAN", "DESTROY", "MANIFEST"}
  Ops = {"edit", "delete", "prune"}
  Faults = {"worker_crash", "web_crash"}
SYMMETRY Symmetry
VIEW View
INVARIANTS TypeOK DestroyedHasNoRecordedVMs ReadyMatchesApplied KubeconfigIsCurrent
CHECK_DEADLOCK FALSE
