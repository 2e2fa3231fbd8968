\* One user, one worker, nothing crashes; a run of Ansible breaks after terraform.
SPECIFICATION Spec
CONSTANTS
  hashA = hashA
  hashB = hashB
  r1 = r1
  r2 = r2
  w1 = w1
  w2 = w2
  c1 = c1
  c2 = c2
  None = None
  Hashes = {hashA, hashB}
  Clusters = {c1}
  Workers = {w1}
  Requests = {r1}
  MaxJobs = 5
  RetentionKeep = 1
  Kinds = {"PLAN", "APPLY", "ANSIBLE"}
  Ops = {"edit"}
  Faults = {}
SYMMETRY Symmetry
VIEW View
INVARIANT ReadyRunsConfig
CHECK_DEADLOCK FALSE
