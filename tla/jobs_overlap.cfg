\* Two requests overlap with each other and with the worker; both processes may crash.
SPECIFICATION Spec
CONSTANTS
  hashA = hashA
  hashB = hashB
  r1 = r1
  r2 = r2
  w1 = w1
  w2 = w2
  c1 = c1
  c2 = c2
  None = None
  Hashes = {hashA, hashB}
  Clusters = {c1}
  Workers = {w1}
  Requests = {r1, r2}
  MaxJobs = 3
  RetentionKeep = 1
  Kinds = {"PLAN", "APPLY", "DESTROY_PLAN", "DESTROY"}
  Ops = {"edit", "delete"}
  Faults = {"worker_crash", "web_crash"}
SYMMETRY Symmetry
VIEW OverlapView
INVARIANTS AtMostOneActiveJob AuthorisedPlanIsCurrent
PROPERTIES BuildsReviewedPlan DeletedLeavesNothing
CHECK_DEADLOCK FALSE
