\* Two clusters share the queue and two workers; both processes may crash, a user cancels and prunes.
SPECIFICATION FairSpec
CONSTANTS
  hashA = hashA
  hashB = hashB
  r1 = r1
  r2 = r2
  w1 = w1
  w2 = w2
  c1 = c1
  c2 = c2
  None = None
  Hashes = {hashA}
  Clusters = {c1, c2}
  Workers = {w1, w2}
  Requests = {r1}
  MaxJobs = 2
  RetentionKeep = 1
  Kinds = {"PLAN", "APPLY"}
  Ops = {"cancel", "prune"}
  Faults = {"worker_crash", "web_crash"}
INVARIANTS ExclusiveExecution ApplyingHasJob
PROPERTIES ImplementsQueue EveryJobEnds
CHECK_DEADLOCK FALSE
