--------------------------- MODULE ClusterJobsSafety ---------------------------
(***************************************************************************)
(* What the job table, the rows, the workspaces and the machines of        *)
(* ClusterJobs say of each other, for every number of clusters, workers,   *)
(* requests and jobs: the inductive invariant behind the safety properties *)
(* of ClusterJobs, and their proofs.                                       *)
(***************************************************************************)
EXTENDS ClusterJobsProofs

USE DEF machines, history

(* A worker is given up only once it is dead.                              *)
NoStall == "stall" \notin Faults

-----------------------------------------------------------------------------
(* The inductive invariant.                                                *)

WorksFor(w, c) == Busy(w) /\ work[w].cluster = c

(* No two workers execute the same job; as long as its row is there, it is *)
(* a job of their cluster.                                                 *)
HoldingInv ==
  /\ \A w \in Workers : Busy(w) /\ work[w].job \in DOMAIN jobs =>
       jobs[work[w].job].cluster = work[w].cluster
  /\ \A v, w \in Workers : Busy(v) /\ Busy(w) /\ work[v].job = work[w].job => v = w

(* Requests that write the row or the workspace on the strength of a read  *)
(* that found no active job.                                               *)
Writing(h) == req[h].pc \in {"form", "save", "probe", "rmtree", "delete"}

(* What a deletion that loaded the row r relies on.                        *)
MayDelete(c, r) ==
  /\ vms[c] = "none"
  /\ r.status = "DESTROYED" \/ orphans[c] \intersect {r.config, r.applied} = {}

(* seen = issued: nothing has been queued since the request read the row.  *)
RequestFits(h) ==
  /\ Writing(h) =>
       /\ req[h].seen \in 0 .. issued
       /\ req[h].seen = issued => ~ActiveJob(req[h].cluster)
  /\ req[h].pc \in {"rmtree", "delete"} =>
       (req[h].seen = issued /\ ~overtaken[req[h].cluster] =>
          MayDelete(req[h].cluster, req[h].snap))
  /\ Serving(h, "insert") => Queueable(req[h].snap, req[h].arg)
  /\ Serving(h, "cancel") =>
       /\ req[h].job <= issued
       /\ req[h].job \in DOMAIN jobs => jobs[req[h].job].cluster = req[h].cluster

RequestInv == \A h \in Requests : RequestFits(h)

(* What queue_job checked of the row r still holds of it.                  *)
JobFits(k, r) ==
  /\ k.hash = r.config
  /\ k.kind \in {"ANSIBLE", "VERIFY", "MANIFEST"} => r.applied = r.config
  /\ k.kind = "APPLY" /\ k.status = "QUEUED" => r.planned = r.config

(* The kinds of job that come past a step.                                 *)
KindFits(s) ==
  /\ s.pc \in {"invalidate", "plan", "record"} => s.kind \in PlanKinds
  /\ s.pc \in {"validate", "consume", "apply", "recordApply"} => s.kind = "APPLY"
  /\ s.pc = "ansible" => s.kind = "ANSIBLE"
  /\ s.pc \in {"provision", "ready"} => s.kind \in {"APPLY", "ANSIBLE"}
  /\ s.pc = "verify" => s.kind = "VERIFY"
  /\ s.pc \in {"consumeDestroy", "destroy", "recordDestroy"} => s.kind = "DESTROY"
  /\ s.pc = "manifest" => s.kind = "MANIFEST"

(* Steps that still read the inputs execute has rendered, and steps at     *)
(* which the machines or the runtime are being changed.                    *)
Rendered == {"invalidate", "plan", "validate", "consume", "apply", "recordApply", "ansible",
             "provision"}
Building == {"apply", "recordApply", "provision", "ready", "destroy", "recordDestroy"}

(* What a worker that holds s relies on of the row r and the workspace d.  *)
WorkerFits(s, r, d) ==
  /\ KindFits(s)
  /\ s.pc \in Rendered => d.inputs = s.hash
  /\ s.pc = "record" /\ s.kind = "PLAN" => d.plan = s.hash
  /\ s.pc \in {"claimed", "validate", "consume"} /\ s.kind = "APPLY" => r.planned = r.config
  /\ s.pc = "consume" => d.plan # None
  /\ s.pc = "apply" => d.plan = s.hash /\ r.planned = None
  /\ s.pc \in Building => r.status = "APPLYING"
  /\ s.pc \in {"provision", "ready"} => r.applied = r.config
  /\ s.pc = "recordDestroy" => ~Recorded(d.state)
  /\ s.pc = "done" /\ s.kind \in MutatingKinds => r.status # "APPLYING"

(* The job row a worker executes is still there, RUNNING.                  *)
Backed(w) ==
  /\ work[w].job \in DOMAIN jobs
  /\ jobs[work[w].job].status = "RUNNING"
  /\ jobs[work[w].job].cluster = work[w].cluster
  /\ jobs[work[w].job].kind = work[w].kind
  /\ jobs[work[w].job].hash = work[w].hash

(* No machine that terraform ever recorded runs unless terraform.tfstate   *)
(* still records one: a terraform that is killed leaves the machines and   *)
(* the state apart, but not an empty state with machines it knew.          *)
StateFits(d, v) == ~Recorded(d.state) => v = "none"

RowFits(r, d, v) ==
  /\ r.planned = r.config /\ d.plan # None => d.plan = r.config
  /\ r.status = "DESTROYED" => v = "none"
  /\ r.status = "READY" => r.applied = r.config

(* While an APPLY, ANSIBLE or DESTROY job runs.                            *)
MutatingJob(c) ==
  \E j \in DOMAIN jobs :
    /\ jobs[j].cluster = c /\ jobs[j].status = "RUNNING" /\ jobs[j].kind \in MutatingKinds

ClusterFits(c) ==
  /\ StateFits(disk[c], vms[c])
  /\ Exists(c) => RowFits(row[c], disk[c], vms[c])
  /\ ~Exists(c) => vms[c] = "none"
  /\ Exists(c) /\ row[c].status = "APPLYING" => MutatingJob(c)
  /\ \A j \in DOMAIN jobs :
       jobs[j].cluster = c /\ jobs[j].status \in ActiveStatuses =>
         Exists(c) /\ JobFits(jobs[j], row[c])
  /\ \A w \in Workers :
       WorksFor(w, c) => Backed(w) /\ WorkerFits(work[w], row[c], disk[c])

ClusterInv == \A c \in Clusters : ~overtaken[c] => ClusterFits(c)

SafetyInv == QueueInv /\ HoldingInv /\ RequestInv /\ ClusterInv

(* The kubeconfig, while no request is about to remove it or died before   *)
(* it did.                                                                 *)
KubeconfigInv ==
  \A c \in Clusters :
    /\ Exists(c) /\ ~overtaken[c] /\ ~abandoned[c] /\ disk[c].kubeconfig # None
    /\ \A h \in Requests : ~(Serving(h, "unlink") /\ req[h].cluster = c)
    => disk[c].kubeconfig = row[c].config

-----------------------------------------------------------------------------
(* Who holds a job.                                                        *)

ClaimsAs(w, j) ==
  /\ Claims(j) /\ j \in Queued /\ ~Busy(w)
  /\ work' = [work EXCEPT ![w] =
       [pc |-> "claimed", job |-> j, cluster |-> jobs[j].cluster, kind |-> jobs[j].kind,
        hash |-> jobs[j].hash]]
  /\ UNCHANGED <<row, issued, lock, req, disk, machines, history>>

(* The job a worker commits is the one it selected, still queued: the row  *)
(* lock kept it.                                                           *)
LEMMA ClaimTakesSelected ==
  ASSUME TypeInv, JobsInv, NEW w \in Workers, ClaimJob(w)
  PROVE  \E j \in Queued : ClaimsAs(w, j)
<1>1. PICK j \in Queued :
        /\ j = work[w].job /\ work[w].cluster = jobs[j].cluster
        /\ work[w].kind = jobs[j].kind /\ work[w].hash = jobs[j].hash
  BY DEF ClaimJob, JobsInv, SelectedInv
<1>2. /\ work[w] \in WorkerStates /\ work \in [Workers -> WorkerStates]
      /\ work' = [work EXCEPT ![w].pc = "claimed"]
  BY DEF ClaimJob, Goto, TypeInv, TypeOK
<1>3. [work[w] EXCEPT !.pc = "claimed"] =
        [pc |-> "claimed", job |-> j, cluster |-> jobs[j].cluster, kind |-> jobs[j].kind,
         hash |-> jobs[j].hash]
  BY <1>1, <1>2 DEF WorkerStates
<1>4. Claims(j) /\ ~Busy(w)
  BY <1>1 DEF ClaimJob, Claims, Busy
<1> QED
  BY <1>2, <1>3, <1>4 DEF ClaimsAs, ClaimJob

(* A worker only begins to execute a job by claiming it.                   *)
LEMMA BusyStep ==
  ASSUME TypeInv, JobsInv, [Next]_vars
  PROVE  \/ \E w \in Workers, j \in Queued : ClaimsAs(w, j)
         \/ \A v \in Workers : Busy(v)' => Busy(v) /\ Continues(v)
<1>1. CASE \A v \in Workers : Continues(v)
  BY <1>1 DEF Continues, Busy, At
<1>2. ASSUME NEW w \in Workers, SelectJob(w), NEW v \in Workers, Busy(v)'
      PROVE  Busy(v) /\ Continues(v)
  <2>1. PICK j \in Queued : Select(w, j)
    BY <1>2 DEF SelectJob
  <2>2. work'[w].pc = "selected" /\ (v # w => work'[v] = work[v])
    BY <1>2, <2>1 DEF Select, TypeInv, TypeOK
  <2> QED
    BY <1>2, <2>2 DEF Continues, Busy, At
<1> QED
  BY <1>1, <1>2, ClaimTakesSelected, WorkStep

(* Job ids are never used again, and a job never changes hands.            *)
LEMMA JobKeepsCluster ==
  ASSUME TypeInv, JobsInv, [Next]_vars, NEW j \in 1 .. issued, j \in DOMAIN jobs'
  PROVE  j \in DOMAIN jobs /\ jobs'[j].cluster = jobs[j].cluster
<1>1. issued \in Nat
  BY DEF TypeInv, TypeOK
<1>2. ASSUME NEW h \in Requests, Inserts(h)
      PROVE  j \in DOMAIN jobs /\ jobs'[j].cluster = jobs[j].cluster
  BY <1>1, <1>2 DEF Inserts
<1>3. ASSUME NEW k \in Queued, Claims(k)
      PROVE  j \in DOMAIN jobs /\ jobs'[j].cluster = jobs[j].cluster
  BY <1>3 DEF Claims, JobsInv, JobsTyped, Jobs
<1> QED
  BY <1>2, <1>3, JobsStep DEF Removes, EndsSome

LEMMA HoldingInvStep ==
  ASSUME QueueInv, HoldingInv, [Next]_vars
  PROVE  HoldingInv'
<1> USE DEF QueueInv
<1>1. ASSUME NEW v \in Workers, Busy(v)
      PROVE  work[v].job \in 1 .. issued /\ work[v].job \notin Queued
  BY <1>1 DEF TypeInv, Busy, At, WorkerHoldings, JobIds, JobsInv, SelectedInv
<1>2. ASSUME NEW v \in Workers, Busy(v), Busy(v)', Continues(v)
      PROVE  /\ work'[v].job = work[v].job
             /\ work'[v].job \in DOMAIN jobs' =>
                  jobs'[work'[v].job].cluster = work'[v].cluster
  <2>1. work'[v].job = work[v].job /\ work'[v].cluster = work[v].cluster
    BY <1>2 DEF Continues, Busy, At
  <2>2. work[v].job \in DOMAIN jobs => jobs[work[v].job].cluster = work[v].cluster
    BY <1>2 DEF HoldingInv
  <2> QED
    BY <1>1, <1>2, <2>1, <2>2, JobKeepsCluster
<1>3. ASSUME \A v \in Workers : Busy(v)' => Busy(v) /\ Continues(v) PROVE HoldingInv'
  BY <1>2, <1>3 DEF HoldingInv
<1>4. ASSUME NEW w \in Workers, NEW j \in Queued, ClaimsAs(w, j) PROVE HoldingInv'
  <2>1. \A v \in Workers \ {w} : Continues(v) /\ (Busy(v)' => Busy(v))
    BY <1>4 DEF ClaimsAs, Continues, Busy, At, TypeInv, TypeOK
  <2>2. work'[w].job = j /\ work'[w].cluster = jobs[j].cluster
    BY <1>4 DEF ClaimsAs, TypeInv, TypeOK
  <2>3. jobs'[j].cluster = jobs[j].cluster
    BY <1>4 DEF ClaimsAs, Claims, JobsInv, JobsTyped, Queued, Jobs
  <2>4. \A v \in Workers : Busy(v) => work[v].job # j
    BY <1>1
  <2> QED
    BY <1>2, <2>1, <2>2, <2>3, <2>4 DEF HoldingInv
<1> QED
  BY <1>3, <1>4, BusyStep

-----------------------------------------------------------------------------
(* What steps leave alone.                                                 *)

LEMMA OneRequestMoves ==
  ASSUME TypeInv, NEW h \in Requests, NewRequest(h) \/ RequestStep(h)
  PROVE  \A g \in Requests \ {h} : req'[g] = req[g]
<1> USE DEF TypeInv, TypeOK
<1>1. CASE NewRequest(h)
  BY <1>1 DEF NewRequest, BeginEdit, BeginDelete, StartJob, ReadForCancel
<1>2. CASE RenderEdit(h) \/ CommitEdit(h) \/ UnlinkKubeconfig(h) \/ WriteCancel(h)
  BY <1>2 DEF RenderEdit, CommitEdit, UnlinkKubeconfig, WriteCancel, Answer
<1>3. CASE ProbeVMs(h) \/ RemoveWorkspace(h) \/ DeleteRow(h)
  BY <1>3 DEF ProbeVMs, RemoveWorkspace, DeleteRow, Answer, Proceed
<1>4. CASE LockCluster(h) \/ CheckQueue(h) \/ InsertJob(h)
  BY <1>4 DEF LockCluster, CheckQueue, InsertJob, Answer, Proceed
<1> QED
  BY <1>1, <1>2, <1>3, <1>4 DEF RequestStep

LEMMA RequestLeavesVMs ==
  ASSUME NEW h \in Requests, NewRequest(h) \/ RequestStep(h)
  PROVE  UNCHANGED machines
<1>1. CASE NewRequest(h)
  BY <1>1 DEF NewRequest, BeginEdit, BeginDelete, StartJob, ReadForCancel
<1>2. CASE RequestStep(h)
  BY <1>2 DEF RequestStep, RenderEdit, CommitEdit, UnlinkKubeconfig, WriteCancel, ProbeVMs,
              RemoveWorkspace, DeleteRow, LockCluster, CheckQueue, InsertJob
<1> QED
  BY <1>1, <1>2

(* Terraform changes the workspace and the machines of one cluster, and of *)
(* the workspace only the plans and the state.                             *)
LEMMA TerraformElsewhere ==
  ASSUME TypeInv, NEW c, NEW file, NEW goal, NEW result, NEW killed, NEW unlink,
         TerraformRun(c, file, goal, result, killed, unlink),
         NEW d \in Clusters, d # c
  PROVE  disk'[d] = disk[d] /\ vms'[d] = vms[d] /\ orphans'[d] = orphans[d]
BY DEF TerraformRun, TypeInv, TypeOK

(* Only a worker of the cluster changes its machines.                      *)
LEMMA MachinesStep ==
  ASSUME TypeInv, [Next]_vars, NEW c \in Clusters,
         vms'[c] # vms[c] \/ orphans'[c] # orphans[c]
  PROVE  \E w \in Workers : WorksFor(w, c) /\ (TerraformApply(w) \/ TerraformDestroy(w) \/ CrashWorker(w))
<1>1. ~(UNCHANGED vars \/ CrashWeb \/ \E d \in Clusters : PruneJobs(d))
  BY DEF vars, CrashWeb, PruneJobs
<1>2. ~\E h \in Requests : NewRequest(h) \/ RequestStep(h)
  BY RequestLeavesVMs
<1>3. PICK w \in Workers : WorkerStep(w) \/ CrashWorker(w)
  BY <1>1, <1>2 DEF Next
<1>4. ~(RecoverStaleJobs(w) \/ SelectJob(w) \/ ClaimJob(w) \/ Execute(w) \/ FinishJob(w)
        \/ InvalidatePlan(w) \/ CreatePlan(w) \/ RecordPlan(w) \/ ValidateApply(w)
        \/ ConsumePlan(w))
  BY DEF RecoverStaleJobs, SelectJob, ClaimJob, Execute, FinishJob, InvalidatePlan, CreatePlan,
         RecordPlan, ValidateApply, ConsumePlan
<1>5. ~(RecordApply(w) \/ StartAnsible(w) \/ Provision(w) \/ MarkReady(w) \/ Verify(w)
        \/ RunManifest(w) \/ ConsumeDestroyPlan(w) \/ RecordDestroy(w))
  BY DEF RecordApply, StartAnsible, Provision, MarkReady, Verify, RunManifest,
         ConsumeDestroyPlan, RecordDestroy
<1>6. TerraformApply(w) \/ TerraformDestroy(w) \/ CrashWorker(w)
  BY <1>3, <1>4, <1>5 DEF WorkerStep, ExecuteStep
<1>7. Busy(w)
  <2>1. At(w, "apply") \/ At(w, "destroy")
    BY <1>6 DEF TerraformApply, TerraformDestroy, CrashWorker
  <2> QED
    BY <2>1 DEF Busy, At
<1>8. work[w].cluster = c
  <2>1. \E file, goal, result, killed, unlink :
          TerraformRun(work[w].cluster, file, goal, result, killed, unlink)
    BY <1>6 DEF TerraformApply, TerraformDestroy, CrashWorker
  <2> QED
    BY <2>1, TerraformElsewhere
<1> QED
  BY <1>6, <1>7, <1>8 DEF WorksFor

LEMMA OvertakenStays ==
  ASSUME TypeInv, [Next]_vars, NEW c \in Clusters, overtaken[c]
  PROVE  overtaken'[c]
<1> USE DEF TypeInv, TypeOK
<1>1. CASE UNCHANGED vars \/ CrashWeb \/ \E d \in Clusters : PruneJobs(d)
  BY <1>1 DEF vars, CrashWeb, PruneJobs
<1>2. ASSUME NEW w \in Workers, WorkerStep(w) \/ CrashWorker(w) PROVE overtaken'[c]
  BY <1>2, WorkerLeavesRequests
<1>3. ASSUME NEW h \in Requests, NewRequest(h) PROVE overtaken'[c]
  BY <1>3 DEF NewRequest, BeginEdit, BeginDelete, StartJob, ReadForCancel
<1>4. ASSUME NEW h \in Requests, RequestStep(h) PROVE overtaken'[c]
  <2>1. UNCHANGED overtaken \/ \E d, happened : NoteOvertaken(d, happened)
    BY <1>4 DEF RequestStep, RenderEdit, CommitEdit, UnlinkKubeconfig, WriteCancel, ProbeVMs,
                RemoveWorkspace, DeleteRow, LockCluster, CheckQueue, InsertJob
  <2> QED
    BY <2>1 DEF NoteOvertaken
<1> QED
  BY <1>1, <1>2, <1>3, <1>4 DEF Next

-----------------------------------------------------------------------------
(* What a request relies on.                                               *)

BeginsWriting(g) ==
  LET c == req'[g].cluster IN
  /\ UNCHANGED <<row, jobs, issued, machines, overtaken>>
  /\ req'[g].pc \in {"form", "probe", "rmtree"}
  /\ req'[g].seen = issued /\ req'[g].snap = row[c]
  /\ c \in Clusters /\ Exists(c) /\ ~ActiveJob(c)
  /\ req'[g].pc = "rmtree" => row[c].status = "DESTROYED"

GoesOnWriting(g) ==
  LET c == req[g].cluster IN
  /\ UNCHANGED <<jobs, issued, machines>>
  /\ Writing(g) /\ req'[g].cluster = c
  /\ req'[g].seen = req[g].seen /\ req'[g].snap = req[g].snap
  /\ \/ req'[g].pc = "save"
     \/ req'[g].pc = "rmtree" /\ NothingFound(c, req[g].snap)
     \/ req'[g].pc = "delete" /\ req[g].pc = "rmtree"

RequestMoves(g) ==
  \/ req'[g] = req[g]
  \/ req'[g].pc \in {"idle", "unlink", "lock", "check"}
  \/ BeginsWriting(g)
  \/ GoesOnWriting(g)
  \/ req'[g].pc = "insert" /\ Queueable(req'[g].snap, req'[g].arg)
  \/ /\ UNCHANGED <<jobs, issued>>
     /\ req'[g].pc = "cancel" /\ req'[g].job \in DOMAIN jobs
     /\ req'[g].cluster = jobs[req'[g].job].cluster

LEMMA RequestMovesOn ==
  ASSUME TypeInv, [Next]_vars, NEW g \in Requests
  PROVE  RequestMoves(g)
<1> USE DEF TypeInv, TypeOK
<1>1. CASE UNCHANGED vars \/ \E c \in Clusters : PruneJobs(c)
  BY <1>1 DEF vars, PruneJobs, RequestMoves
<1>2. CASE CrashWeb
  BY <1>2 DEF CrashWeb, RequestMoves, Idle
<1>3. CASE \E w \in Workers : WorkerStep(w) \/ CrashWorker(w)
  BY <1>3, WorkerLeavesRequests DEF RequestMoves
<1>4. CASE \E h \in Requests \ {g} : NewRequest(h) \/ RequestStep(h)
  BY <1>4, OneRequestMoves DEF RequestMoves
<1>5. req[g] \in RequestStates
  OBVIOUS
<1>6. Answer(g) => RequestMoves(g)
  BY DEF Answer, Idle, RequestMoves
<1>7. ASSUME NEW pc \in {"check", "insert", "rmtree", "delete"}, Proceed(g, pc)
      PROVE  /\ req'[g].pc = pc /\ req'[g].cluster = req[g].cluster
             /\ req'[g].seen = req[g].seen /\ req'[g].snap = req[g].snap
             /\ req'[g].arg = req[g].arg
  BY <1>5, <1>7 DEF Proceed, RequestStates
<1>8. CASE NewRequest(g)
  <2>1. ASSUME NEW c \in Clusters, BeginEdit(g, c) PROVE RequestMoves(g)
    <3>1. /\ req'[g].pc = "form" /\ req'[g].seen = issued /\ req'[g].cluster = c
          /\ req'[g].snap = row[c]
      BY <2>1 DEF BeginEdit, Idle
    <3> QED
      BY <2>1, <3>1 DEF BeginEdit, RequestMoves, BeginsWriting
  <2>2. ASSUME NEW c \in Clusters, BeginDelete(g, c) PROVE RequestMoves(g)
    <3>1. /\ req'[g].pc = (IF row[c].status = "DESTROYED" THEN "rmtree" ELSE "probe")
          /\ req'[g].seen = issued /\ req'[g].cluster = c /\ req'[g].snap = row[c]
      BY <2>2 DEF BeginDelete, Idle
    <3> QED
      BY <2>2, <3>1 DEF BeginDelete, RequestMoves, BeginsWriting
  <2>3. ASSUME NEW c \in Clusters, NEW kind \in Kinds, StartJob(g, c, kind)
        PROVE  RequestMoves(g)
    <3>1. req'[g].pc = "lock"
      BY <2>3 DEF StartJob, Idle
    <3> QED
      BY <3>1 DEF RequestMoves
  <2>4. ASSUME NEW j \in JobIds, ReadForCancel(g, j) PROVE RequestMoves(g)
    <3>1. req'[g].pc = "cancel" /\ req'[g].job = j /\ req'[g].cluster = jobs[j].cluster
      BY <2>4 DEF ReadForCancel, Idle
    <3> QED
      BY <2>4, <3>1 DEF ReadForCancel, RequestMoves
  <2> QED
    BY <1>8, <2>1, <2>2, <2>3, <2>4 DEF NewRequest
<1>9. CASE RenderEdit(g)
  <2>1. ASSUME NEW new \in Hashes, req' = [req EXCEPT ![g].pc = "save", ![g].arg = new]
        PROVE  RequestMoves(g)
    <3>1. req'[g] = [req[g] EXCEPT !.pc = "save", !.arg = new]
      BY <2>1
    <3>2. /\ req'[g].pc = "save" /\ req'[g].seen = req[g].seen
          /\ req'[g].cluster = req[g].cluster /\ req'[g].snap = req[g].snap
      BY <1>5, <3>1 DEF RequestStates
    <3> QED
      BY <1>9, <3>2 DEF RenderEdit, RequestMoves, GoesOnWriting, Writing, Serving
  <2> QED
    BY <1>6, <1>9, <2>1 DEF RenderEdit
<1>10. CASE CommitEdit(g)
  <2>1. req' = [req EXCEPT ![g] = [Idle EXCEPT !.pc = "unlink", !.cluster = req[g].cluster]]
          => req'[g].pc = "unlink"
    BY DEF Idle
  <2> QED
    BY <1>6, <1>10, <2>1 DEF CommitEdit, RequestMoves
<1>11. CASE UnlinkKubeconfig(g) \/ InsertJob(g) \/ WriteCancel(g) \/ DeleteRow(g)
  BY <1>6, <1>11 DEF UnlinkKubeconfig, InsertJob, WriteCancel, DeleteRow
<1>12. CASE LockCluster(g)
  BY <1>6, <1>7, <1>12 DEF LockCluster, RequestMoves
<1>13. CASE CheckQueue(g)
  BY <1>6, <1>7, <1>13 DEF CheckQueue, RequestMoves
<1>14. CASE ProbeVMs(g)
  <2>1. CASE NothingFound(req[g].cluster, req[g].snap) /\ Proceed(g, "rmtree")
    <3>1. /\ req'[g].pc = "rmtree" /\ req'[g].seen = req[g].seen
          /\ req'[g].cluster = req[g].cluster /\ req'[g].snap = req[g].snap
      BY <1>7, <2>1
    <3> QED
      BY <1>14, <2>1, <3>1 DEF ProbeVMs, RequestMoves, GoesOnWriting, Writing, Serving
  <2> QED
    BY <1>6, <1>14, <2>1 DEF ProbeVMs
<1>15. CASE RemoveWorkspace(g)
  <2>1. /\ req'[g].pc = "delete" /\ req'[g].seen = req[g].seen
        /\ req'[g].cluster = req[g].cluster /\ req'[g].snap = req[g].snap
    BY <1>7, <1>15 DEF RemoveWorkspace
  <2> QED
    BY <1>15, <2>1 DEF RemoveWorkspace, RequestMoves, GoesOnWriting, Writing, Serving
<1> QED
  BY <1>1, <1>2, <1>3, <1>4, <1>8, <1>9, <1>10, <1>11, <1>12, <1>13, <1>14, <1>15
  DEF Next, RequestStep

-----------------------------------------------------------------------------
(* While no request of c was overtaken, its workers execute its one active *)
(* job.                                                                    *)

LEMMA WorkerBacked ==
  ASSUME SafetyInv, NEW w \in Workers, Busy(w), ~overtaken[work[w].cluster]
  PROVE  /\ work[w].cluster \in Clusters /\ Exists(work[w].cluster)
         /\ Backed(w) /\ ActiveJob(work[w].cluster)
         /\ WorkerFits(work[w], row[work[w].cluster], disk[work[w].cluster])
         /\ JobFits(jobs[work[w].job], row[work[w].cluster])
<1>1. work[w].cluster \in Clusters
  BY DEF SafetyInv, QueueInv, TypeInv, Busy, At, WorkerHoldings
<1>2. ClusterFits(work[w].cluster)
  BY <1>1 DEF SafetyInv, ClusterInv
<1>3. Backed(w) /\ WorkerFits(work[w], row[work[w].cluster], disk[work[w].cluster])
  BY <1>2 DEF ClusterFits, WorksFor
<1>4. Exists(work[w].cluster) /\ JobFits(jobs[work[w].job], row[work[w].cluster])
  BY <1>2, <1>3 DEF ClusterFits, Backed, ActiveStatuses
<1>5. ActiveJob(work[w].cluster)
  BY <1>3 DEF Backed, ActiveJob, JobsOf, ActiveStatuses
<1> QED
  BY <1>1, <1>3, <1>4, <1>5

LEMMA WorksAlone ==
  ASSUME SafetyInv, NEW v \in Workers, NEW w \in Workers, Busy(v), Busy(w),
         work[v].cluster = work[w].cluster, ~overtaken[work[w].cluster]
  PROVE  v = w
<1>1. Backed(v) /\ Backed(w)
  BY WorkerBacked
<1>2. work[v].job = work[w].job
  BY <1>1 DEF SafetyInv, QueueInv, Backed, AtMostOneActiveJob, ActiveStatuses
<1> QED
  BY <1>2 DEF SafetyInv, HoldingInv

(* A step that inserts no job makes no cluster busy.                       *)
LEMMA StaysInactive ==
  ASSUME TypeInv, JobsInv, [Next]_vars, issued' = issued, NEW c, ~ActiveJob(c)
  PROVE  ~ActiveJob(c)'
<1>1. SUFFICES ASSUME NEW j \in DOMAIN jobs', jobs'[j].cluster = c
               PROVE  jobs'[j].status \notin ActiveStatuses
  BY DEF ActiveJob, JobsOf
<1>2. \A i \in DOMAIN jobs : jobs[i].cluster = c => jobs[i].status \notin ActiveStatuses
  BY DEF ActiveJob, JobsOf
<1>3. ASSUME NEW h \in Requests, Inserts(h) PROVE FALSE
  BY <1>3 DEF Inserts, TypeInv, TypeOK
<1>4. ASSUME NEW gone, Removes(gone) PROVE jobs'[j].status \notin ActiveStatuses
  BY <1>1, <1>2, <1>4 DEF Removes
<1>5. ASSUME EndsSome PROVE jobs'[j].status \notin ActiveStatuses
  BY <1>1, <1>2, <1>5 DEF EndsSome, ActiveStatuses, FinalStatuses
<1>6. ASSUME NEW k \in Queued, Claims(k) PROVE jobs'[j].status \notin ActiveStatuses
  BY <1>1, <1>2, <1>6 DEF Claims, Queued, ActiveStatuses, JobsInv, JobsTyped, Jobs
<1> QED
  BY <1>3, <1>4, <1>5, <1>6, JobsStep

LEMMA IssuedGrows ==
  ASSUME TypeInv, JobsInv, [Next]_vars
  PROVE  issued \in Nat /\ issued' \in Nat /\ issued <= issued'
<1>1. issued \in Nat /\ issued' \in Nat
  BY TypeInvStep DEF TypeInv, TypeOK
<1>2. issued' = issued \/ issued' = issued + 1
  BY JobsStep DEF Inserts, Removes, EndsSome, Claims
<1> QED
  BY <1>1, <1>2

LEMMA RequestInvStep ==
  ASSUME SafetyInv, [Next]_vars
  PROVE  RequestInv'
<1> USE DEF SafetyInv, QueueInv
<1>1. SUFFICES ASSUME NEW g \in Requests PROVE RequestFits(g)'
  BY DEF RequestInv
<1>2. TypeInv' /\ JobsInv' /\ issued \in Nat /\ issued' \in Nat /\ issued <= issued'
  BY TypeInvStep, IssuedGrows
<1>3. RequestFits(g) /\ RequestMoves(g)
  BY RequestMovesOn DEF RequestInv
<1>4. Writing(g) => req[g].cluster \in Clusters
  BY DEF Writing, TypeInv, RequestsServed
<1>5. ASSUME NEW c \in Clusters, ~ActiveJob(c), ~overtaken'[c]
      PROVE  vms'[c] = vms[c] /\ orphans'[c] = orphans[c]
  <2>1. ~overtaken[c]
    BY <1>5, OvertakenStays
  <2>2. \A w \in Workers : ~WorksFor(w, c)
    BY <1>5, <2>1, WorkerBacked DEF WorksFor
  <2> QED
    BY <1>5, <2>2, MachinesStep
<1>6. ASSUME Writing(g)', req'[g].cluster = req[g].cluster, req'[g].seen = req[g].seen,
             Writing(g)
      PROVE  /\ req'[g].seen \in 0 .. issued'
             /\ req'[g].seen = issued' => /\ issued' = issued /\ req[g].seen = issued
                                          /\ ~ActiveJob(req[g].cluster)
                                          /\ ~ActiveJob(req[g].cluster)'
  <2>1. req[g].seen \in 0 .. issued
    BY <1>3, <1>6 DEF RequestFits
  <2>2. req[g].seen = issued => ~ActiveJob(req[g].cluster)
    BY <1>3, <1>6 DEF RequestFits
  <2>3. req'[g].seen = issued' => issued' = issued /\ req[g].seen = issued
    BY <1>2, <1>6, <2>1
  <2> QED
    BY <1>2, <1>6, <2>1, <2>2, <2>3, StaysInactive
<1>7. CASE req'[g] = req[g]
  <2>1. Writing(g)' = Writing(g)
    BY <1>7 DEF Writing
  <2>2. CASE Writing(g)
    <3>1. req'[g].pc \in {"rmtree", "delete"} =>
            (req'[g].seen = issued' /\ ~overtaken'[req'[g].cluster] =>
               MayDelete(req[g].cluster, req[g].snap)')
      <4> SUFFICES ASSUME req'[g].pc \in {"rmtree", "delete"}, req'[g].seen = issued',
                          ~overtaken'[req'[g].cluster]
                   PROVE  MayDelete(req[g].cluster, req[g].snap)'
        OBVIOUS
      <4>1. ~overtaken[req[g].cluster]
        BY <1>4, <1>7, <2>2, OvertakenStays
      <4>2. req[g].seen = issued /\ ~ActiveJob(req[g].cluster)
        BY <1>6, <1>7, <2>1, <2>2
      <4>3. MayDelete(req[g].cluster, req[g].snap)
        BY <1>3, <1>7, <4>1, <4>2 DEF RequestFits
      <4>4. /\ vms'[req[g].cluster] = vms[req[g].cluster]
            /\ orphans'[req[g].cluster] = orphans[req[g].cluster]
        BY <1>4, <1>5, <1>7, <2>2, <4>2
      <4> QED
        BY <1>7, <4>3, <4>4 DEF MayDelete
    <3>2. /\ req'[g].seen \in 0 .. issued'
          /\ req'[g].seen = issued' => ~ActiveJob(req[g].cluster)'
      BY <1>6, <1>7, <2>1, <2>2
    <3> QED
      BY <1>7, <2>1, <2>2, <3>1, <3>2 DEF RequestFits, Writing, Serving
  <2>3. CASE Serving(g, "cancel")
    <3>1. req[g].job \in JobIds /\ req[g].job <= issued
      BY <1>3, <2>3 DEF RequestFits, Serving, TypeInv, RequestsServed
    <3>2. req[g].job \in 1 .. issued
      BY <1>2, <3>1 DEF JobIds
    <3>3. req'[g].job <= issued'
      BY <1>2, <1>7, <3>2
    <3>4. req'[g].job \in DOMAIN jobs' => jobs'[req'[g].job].cluster = req'[g].cluster
      BY <1>3, <1>7, <2>3, <3>2, JobKeepsCluster DEF RequestFits
    <3> QED
      BY <1>7, <2>3, <3>3, <3>4 DEF RequestFits, Writing, Serving
  <2> QED
    BY <1>3, <1>7, <2>1, <2>2, <2>3 DEF RequestFits, Writing, Serving
<1>8. CASE req'[g].pc \in {"idle", "unlink", "lock", "check"}
  BY <1>8 DEF RequestFits, Writing, Serving
<1>9. CASE BeginsWriting(g)
  <2>1. PICK c \in Clusters : c = req'[g].cluster /\ Exists(c) /\ ~ActiveJob(c)
    BY <1>9 DEF BeginsWriting
  <2>2. ~ActiveJob(c)'
    BY <1>9, <2>1 DEF BeginsWriting, ActiveJob, JobsOf
  <2>3. row[c].status = "DESTROYED" /\ ~overtaken[c] => vms[c] = "none"
    BY <2>1 DEF ClusterInv, ClusterFits, RowFits
  <2>4. /\ issued' = issued /\ vms' = vms /\ overtaken' = overtaken
        /\ req'[g].seen = issued /\ req'[g].pc \in {"form", "probe", "rmtree"}
        /\ req'[g].pc = "rmtree" => row[c].status = "DESTROYED" /\ req'[g].snap = row[c]
    BY <1>9, <2>1 DEF BeginsWriting
  <2> QED
    BY <1>2, <2>1, <2>2, <2>3, <2>4 DEF RequestFits, MayDelete, Writing, Serving
<1>10. CASE GoesOnWriting(g)
  <2> DEFINE c == req[g].cluster
  <2>1. Writing(g)' /\ Writing(g)
    BY <1>10 DEF GoesOnWriting, Writing
  <2>2. /\ req'[g].cluster = c /\ req'[g].seen = req[g].seen /\ req'[g].snap = req[g].snap
        /\ issued' = issued /\ vms' = vms /\ orphans' = orphans /\ jobs' = jobs
    BY <1>10 DEF GoesOnWriting
  <2>3. req'[g].pc = "delete" =>
          (req[g].seen = issued /\ ~overtaken'[c] => MayDelete(c, req[g].snap))
    BY <1>3, <1>4, <1>10, <2>1, OvertakenStays DEF GoesOnWriting, RequestFits
  <2>4. req'[g].pc = "rmtree" => MayDelete(c, req[g].snap)
    BY <1>10 DEF GoesOnWriting, NothingFound, MayDelete
  <2>5. req'[g].pc \in {"save", "rmtree", "delete"}
    BY <1>10 DEF GoesOnWriting
  <2>6. /\ req'[g].seen \in 0 .. issued'
        /\ req'[g].seen = issued' => ~ActiveJob(req[g].cluster)'
    BY <1>6, <2>1, <2>2
  <2> QED
    BY <2>1, <2>2, <2>3, <2>4, <2>5, <2>6 DEF RequestFits, MayDelete, Serving
<1>11. CASE req'[g].pc = "insert" /\ Queueable(req'[g].snap, req'[g].arg)
  BY <1>11 DEF RequestFits, Writing, Serving, Queueable
<1>12. CASE /\ UNCHANGED <<jobs, issued>>
            /\ req'[g].pc = "cancel" /\ req'[g].job \in DOMAIN jobs
            /\ req'[g].cluster = jobs[req'[g].job].cluster
  BY <1>2, <1>12 DEF RequestFits, Writing, Serving, JobsInv, JobsTyped
<1> QED
  BY <1>3, <1>7, <1>8, <1>9, <1>10, <1>11, <1>12 DEF RequestMoves

-----------------------------------------------------------------------------
(* What a request does to a cluster.                                       *)

(* A step that neither changes what ClusterFits(c) reads nor moves a       *)
(* worker of c on.                                                         *)
SameJob(j) ==
  /\ jobs'[j].cluster = jobs[j].cluster /\ jobs'[j].kind = jobs[j].kind
  /\ jobs'[j].hash = jobs[j].hash /\ jobs'[j].status = jobs[j].status

SameFor(c) ==
  /\ row'[c] = row[c] /\ vms'[c] = vms[c]
  /\ disk'[c].inputs = disk[c].inputs /\ disk'[c].plan = disk[c].plan
  /\ disk'[c].state = disk[c].state
  /\ \A j \in DOMAIN jobs :
       jobs[j].cluster = c /\ jobs[j].status = "RUNNING" => j \in DOMAIN jobs' /\ SameJob(j)
  /\ \A j \in DOMAIN jobs' :
       jobs'[j].cluster = c /\ jobs'[j].status \in ActiveStatuses =>
         j \in DOMAIN jobs /\ SameJob(j)
  /\ \A w \in Workers : WorksFor(w, c)' => work'[w] = work[w]

LEMMA SameForKeeps ==
  ASSUME NEW c \in Clusters, ClusterFits(c), SameFor(c)
  PROVE  ClusterFits(c)'
<1>1. Exists(c)' <=> Exists(c)
  BY DEF SameFor, Exists
<1>2. /\ StateFits(disk[c], vms[c])' /\ (Exists(c)' => RowFits(row[c], disk[c], vms[c])')
      /\ ~Exists(c)' => vms'[c] = "none"
  BY <1>1 DEF ClusterFits, SameFor, StateFits, RowFits
<1>3. Exists(c)' /\ row'[c].status = "APPLYING" => MutatingJob(c)'
  BY <1>1 DEF ClusterFits, SameFor, SameJob, MutatingJob
<1>4. ASSUME NEW j \in DOMAIN jobs', jobs'[j].cluster = c, jobs'[j].status \in ActiveStatuses
      PROVE  Exists(c)' /\ JobFits(jobs'[j], row'[c])
  <2>1. j \in DOMAIN jobs /\ SameJob(j)
    BY <1>4 DEF SameFor
  <2>2. Exists(c) /\ JobFits(jobs[j], row[c])
    BY <1>4, <2>1 DEF ClusterFits, SameJob
  <2> QED
    BY <1>1, <2>1, <2>2 DEF SameJob, SameFor, JobFits
<1>5. ASSUME NEW w \in Workers, WorksFor(w, c)'
      PROVE  Backed(w)' /\ WorkerFits(work[w], row[c], disk[c])'
  <2>1. work'[w] = work[w] /\ WorksFor(w, c)
    BY <1>5 DEF SameFor, WorksFor, Busy, At
  <2>2. Backed(w) /\ WorkerFits(work[w], row[c], disk[c])
    BY <2>1 DEF ClusterFits
  <2>3. Backed(w)'
    BY <2>1, <2>2 DEF Backed, WorksFor, SameFor, SameJob
  <2>4. WorkerFits(work'[w], row'[c], disk'[c])
    BY <2>1, <2>2 DEF SameFor, WorkerFits
  <2> QED
    BY <2>3, <2>4
<1> QED
  BY <1>2, <1>3, <1>4, <1>5 DEF ClusterFits

(* No job of c waits or runs, so no worker serves it.                      *)
Quiet(c) == ~ActiveJob(c) /\ \A w \in Workers : ~WorksFor(w, c)

LEMMA QuietFits ==
  ASSUME NEW c \in Clusters, Quiet(c)', StateFits(disk[c], vms[c])',
         Exists(c)' => RowFits(row[c], disk[c], vms[c])' /\ row'[c].status # "APPLYING",
         ~Exists(c)' => vms'[c] = "none"
  PROVE  ClusterFits(c)'
BY DEF Quiet, ClusterFits, ActiveJob, JobsOf

(* A request that is not marked as overtaken writes to a quiet cluster     *)
(* whose row is the one it has loaded.                                     *)
LEMMA WritesToQuiet ==
  ASSUME SafetyInv, NEW h \in Requests, Writing(h), ~Outdated(h),
         ~overtaken[req[h].cluster]
  PROVE  LET c == req[h].cluster IN
         /\ c \in Clusters /\ ClusterFits(c) /\ Quiet(c) /\ row[c] = req[h].snap
         /\ Exists(c) => row[c].status # "APPLYING"
         /\ req[h].pc \in {"rmtree", "delete"} => MayDelete(c, row[c])
<1> DEFINE c == req[h].cluster
<1>1. c \in Clusters
  BY DEF SafetyInv, QueueInv, TypeInv, Writing, RequestsServed
<1>2. row[c] = req[h].snap /\ req[h].seen = issued
  BY DEF Outdated
<1>3. ~ActiveJob(c) /\ (req[h].pc \in {"rmtree", "delete"} => MayDelete(c, row[c]))
  BY <1>2 DEF SafetyInv, RequestInv, RequestFits
<1>4. Quiet(c)
  BY <1>3, WorkerBacked DEF Quiet, WorksFor
<1>5. ClusterFits(c)
  BY <1>1 DEF SafetyInv, ClusterInv
<1>6. Exists(c) => row[c].status # "APPLYING"
  BY <1>3, <1>5 DEF ClusterFits, MutatingJob, ActiveJob, JobsOf, ActiveStatuses
<1> QED
  BY <1>1, <1>2, <1>3, <1>4, <1>5, <1>6

LEMMA NoteOvertakenMeans ==
  ASSUME TypeInv, NEW c \in Clusters, NEW happened \in BOOLEAN, NoteOvertaken(c, happened)
  PROVE  ~overtaken'[c] => ~overtaken[c] /\ ~happened
BY DEF NoteOvertaken, TypeInv, TypeOK

LEMMA ReadersKeep ==
  ASSUME TypeInv, NEW c \in Clusters,
         \/ UNCHANGED vars \/ CrashWeb
         \/ \E d \in Clusters : PruneJobs(d)
         \/ \E w \in Workers : SelectJob(w)
         \/ \E h \in Requests : \/ NewRequest(h) \/ LockCluster(h) \/ CheckQueue(h)
                                \/ ProbeVMs(h) \/ UnlinkKubeconfig(h)
  PROVE  SameFor(c)
<1> USE DEF TypeInv, TypeOK
<1>1. CASE UNCHANGED <<row, jobs, vms, disk, work>>
  BY <1>1 DEF SameFor, SameJob
<1>2. CASE UNCHANGED vars \/ CrashWeb
  BY <1>1, <1>2 DEF vars, CrashWeb
<1>3. ASSUME NEW d \in Clusters, PruneJobs(d) PROVE SameFor(c)
  <2>1. PICK old \in SUBSET FinishedJobs(d) : jobs' = [j \in DOMAIN jobs \ old |-> jobs[j]]
    BY <1>3 DEF PruneJobs, RemoveJobs
  <2>2. \A j \in old : jobs[j].status # "RUNNING"
    BY DEF FinishedJobs, FinalStatuses
  <2>3. UNCHANGED <<row, vms, disk, work>>
    BY <1>3 DEF PruneJobs
  <2> QED
    BY <2>1, <2>2, <2>3 DEF SameFor, SameJob
<1>4. ASSUME NEW h \in Requests,
             NewRequest(h) \/ LockCluster(h) \/ CheckQueue(h) \/ ProbeVMs(h)
      PROVE  SameFor(c)
  BY <1>1, <1>4 DEF NewRequest, BeginEdit, BeginDelete, StartJob, ReadForCancel, LockCluster,
                    CheckQueue, ProbeVMs
<1>5. ASSUME NEW h \in Requests, UnlinkKubeconfig(h) PROVE SameFor(c)
  <2>1. disk' = [disk EXCEPT ![req[h].cluster].kubeconfig = None] /\ disk[c] \in Workspaces
    BY <1>5 DEF UnlinkKubeconfig
  <2>2. disk'[c].inputs = disk[c].inputs /\ disk'[c].plan = disk[c].plan
        /\ disk'[c].state = disk[c].state
    BY <2>1 DEF Workspaces
  <2>3. UNCHANGED <<row, jobs, vms, work>>
    BY <1>5 DEF UnlinkKubeconfig
  <2> QED
    BY <2>2, <2>3 DEF SameFor, SameJob
<1>6. ASSUME NEW w \in Workers, SelectJob(w) PROVE SameFor(c)
  <2>1. PICK j \in Queued : Select(w, j)
    BY <1>6 DEF SelectJob
  <2>2. ~Busy(w)' /\ \A v \in Workers \ {w} : work'[v] = work[v]
    BY <2>1 DEF Select, Busy, At
  <2>3. UNCHANGED <<row, jobs, vms, disk>>
    BY <1>6 DEF SelectJob
  <2> QED
    BY <2>2, <2>3 DEF SameFor, SameJob, WorksFor
<1> QED
  BY <1>2, <1>3, <1>4, <1>5, <1>6

LEMMA CancelKeeps ==
  ASSUME SafetyInv, NEW h \in Requests, WriteCancel(h), NEW c \in Clusters, ~overtaken'[c]
  PROVE  SameFor(c)
<1> USE DEF SafetyInv, QueueInv
<1> DEFINE j == req[h].job
<1>1. j \in DOMAIN jobs => jobs[j].cluster = req[h].cluster
  BY DEF RequestInv, RequestFits, WriteCancel
<1>2. req[h].cluster \in Clusters
  BY DEF WriteCancel, Serving, TypeInv, RequestsServed
<1>3. UNCHANGED <<row, disk, vms, work>>
  BY DEF WriteCancel
<1>4. CASE j \notin DOMAIN jobs
  BY <1>3, <1>4 DEF WriteCancel, SameFor, SameJob
<1>5. CASE j \in DOMAIN jobs /\ jobs' = [jobs EXCEPT ![j].cancel = TRUE]
  BY <1>3, <1>5 DEF SameFor, SameJob, TypeInv, TypeOK, Jobs
<1>6. CASE /\ j \in DOMAIN jobs /\ req[h].arg = "QUEUED"
           /\ jobs' = [jobs EXCEPT ![j].status = "CANCELLED"]
  <2>1. req[h].cluster = c => jobs[j].status = "QUEUED"
    BY <1>2, <1>6, NoteOvertakenMeans DEF WriteCancel
  <2>2. jobs'[j].status = "CANCELLED" /\ jobs'[j].cluster = jobs[j].cluster
    BY <1>6 DEF TypeInv, TypeOK, Jobs
  <2>3. DOMAIN jobs' = DOMAIN jobs /\ \A i \in DOMAIN jobs \ {j} : jobs'[i] = jobs[i]
    BY <1>6
  <2> QED
    BY <1>1, <1>3, <1>6, <2>1, <2>2, <2>3 DEF SameFor, SameJob, ActiveStatuses
<1> QED
  BY <1>4, <1>5, <1>6 DEF WriteCancel

LEMMA EditKeeps ==
  ASSUME SafetyInv, NEW h \in Requests, RenderEdit(h) \/ CommitEdit(h),
         NEW c \in Clusters, ~overtaken'[c], ClusterFits(c)
  PROVE  ClusterFits(c)'
<1> USE ConstantsAssumption, NullIsNoRow DEF SafetyInv, QueueInv, TypeInv, TypeOK
<1>1. UNCHANGED <<jobs, vms, work>> /\ Writing(h)
  BY DEF RenderEdit, CommitEdit, Writing, Serving
<1>2. req[h].cluster \in Clusters
  BY <1>1 DEF Writing, RequestsServed
<1>3. CASE req[h].cluster # c
  <2>1. row'[c] = row[c] /\ disk'[c] = disk[c]
    BY <1>2, <1>3 DEF RenderEdit, CommitEdit
  <2> QED
    BY <1>1, <2>1, SameForKeeps DEF SameFor, SameJob
<1>4. CASE UNCHANGED <<row, disk>>
  BY <1>1, <1>4, SameForKeeps DEF SameFor, SameJob
<1>5. CASE req[h].cluster = c /\ ~UNCHANGED <<row, disk>>
  <2>1. NoteOvertaken(c, Outdated(h))
    BY <1>5 DEF RenderEdit, CommitEdit
  <2>2. ~overtaken[c] /\ ~Outdated(h)
    BY <2>1, NoteOvertakenMeans DEF Outdated
  <2>3. /\ Quiet(c) /\ row[c] = req[h].snap
        /\ Exists(c) => row[c].status # "APPLYING"
    BY <1>1, <1>5, <2>2, WritesToQuiet
  <2>4. Quiet(c)'
    BY <1>1, <2>3 DEF Quiet, ActiveJob, JobsOf, WorksFor, Busy, At
  <2>5. disk'[c].plan = disk[c].plan /\ disk'[c].state = disk[c].state
    <3>1. disk' = disk \/ \E x \in Hashes : disk' = [disk EXCEPT ![c].inputs = x]
      BY <1>5 DEF RenderEdit, CommitEdit
    <3>2. disk[c] \in Workspaces
      OBVIOUS
    <3> QED
      BY <3>1, <3>2 DEF Workspaces
  <2>6. CASE row'[c] = row[c]
    <3>1. StateFits(disk[c], vms[c])' /\ (Exists(c)' => RowFits(row[c], disk[c], vms[c])')
          /\ (~Exists(c)' => vms'[c] = "none") /\ (Exists(c)' => row'[c].status # "APPLYING")
      BY <1>1, <2>3, <2>5, <2>6 DEF ClusterFits, StateFits, RowFits, Exists
    <3> QED
      BY <2>4, <3>1, QuietFits
  <2>7. CASE row'[c] # row[c]
    <3>1. CommitEdit(h) /\ Exists(c) /\ row[c] \in Rows
      BY <1>5, <2>7 DEF CommitEdit, RenderEdit, Exists
    <3>2. row'[c] = Flush(c, row[c], Edited(row[c], req[h].arg))
      BY <1>5, <2>3, <3>1 DEF CommitEdit
    <3>3. req[h].arg # row[c].config /\ req[h].arg \in Hashes
      <4>1. req[h].arg \in Hashes
        BY <3>1 DEF CommitEdit, Serving, RequestsServed
      <4>2. Edited(row[c], row[c].config) = row[c]
        BY DEF Edited
      <4>3. Flush(c, row[c], row[c]) = row[c]
        BY <3>1 DEF Flush, Rows
      <4> QED
        BY <2>7, <3>2, <4>1, <4>2, <4>3
    <3>4. row'[c] = [row[c] EXCEPT !.config = req[h].arg, !.status = "DRAFT", !.planned = None,
                                   !.destroyPlanned = None]
      <4> DEFINE new == [row[c] EXCEPT !.config = req[h].arg, !.status = "DRAFT",
                                       !.planned = None, !.destroyPlanned = None]
      <4>1. new \in Rows
        BY <3>1, <3>3 DEF Rows, ClusterStatuses
      <4>2. Edited(row[c], req[h].arg) = new
        BY <3>3 DEF Edited
      <4>3. Flush(c, row[c], new) = new
        <5> HIDE DEF new
        <5> QED
          BY <3>1, <4>1 DEF Flush, Rows
      <4> QED
        BY <3>2, <4>2, <4>3
    <3>5. row'[c] \in Rows /\ row'[c].planned = None /\ row'[c].status = "DRAFT"
          /\ row'[c].config \in Hashes
      BY <3>1, <3>3, <3>4 DEF Rows, ClusterStatuses
    <3>6. Exists(c)' /\ RowFits(row[c], disk[c], vms[c])' /\ row'[c].status # "APPLYING"
      BY <3>5 DEF Exists, RowFits
    <3>7. StateFits(disk[c], vms[c])'
      BY <1>1, <2>5 DEF ClusterFits, StateFits
    <3> QED
      BY <2>4, <3>6, <3>7, QuietFits
  <2> QED
    BY <2>6, <2>7
<1> QED
  BY <1>3, <1>4, <1>5

LEMMA DeleteKeeps ==
  ASSUME SafetyInv, NEW h \in Requests, RemoveWorkspace(h) \/ DeleteRow(h),
         NEW c \in Clusters, ~overtaken'[c], ClusterFits(c)
  PROVE  ClusterFits(c)'
<1> USE ConstantsAssumption, NullIsNoRow DEF SafetyInv, QueueInv, TypeInv, TypeOK
<1>1. UNCHANGED <<vms, work>> /\ Writing(h)
  BY DEF RemoveWorkspace, DeleteRow, Writing, Serving
<1>2. req[h].cluster \in Clusters
  BY <1>1 DEF Writing, RequestsServed
<1>3. CASE req[h].cluster # c
  <2>1. row'[c] = row[c] /\ disk'[c] = disk[c]
    BY <1>2, <1>3 DEF RemoveWorkspace, DeleteRow
  <2>2. \A j \in DOMAIN jobs : jobs[j].cluster = c => j \in DOMAIN jobs' /\ SameJob(j)
    BY <1>3 DEF RemoveWorkspace, DeleteRow, RemoveJobs, JobsOf, SameJob
  <2>3. \A j \in DOMAIN jobs' : j \in DOMAIN jobs /\ SameJob(j)
    BY DEF RemoveWorkspace, DeleteRow, RemoveJobs, JobsOf, SameJob
  <2> QED
    BY <1>1, <2>1, <2>2, <2>3, SameForKeeps DEF SameFor
<1>4. CASE req[h].cluster = c
  <2>1. NoteOvertaken(c, Outdated(h))
    BY <1>4 DEF RemoveWorkspace, DeleteRow
  <2>2. ~overtaken[c] /\ ~Outdated(h)
    BY <2>1, NoteOvertakenMeans DEF Outdated
  <2>3. /\ Quiet(c) /\ vms[c] = "none"
        /\ Exists(c) => row[c].status # "APPLYING"
    BY <1>1, <1>4, <2>2, WritesToQuiet DEF RemoveWorkspace, DeleteRow, Serving, MayDelete
  <2>4. Quiet(c)'
    <3>1. ~ActiveJob(c)'
      BY <2>3 DEF RemoveWorkspace, DeleteRow, RemoveJobs, ActiveJob, JobsOf, Quiet
    <3>2. \A w \in Workers : ~WorksFor(w, c)'
      BY <1>1, <2>3 DEF Quiet, WorksFor, Busy, At
    <3> QED
      BY <3>1, <3>2 DEF Quiet
  <2>5. CASE RemoveWorkspace(h)
    <3>1. disk'[c] = EmptyWorkspace /\ row' = row
      BY <1>4, <2>5 DEF RemoveWorkspace
    <3>2. disk'[c].state = "absent" /\ disk'[c].plan = None
      BY <3>1 DEF EmptyWorkspace
    <3>3. StateFits(disk[c], vms[c])' /\ (~Exists(c)' => vms'[c] = "none")
      BY <1>1, <2>3 DEF StateFits
    <3>4. Exists(c)' => RowFits(row[c], disk[c], vms[c])' /\ row'[c].status # "APPLYING"
      BY <1>1, <2>3, <3>1, <3>2 DEF RowFits, Exists, ClusterFits
    <3> QED
      BY <2>4, <3>3, <3>4, QuietFits
  <2>6. CASE DeleteRow(h)
    <3>1. disk' = disk /\ row'[c] = None
      BY <1>4, <2>6 DEF DeleteRow
    <3>2. StateFits(disk[c], vms[c])' /\ ~Exists(c)' /\ vms'[c] = "none"
      BY <1>1, <2>3, <3>1 DEF StateFits, Exists, ClusterFits
    <3> QED
      BY <2>4, <3>2, QuietFits
  <2> QED
    BY <2>5, <2>6
<1> QED
  BY <1>3, <1>4

LEMMA InsertKeeps ==
  ASSUME SafetyInv, NEW h \in Requests, InsertJob(h),
         NEW c \in Clusters, ~overtaken'[c], ClusterFits(c)
  PROVE  ClusterFits(c)'
<1> USE ConstantsAssumption, NullIsNoRow DEF SafetyInv, QueueInv, TypeInv, TypeOK
<1>1. UNCHANGED <<row, disk, vms, work>>
  BY DEF InsertJob
<1>2. CASE issued >= MaxJobs
  <2>1. jobs' = jobs
    BY <1>2 DEF InsertJob
  <2> QED
    BY <1>1, <2>1, SameForKeeps DEF SameFor, SameJob
<1>3. CASE issued < MaxJobs
  <2> DEFINE n == issued + 1
             new == [status |-> "QUEUED", kind |-> req[h].arg, cluster |-> req[h].cluster,
                     hash |-> req[h].snap.config, cancel |-> FALSE]
  <2>1. /\ jobs' = [j \in DOMAIN jobs \union {n} |-> IF j = n THEN new ELSE jobs[j]]
        /\ NoteOvertaken(req[h].cluster, Outdated(h))
    BY <1>3 DEF InsertJob
  <2>2. n \notin DOMAIN jobs
    BY DEF JobsInv, JobsTyped
  <2>3. req[h].cluster \in Clusters /\ req[h].snap \in Rows
    BY DEF InsertJob, Serving, RequestsServed
  <2>4. /\ DOMAIN jobs' = DOMAIN jobs \union {n} /\ jobs'[n] = new
        /\ \A j \in DOMAIN jobs : jobs'[j] = jobs[j]
    BY <2>1, <2>2
  <2> HIDE DEF n
  <2>5. CASE req[h].cluster # c
    <3>1. jobs'[n].cluster # c
      BY <2>4, <2>5
    <3> QED
      BY <1>1, <2>2, <2>4, <3>1, SameForKeeps DEF SameFor, SameJob
  <2>6. CASE req[h].cluster = c
    <3>1. row[c] = req[h].snap /\ Queueable(row[c], req[h].arg)
      <4>1. ~Outdated(h)
        BY <2>1, <2>6, NoteOvertakenMeans DEF Outdated
      <4>2. Queueable(req[h].snap, req[h].arg)
        BY DEF InsertJob, RequestInv, RequestFits
      <4> QED
        BY <2>6, <4>1, <4>2 DEF Outdated
    <3>2. ~ActiveJob(c)
      BY <2>6 DEF LockInv, InsertJob
    <3>3. Exists(c) /\ Exists(c)'
      BY <1>1, <2>3, <3>1 DEF Exists
    <3>4. JobFits(new, row[c])
      BY <3>1 DEF JobFits, Queueable
    <3>5. \A w \in Workers : ~WorksFor(w, c)
      BY <2>1, <2>6, <3>2, NoteOvertakenMeans, WorkerBacked DEF WorksFor, Outdated
    <3>6. \A w \in Workers : ~WorksFor(w, c)'
      BY <1>1, <3>5 DEF WorksFor, Busy, At
    <3>7. /\ StateFits(disk[c], vms[c])' /\ RowFits(row[c], disk[c], vms[c])'
      BY <1>1, <3>3 DEF ClusterFits
    <3>8. row'[c].status # "APPLYING"
      BY <1>1, <3>2, <3>3 DEF ClusterFits, MutatingJob, ActiveJob, JobsOf, ActiveStatuses
    <3>9. ASSUME NEW j \in DOMAIN jobs', jobs'[j].cluster = c, jobs'[j].status \in ActiveStatuses
          PROVE  JobFits(jobs'[j], row'[c])
      <4>1. CASE j = n
        BY <1>1, <2>4, <3>4, <4>1
      <4>2. CASE j \in DOMAIN jobs
        BY <2>4, <3>2, <3>9, <4>2 DEF ActiveJob, JobsOf
      <4> QED
        BY <2>4, <4>1, <4>2
    <3> QED
      BY <3>3, <3>6, <3>7, <3>8, <3>9 DEF ClusterFits
  <2> QED
    BY <2>5, <2>6
<1> QED
  BY <1>2, <1>3

-----------------------------------------------------------------------------
(* A job begins, ends or is given up.                                      *)

LEMMA ClaimKeeps ==
  ASSUME SafetyInv, NEW w \in Workers, NEW k \in Queued, ClaimsAs(w, k),
         NEW c \in Clusters, ~overtaken[c], ClusterFits(c)
  PROVE  ClusterFits(c)'
<1> USE DEF SafetyInv, QueueInv, TypeInv, TypeOK
<1>1. UNCHANGED <<row, disk, vms>>
  BY DEF ClaimsAs
<1>2. k \in DOMAIN jobs /\ jobs[k] \in Jobs /\ jobs[k].status = "QUEUED"
  BY DEF Queued
<1>3. /\ DOMAIN jobs' = DOMAIN jobs /\ \A j \in DOMAIN jobs \ {k} : jobs'[j] = jobs[j]
      /\ jobs'[k] = [jobs[k] EXCEPT !.status = "RUNNING"]
  BY <1>2 DEF ClaimsAs, Claims
<1>4. /\ jobs'[k].status = "RUNNING" /\ jobs'[k].cluster = jobs[k].cluster
      /\ jobs'[k].kind = jobs[k].kind /\ jobs'[k].hash = jobs[k].hash
  BY <1>2, <1>3 DEF Jobs
<1>5. /\ \A v \in Workers \ {w} : work'[v] = work[v]
      /\ work'[w] = [pc |-> "claimed", job |-> k, cluster |-> jobs[k].cluster,
                     kind |-> jobs[k].kind, hash |-> jobs[k].hash]
  BY DEF ClaimsAs
<1>6. CASE jobs[k].cluster # c
  <2>1. \A j \in DOMAIN jobs : jobs[j].cluster = c => SameJob(j)
    BY <1>3, <1>6 DEF SameJob
  <2>2. \A j \in DOMAIN jobs' : jobs'[j].cluster = c => j \in DOMAIN jobs /\ jobs[j].cluster = c
    BY <1>3, <1>4, <1>6
  <2>3. \A v \in Workers : WorksFor(v, c)' => work'[v] = work[v]
    BY <1>5, <1>6 DEF WorksFor
  <2> QED
    BY <1>1, <1>3, <2>1, <2>2, <2>3, SameForKeeps DEF SameFor
<1>7. CASE jobs[k].cluster = c
  <2>1. Exists(c) /\ Exists(c)' /\ JobFits(jobs[k], row[c])
    BY <1>1, <1>2, <1>7 DEF ClusterFits, ActiveStatuses, Exists
  <2>2. StateFits(disk[c], vms[c])' /\ RowFits(row[c], disk[c], vms[c])'
    BY <1>1, <2>1 DEF ClusterFits
  <2>3. row'[c].status = "APPLYING" => MutatingJob(c)'
    BY <1>1, <1>2, <1>3, <2>1 DEF ClusterFits, MutatingJob
  <2>4. ASSUME NEW j \in DOMAIN jobs', jobs'[j].cluster = c, jobs'[j].status \in ActiveStatuses
        PROVE  JobFits(jobs'[j], row'[c])
    <3>1. CASE j = k
      BY <1>1, <1>4, <2>1, <3>1 DEF JobFits
    <3>2. CASE j # k
      BY <1>1, <1>3, <2>4, <3>2 DEF ClusterFits
    <3> QED
      BY <3>1, <3>2
  <2>5. ASSUME NEW v \in Workers \ {w}, WorksFor(v, c)' PROVE FALSE
    <3>1. WorksFor(v, c)
      BY <1>5, <2>5 DEF WorksFor, Busy, At
    <3>2. Backed(v) /\ work[v].cluster = c
      BY <3>1 DEF ClusterFits, WorksFor
    <3> QED
      BY <1>2, <1>7, <3>2 DEF Backed, AtMostOneActiveJob, ActiveStatuses
  <2>6. Backed(w)' /\ WorkerFits(work'[w], row'[c], disk'[c])
    <3>1. Backed(w)'
      <4>1. /\ work'[w].job = k /\ work'[w].cluster = jobs[k].cluster
            /\ work'[w].kind = jobs[k].kind /\ work'[w].hash = jobs[k].hash
        BY <1>5
      <4> QED
        BY <1>2, <1>3, <1>4, <4>1 DEF Backed
    <3>2. jobs[k].kind = "APPLY" => row[c].planned = row[c].config
      BY <1>2, <2>1 DEF JobFits
    <3> QED
      BY <1>1, <1>5, <3>1, <3>2 DEF WorkerFits, KindFits, Rendered, Building
  <2> QED
    BY <2>1, <2>2, <2>3, <2>4, <2>5, <2>6 DEF ClusterFits
<1> QED
  BY <1>6, <1>7

LEMMA RecoveryKeeps ==
  ASSUME SafetyInv, NoStall, NEW w \in Workers, RecoverStaleJobs(w),
         NEW c \in Clusters, ~overtaken[c], ClusterFits(c)
  PROVE  ClusterFits(c)'
<1> USE ConstantsAssumption, NullIsNoRow DEF SafetyInv, QueueInv, TypeInv, TypeOK
<1>1. PICK lost \in SUBSET {j \in DOMAIN jobs : Silent(j)} :
        /\ jobs' = [j \in DOMAIN jobs |->
             IF j \in lost THEN [jobs[j] EXCEPT !.status = "FAILED"] ELSE jobs[j]]
        /\ row' = [d \in Clusters |->
             IF d \in BrokenBy(lost) THEN [row[d] EXCEPT !.status = "FAILED"] ELSE row[d]]
  BY DEF RecoverStaleJobs
<1>2. UNCHANGED <<disk, vms, work>>
  BY DEF RecoverStaleJobs
<1>3. \A j \in lost : jobs[j].status = "RUNNING" /\ \A v \in Workers : work[v].job # j
  BY DEF Silent, NoStall
<1>4. /\ DOMAIN jobs' = DOMAIN jobs /\ \A j \in DOMAIN jobs \ lost : jobs'[j] = jobs[j]
      /\ \A j \in lost : jobs'[j].status = "FAILED" /\ jobs'[j].cluster = jobs[j].cluster
  BY <1>1 DEF Jobs
<1>5. CASE \A j \in lost : jobs[j].cluster # c
  <2>1. row'[c] = row[c]
    BY <1>1, <1>5 DEF BrokenBy
  <2> QED
    BY <1>2, <1>4, <1>5, <2>1, SameForKeeps DEF SameFor, SameJob
<1>6. ASSUME NEW k \in lost, jobs[k].cluster = c PROVE ClusterFits(c)'
  <2>1. k \in DOMAIN jobs /\ jobs[k].status \in ActiveStatuses
    BY <1>3 DEF ActiveStatuses
  <2>2. \A j \in DOMAIN jobs : jobs[j].cluster = c /\ jobs[j].status \in ActiveStatuses => j = k
    BY <1>6, <2>1 DEF AtMostOneActiveJob
  <2>3. ~ActiveJob(c)'
    BY <1>4, <2>2 DEF ActiveJob, JobsOf, ActiveStatuses
  <2>4. \A v \in Workers : ~WorksFor(v, c)
    <3>1. SUFFICES ASSUME NEW v \in Workers, WorksFor(v, c) PROVE FALSE
      OBVIOUS
    <3>2. Backed(v) /\ work[v].cluster = c
      BY <3>1 DEF ClusterFits, WorksFor
    <3>3. work[v].job = k
      BY <2>2, <3>2 DEF Backed, ActiveStatuses
    <3> QED
      BY <1>3, <3>3
  <2>5. Quiet(c)'
    BY <1>2, <2>3, <2>4 DEF Quiet, WorksFor, Busy, At
  <2>6. Exists(c) /\ row[c] \in Rows
    BY <1>6, <2>1 DEF ClusterFits, Exists
  <2>7. row'[c] = row[c] \/ row'[c] = [row[c] EXCEPT !.status = "FAILED"]
    BY <1>1
  <2>8. row'[c] \in Rows /\ RowFits(row'[c], disk'[c], vms'[c])
    BY <1>2, <2>6, <2>7 DEF ClusterFits, RowFits, Rows, ClusterStatuses
  <2>9. row'[c].status # "APPLYING"
    <3>1. CASE c \in BrokenBy(lost)
      BY <1>1, <2>6, <3>1 DEF Rows
    <3>2. CASE c \notin BrokenBy(lost)
      <4>1. jobs[k].kind \notin FailureKinds /\ row'[c] = row[c]
        BY <1>1, <1>6, <2>6, <3>2 DEF BrokenBy
      <4>2. ~MutatingJob(c)
        BY <2>2, <4>1 DEF MutatingJob, FailureKinds, ActiveStatuses
      <4> QED
        BY <2>6, <4>1, <4>2 DEF ClusterFits
    <3> QED
      BY <3>1, <3>2
  <2>10. Exists(c)' /\ StateFits(disk[c], vms[c])'
    BY <1>2, <2>8 DEF Exists, ClusterFits
  <2> QED
    BY <2>5, <2>8, <2>9, <2>10, QuietFits
<1> QED
  BY <1>5, <1>6

LEMMA FinishKeeps ==
  ASSUME SafetyInv, NEW w \in Workers, FinishJob(w),
         NEW c \in Clusters, ~overtaken[c], ClusterFits(c)
  PROVE  ClusterFits(c)'
<1> USE ConstantsAssumption, NullIsNoRow DEF SafetyInv, QueueInv, TypeInv, TypeOK
<1> DEFINE k == work[w].job
<1>1. UNCHANGED <<disk, vms>> /\ Busy(w) /\ work' = [work EXCEPT ![w] = Resting]
  BY DEF FinishJob, Busy, At
<1>2. ~Busy(w)' /\ \A v \in Workers \ {w} : work'[v] = work[v]
  BY <1>1 DEF Busy, At, Resting
<1>3. CASE work[w].cluster # c
  <2>1. row'[c] = row[c]
    BY <1>3 DEF FinishJob, UpdateRow, SetRow
  <2>2. ASSUME NEW j \in DOMAIN jobs, jobs[j].cluster = c
        PROVE  j \in DOMAIN jobs' /\ (j # k => SameJob(j))
    BY <2>2 DEF FinishJob, SameJob
  <2>3. DOMAIN jobs' = DOMAIN jobs /\ \A j \in DOMAIN jobs \ {k} : jobs'[j] = jobs[j]
    BY DEF FinishJob
  <2>4. k \in DOMAIN jobs => jobs'[k].cluster = jobs[k].cluster /\ jobs'[k].status \in FinalStatuses
    BY DEF FinishJob, FinalStatus, FinalStatuses, Jobs
  <2>5. k \in DOMAIN jobs /\ jobs[k].cluster = c /\ jobs[k].status = "RUNNING" => FALSE
    BY <1>1, <1>3 DEF HoldingInv
  <2> QED
    BY <1>1, <1>2, <2>1, <2>3, <2>4, <2>5, SameForKeeps
    DEF SameFor, SameJob, WorksFor, ActiveStatuses, FinalStatuses
<1>4. CASE work[w].cluster = c
  <2>1. Backed(w) /\ Exists(c) /\ WorkerFits(work[w], row[c], disk[c]) /\ row[c] \in Rows
    BY <1>1, <1>4, WorkerBacked DEF Exists
  <2>2. /\ jobs' = [jobs EXCEPT ![k].status = FinalStatus(work[w].pc)]
        /\ FinalStatus(work[w].pc) \in FinalStatuses
    BY <2>1 DEF FinishJob, Backed, FinalStatus, FinalStatuses
  <2>3. /\ DOMAIN jobs' = DOMAIN jobs /\ \A j \in DOMAIN jobs \ {k} : jobs'[j] = jobs[j]
        /\ jobs'[k].status \in FinalStatuses
    BY <2>1, <2>2 DEF Backed, Jobs
  <2>4. \A j \in DOMAIN jobs : jobs[j].cluster = c /\ jobs[j].status \in ActiveStatuses => j = k
    BY <1>4, <2>1 DEF Backed, AtMostOneActiveJob, ActiveStatuses
  <2>5. ~ActiveJob(c)'
    BY <2>3, <2>4 DEF ActiveJob, JobsOf, ActiveStatuses, FinalStatuses
  <2>6. \A v \in Workers : ~WorksFor(v, c)'
    BY <1>1, <1>2, <1>4, WorksAlone DEF WorksFor, Busy, At
  <2>7. \/ row'[c] = row[c] /\ ~FailsCluster(work[w].pc, work[w].kind)
        \/ row'[c] = [row[c] EXCEPT !.status = "FAILED"]
    BY <1>4, <2>1 DEF FinishJob, Backed, UpdateRow, SetRow
  <2>8. row'[c] \in Rows /\ RowFits(row'[c], disk'[c], vms'[c])
    BY <1>1, <2>1, <2>7 DEF ClusterFits, RowFits, Rows, ClusterStatuses
  <2>9. row'[c].status # "APPLYING"
    <3>1. CASE row'[c] = [row[c] EXCEPT !.status = "FAILED"]
      BY <2>1, <3>1 DEF Rows
    <3>2. CASE row'[c] = row[c] /\ ~FailsCluster(work[w].pc, work[w].kind)
      <4>1. CASE work[w].kind \in MutatingKinds
        <5>1. work[w].pc = "done"
          BY <3>2, <4>1 DEF FailsCluster, FailureKinds, FinishJob
        <5> QED
          BY <2>1, <3>2, <4>1, <5>1 DEF WorkerFits
      <4>2. CASE work[w].kind \notin MutatingKinds
        <5>1. ~MutatingJob(c)
          BY <2>1, <2>4, <4>2 DEF MutatingJob, Backed, ActiveStatuses
        <5> QED
          BY <2>1, <3>2, <5>1 DEF ClusterFits
      <4> QED
        BY <4>1, <4>2
    <3> QED
      BY <2>7, <3>1, <3>2
  <2>10. Exists(c)' /\ StateFits(disk[c], vms[c])'
    BY <1>1, <2>8 DEF Exists, ClusterFits
  <2> QED
    BY <2>5, <2>6, <2>8, <2>9, <2>10, QuietFits DEF Quiet
<1> QED
  BY <1>3, <1>4

-----------------------------------------------------------------------------
(* What a worker does to the cluster of its job.                           *)

LEMMA ExecuteLeaves ==
  ASSUME TypeInv, NEW w \in Workers, ExecuteStep(w), ~FinishJob(w)
  PROVE  /\ UNCHANGED <<jobs, issued>>
         /\ \A c \in Clusters \ {work[w].cluster} :
              row'[c] = row[c] /\ disk'[c] = disk[c] /\ vms'[c] = vms[c]
<1>0. row \in [Clusters -> Rows \union {None}] /\ disk \in [Clusters -> Workspaces]
  BY DEF TypeInv, TypeOK
<1>1. CASE Execute(w) \/ InvalidatePlan(w) \/ CreatePlan(w) \/ RecordPlan(w)
  BY <1>0, <1>1 DEF Execute, InvalidatePlan, CreatePlan, RecordPlan, UpdateRow, SetRow
<1>2. CASE ValidateApply(w) \/ ConsumePlan(w) \/ RecordApply(w) \/ StartAnsible(w)
  BY <1>0, <1>2 DEF ValidateApply, ConsumePlan, RecordApply, StartAnsible, UpdateRow, SetRow
<1>3. CASE TerraformApply(w)
  <2>1. \E file, goal, result, killed, unlink :
          TerraformRun(work[w].cluster, file, goal, result, killed, unlink)
    BY <1>3 DEF TerraformApply
  <2>2. \A c \in Clusters \ {work[w].cluster} : disk'[c] = disk[c] /\ vms'[c] = vms[c]
    BY <2>1, TerraformElsewhere
  <2> QED
    BY <1>3, <2>2 DEF TerraformApply
<1>4. CASE TerraformDestroy(w)
  <2>1. \E file, goal, result, killed, unlink :
          TerraformRun(work[w].cluster, file, goal, result, killed, unlink)
    BY <1>4 DEF TerraformDestroy
  <2>2. \A c \in Clusters \ {work[w].cluster} : disk'[c] = disk[c] /\ vms'[c] = vms[c]
    BY <2>1, TerraformElsewhere
  <2> QED
    BY <1>4, <2>2 DEF TerraformDestroy
<1>5. CASE Provision(w) \/ MarkReady(w) \/ Verify(w) \/ RunManifest(w)
  BY <1>0, <1>5 DEF Provision, MarkReady, Verify, RunManifest, UpdateRow, SetRow
<1>6. CASE ConsumeDestroyPlan(w) \/ RecordDestroy(w)
  BY <1>0, <1>6 DEF ConsumeDestroyPlan, RecordDestroy, UpdateRow, SetRow
<1> QED
  BY <1>1, <1>2, <1>3, <1>4, <1>5, <1>6 DEF ExecuteStep

(* What a worker finds whose cluster no request overtook, ..               *)
Situation(w) ==
  LET c == work[w].cluster IN
  /\ c \in Clusters /\ Busy(w) /\ work[w] \in WorkerHoldings
  /\ row[c] \in Rows /\ row[c] # None /\ disk[c] \in Workspaces
  /\ work[w].hash = row[c].config /\ work[w].hash \in Hashes
  /\ work[w].kind \in {"ANSIBLE", "VERIFY", "MANIFEST"} => row[c].applied = row[c].config
  /\ WorkerFits(work[w], row[c], disk[c])
  /\ StateFits(disk[c], vms[c]) /\ RowFits(row[c], disk[c], vms[c])

(* .. and what it leaves.                                                  *)
Leaves(w) ==
  LET c == work[w].cluster IN
  /\ row'[c] \in Rows /\ row'[c].config = row[c].config
  /\ row'[c].applied = row[c].applied \/ work[w].kind \in {"APPLY", "DESTROY"}
  /\ row'[c].status = "APPLYING" =>
       row[c].status = "APPLYING" \/ work[w].kind \in MutatingKinds
  /\ StateFits(disk'[c], vms'[c]) /\ RowFits(row'[c], disk'[c], vms'[c])
  /\ WorkerFits(work'[w], row'[c], disk'[c])

LEMMA SituationHolds ==
  ASSUME SafetyInv, NEW w \in Workers, Busy(w), ~overtaken[work[w].cluster]
  PROVE  Situation(w)
<1> DEFINE c == work[w].cluster
<1>1. /\ c \in Clusters /\ Exists(c) /\ Backed(w) /\ WorkerFits(work[w], row[c], disk[c])
      /\ JobFits(jobs[work[w].job], row[c])
  BY WorkerBacked
<1>2. ClusterFits(c)
  BY <1>1 DEF SafetyInv, ClusterInv
<1>3. work[w] \in WorkerHoldings /\ work[w].hash \in Hashes
  BY DEF SafetyInv, QueueInv, TypeInv, Busy, At, WorkerHoldings
<1>4. row[c] \in Rows /\ disk[c] \in Workspaces
  BY <1>1 DEF SafetyInv, QueueInv, TypeInv, TypeOK, Exists
<1>5. /\ work[w].hash = row[c].config
      /\ work[w].kind \in {"ANSIBLE", "VERIFY", "MANIFEST"} => row[c].applied = row[c].config
  BY <1>1 DEF Backed, JobFits
<1> QED
  BY <1>1, <1>2, <1>3, <1>4, <1>5 DEF Situation, ClusterFits, Exists

LEMMA LeavesFits ==
  ASSUME SafetyInv, NEW w \in Workers, ExecuteStep(w), ~FinishJob(w),
         NEW c \in Clusters, c = work[w].cluster, ~overtaken[c], Leaves(w)
  PROVE  ClusterFits(c)'
<1> USE ConstantsAssumption, NullIsNoRow
<1>1. c = work[w].cluster /\ ClusterFits(c)
  BY ExecuteContinues, WorkerBacked DEF SafetyInv, QueueInv, ClusterInv
<1>2. /\ Busy(w) /\ Busy(w)' /\ jobs' = jobs
      /\ \A v \in Workers \ {w} : work'[v] = work[v]
      /\ work'[w] = [work[w] EXCEPT !.pc = work'[w].pc]
  BY ExecuteContinues, ExecuteLeaves DEF SafetyInv, QueueInv
<1>3. work'[w].job = work[w].job /\ work'[w].cluster = work[w].cluster
      /\ work'[w].kind = work[w].kind /\ work'[w].hash = work[w].hash
  BY <1>2 DEF SafetyInv, QueueInv, TypeInv, TypeOK, WorkerStates
<1>4. Backed(w) /\ Exists(c) /\ Exists(c)'
  BY <1>1, <1>2, WorkerBacked DEF Leaves, Exists
<1>5. Backed(w)'
  BY <1>2, <1>3, <1>4 DEF Backed
<1>6. /\ StateFits(disk[c], vms[c])' /\ RowFits(row[c], disk[c], vms[c])'
      /\ WorkerFits(work'[w], row'[c], disk'[c])
      /\ row'[c].config = row[c].config
      /\ row'[c].applied = row[c].applied \/ work[w].kind \in {"APPLY", "DESTROY"}
  BY <1>1 DEF Leaves
<1>7. row'[c].status = "APPLYING" => MutatingJob(c)'
  <2>1. work[w].kind \in MutatingKinds => MutatingJob(c)
    BY <1>1, <1>4 DEF Backed, MutatingJob
  <2>2. row[c].status = "APPLYING" => MutatingJob(c)
    BY <1>1, <1>4 DEF ClusterFits
  <2>3. MutatingJob(c) => MutatingJob(c)'
    BY <1>2 DEF MutatingJob
  <2> QED
    BY <1>1, <2>1, <2>2, <2>3 DEF Leaves
<1>8. ASSUME NEW j \in DOMAIN jobs, jobs[j].cluster = c, jobs[j].status \in ActiveStatuses
      PROVE  JobFits(jobs[j], row'[c])
  <2>1. j = work[w].job
    BY <1>1, <1>4, <1>8 DEF Backed, SafetyInv, QueueInv, AtMostOneActiveJob, ActiveStatuses
  <2>2. jobs[j].kind = work[w].kind /\ jobs[j].status = "RUNNING" /\ JobFits(jobs[j], row[c])
    BY <1>1, <1>4, <1>8, <2>1 DEF Backed, ClusterFits
  <2> QED
    BY <1>6, <2>2 DEF JobFits
<1>9. ASSUME NEW v \in Workers, WorksFor(v, c)' PROVE v = w
  <2>1. v # w => WorksFor(v, c)
    BY <1>2, <1>9 DEF WorksFor, Busy, At
  <2> QED
    BY <1>1, <1>2, <2>1, WorksAlone DEF WorksFor
<1> QED
  BY <1>2, <1>4, <1>5, <1>6, <1>7, <1>8, <1>9 DEF ClusterFits

(* Terraform, ending by itself, cancelled, or dying with its worker, keeps *)
(* StateFits.                                                              *)
TerraformEnds(c, file, goal, result) ==
  \/ TerraformRun(c, file, goal, result, FALSE, TRUE)
  \/ TerraformRun(c, file, goal, result, TRUE, TRUE)
  \/ TerraformRun(c, file, goal, result, TRUE, FALSE)

LEMMA TerraformKeeps ==
  ASSUME TypeInv, NEW c \in Clusters, StateFits(disk[c], vms[c]),
         NEW file \in PlanFiles, NEW goal, goal # "absent",
         NEW result \in TerraformStates,
         TerraformEnds(c, file, goal, result)
  PROVE  /\ StateFits(disk'[c], vms'[c])
         /\ disk'[c].inputs = disk[c].inputs /\ disk'[c].state = result
         /\ disk'[c].plan = disk[c].plan \/ disk'[c].plan = None
         /\ disk'[c].kubeconfig = disk[c].kubeconfig
         /\ vms'[c] # vms[c] => vms'[c] \in {goal, "partial", "none"}
<1> USE DEF TypeInv, TypeOK
<1> DEFINE before == disk[c].state
           said(wrote) ==
             IF wrote /\ (Recorded(before) \/ goal # "none") THEN result ELSE vms[c]
<1>1. PICK wrote \in BOOLEAN, left \in Machines :
        /\ IF wrote THEN result \in {goal, "partial"} ELSE result = before
        /\ wrote /\ result = "partial" => Recorded(before) \/ goal # "none"
        /\ left # said(wrote) =>
             Recorded(result) /\ left \in {vms[c], goal, "partial", "none"}
        /\ \E fresh \in SUBSET PlanFiles, destroyPlan \in BOOLEAN, plan \in {disk[c].plan, None} :
             disk' = [disk EXCEPT ![c].state = result, ![c].fresh = fresh, ![c].plan = plan,
                                  ![c].destroyPlan = destroyPlan]
        /\ vms' = [vms EXCEPT ![c] = left]
  <2>1. disk[c].fresh \in SUBSET PlanFiles /\ disk[c].destroyPlan \in BOOLEAN
    BY DEF Workspaces
  <2>2. CASE TerraformRun(c, file, goal, result, FALSE, TRUE)
    BY <2>1, <2>2 DEF TerraformRun
  <2>3. CASE TerraformRun(c, file, goal, result, TRUE, TRUE)
    BY <2>1, <2>3 DEF TerraformRun
  <2>4. CASE TerraformRun(c, file, goal, result, TRUE, FALSE)
    BY <2>1, <2>4 DEF TerraformRun
  <2> QED
    BY <2>2, <2>3, <2>4 DEF TerraformEnds
<1>2. disk[c] \in Workspaces
  OBVIOUS
<1>3. /\ disk'[c].inputs = disk[c].inputs /\ disk'[c].state = result
      /\ disk'[c].kubeconfig = disk[c].kubeconfig
      /\ disk'[c].plan = disk[c].plan \/ disk'[c].plan = None
  BY <1>1, <1>2 DEF Workspaces
<1>4. vms'[c] = left
  BY <1>1
<1>5. vms'[c] # vms[c] => vms'[c] \in {goal, "partial", "none"}
  BY <1>1, <1>4
<1>6. StateFits(disk'[c], vms'[c])
  <2> SUFFICES ASSUME ~Recorded(result) PROVE left = "none"
    BY <1>3, <1>4 DEF StateFits
  <2>1. left = said(wrote)
    BY <1>1
  <2>2. CASE wrote
    <3>1. result = "none" /\ goal = "none"
      BY <1>1, <2>2 DEF Recorded
    <3> QED
      BY <2>1, <2>2, <3>1 DEF StateFits
  <2>3. CASE ~wrote
    BY <1>1, <2>1, <2>3 DEF StateFits
  <2> QED
    BY <2>2, <2>3
<1> QED
  BY <1>3, <1>5, <1>6

LEMMA PlanLeaves ==
  ASSUME TypeInv, NEW w \in Workers, Situation(w),
         InvalidatePlan(w) \/ CreatePlan(w) \/ RecordPlan(w)
  PROVE  Leaves(w)
<1> USE ConstantsAssumption, NullIsNoRow DEF TypeInv, TypeOK
<1> DEFINE c == work[w].cluster
<1>1. /\ c \in Clusters /\ row[c] \in Rows /\ Exists(c) /\ disk[c] \in Workspaces
      /\ work[w] \in WorkerStates /\ work[w].kind \in PlanKinds
      /\ work[w].hash = row[c].config /\ row[c].config \in Hashes
      /\ StateFits(disk[c], vms[c]) /\ RowFits(row[c], disk[c], vms[c])
  BY DEF Situation, Exists, WorkerHoldings, WorkerFits, KindFits, InvalidatePlan, CreatePlan,
         RecordPlan, At
<1>2. ASSUME NEW pc \in WorkerPCs, Goto(w, pc)
      PROVE  work'[w].pc = pc /\ work'[w].kind = work[w].kind /\ work'[w].hash = work[w].hash
  BY <1>1, <1>2 DEF Goto, WorkerStates
<1>3. CASE InvalidatePlan(w)
  <2>1. /\ row'[c] = Invalidated(row[c], work[w].kind) /\ disk' = disk /\ vms' = vms
        /\ work'[w].pc = "plan" /\ work'[w].kind = work[w].kind /\ work'[w].hash = work[w].hash
    BY <1>1, <1>2, <1>3 DEF InvalidatePlan, SetRow, WorkerPCs
  <2>2. /\ row'[c] \in Rows /\ row'[c].config = row[c].config /\ row'[c].applied = row[c].applied
        /\ row'[c].status = row[c].status \/ row'[c].status = "DRAFT"
        /\ row'[c].planned = row[c].planned \/ row'[c].planned = None
    <3>1. CASE work[w].kind = "DESTROY_PLAN"
      BY <1>1, <2>1, <3>1 DEF Invalidated, Rows
    <3>2. CASE work[w].kind # "DESTROY_PLAN"
      <4>1. PICK s \in {row[c].status, "DRAFT"} :
              row'[c] = [row[c] EXCEPT !.planned = None, !.status = s]
        BY <2>1, <3>2 DEF Invalidated
      <4> QED
        BY <1>1, <4>1 DEF Rows, ClusterStatuses
    <3> QED
      BY <3>1, <3>2
  <2>3. disk[c].inputs = work[w].hash
    BY <1>3 DEF Situation, WorkerFits, InvalidatePlan, At, Rendered
  <2>4. RowFits(row'[c], disk'[c], vms'[c])
    BY <1>1, <2>1, <2>2 DEF RowFits
  <2>5. WorkerFits(work'[w], row'[c], disk'[c])
    BY <1>1, <2>1, <2>3 DEF WorkerFits, KindFits, Building, PlanKinds
  <2> QED
    BY <1>1, <2>1, <2>2, <2>4, <2>5 DEF Leaves
<1>4. CASE CreatePlan(w)
  <2>1. row' = row /\ vms' = vms
    BY <1>4 DEF CreatePlan
  <2>2. disk[c].inputs = work[w].hash
    BY <1>4 DEF Situation, WorkerFits, CreatePlan, At, Rendered
  <2>3. \/ /\ disk'[c].plan = disk[c].inputs /\ disk'[c].state = disk[c].state
           /\ work'[w].pc = "record"
        \/ /\ disk'[c].plan = disk[c].plan /\ disk'[c].state = disk[c].state
           /\ work'[w].pc = "record" /\ work[w].kind = "DESTROY_PLAN"
        \/ disk' = disk /\ work'[w].pc \in {"failed", "cancelled"}
    <3>1. ASSUME disk' = [disk EXCEPT ![c].plan = disk[c].inputs,
                                      ![c].fresh = @ \union {"tfplan"}]
          PROVE  disk'[c].plan = disk[c].inputs /\ disk'[c].state = disk[c].state
      BY <1>1, <3>1 DEF Workspaces
    <3>2. ASSUME disk' = [disk EXCEPT ![c].destroyPlan = TRUE,
                                      ![c].fresh = @ \union {"destroy.tfplan"}]
          PROVE  disk'[c].plan = disk[c].plan /\ disk'[c].state = disk[c].state
      BY <1>1, <3>2 DEF Workspaces
    <3>3. Goto(w, "record") => work'[w].pc = "record"
      BY <1>2 DEF WorkerPCs
    <3>4. Breaks(w) => work'[w].pc \in {"failed", "cancelled"}
      BY <1>2 DEF Breaks, NoticesCancel, WorkerPCs
    <3> QED
      BY <1>4, <3>1, <3>2, <3>3, <3>4 DEF CreatePlan
  <2>4. work'[w].kind = work[w].kind /\ work'[w].hash = work[w].hash
    BY <1>2, <1>4 DEF CreatePlan, Breaks, NoticesCancel, WorkerPCs
  <2>5. StateFits(disk'[c], vms'[c]) /\ RowFits(row'[c], disk'[c], vms'[c])
    BY <1>1, <2>1, <2>2, <2>3 DEF RowFits, StateFits
  <2>6. WorkerFits(work'[w], row'[c], disk'[c])
    BY <1>1, <2>1, <2>2, <2>3, <2>4
    DEF WorkerFits, KindFits, Building, Rendered, PlanKinds, MutatingKinds
  <2> QED
    BY <1>1, <2>1, <2>5, <2>6 DEF Leaves
<1>5. CASE RecordPlan(w)
  <2>1. /\ row'[c] = Planned(row[c], work[w].kind, work[w].hash) /\ disk' = disk /\ vms' = vms
        /\ work'[w].pc = "done" /\ work'[w].kind = work[w].kind
    BY <1>1, <1>2, <1>5 DEF RecordPlan, UpdateRow, SetRow, WorkerPCs
  <2>2. work[w].kind = "PLAN" => disk[c].plan = work[w].hash
    BY <1>5 DEF Situation, WorkerFits, RecordPlan, At
  <2>3. /\ row'[c] \in Rows /\ row'[c].config = row[c].config /\ row'[c].applied = row[c].applied
        /\ \/ row'[c].status = row[c].status
           \/ row'[c].status = "PLANNED" /\ row[c].applied # row[c].config
        /\ row'[c].planned = row[c].planned \/ work[w].kind = "PLAN"
    <3>1. CASE work[w].kind = "DESTROY_PLAN"
      BY <1>1, <2>1, <3>1 DEF Planned, Rows
    <3>2. CASE work[w].kind = "PLAN"
      <4> DEFINE s == IF row[c].applied # row[c].config THEN "PLANNED" ELSE row[c].status
      <4>1. row'[c] = [row[c] EXCEPT !.planned = work[w].hash, !.status = s]
        BY <2>1, <3>2 DEF Planned
      <4>2. s \in ClusterStatuses
        BY <1>1 DEF Rows, ClusterStatuses
      <4> QED
        BY <1>1, <3>2, <4>1, <4>2 DEF Rows
    <3> QED
      BY <1>1, <3>1, <3>2 DEF PlanKinds
  <2>4. RowFits(row'[c], disk'[c], vms'[c])
    BY <1>1, <2>1, <2>2, <2>3 DEF RowFits
  <2>5. WorkerFits(work'[w], row'[c], disk'[c])
    BY <1>1, <2>1 DEF WorkerFits, KindFits, Building, Rendered, PlanKinds, MutatingKinds
  <2> QED
    BY <1>1, <2>1, <2>3, <2>4, <2>5 DEF Leaves
<1> QED
  BY <1>3, <1>4, <1>5

(* What the lemmas about single steps start from.                          *)
LEMMA SituationTypes ==
  ASSUME TypeInv, NEW w \in Workers, Situation(w)
  PROVE  LET c == work[w].cluster IN
         /\ c \in Clusters /\ row[c] \in Rows /\ Exists(c) /\ disk[c] \in Workspaces
         /\ work[w] \in WorkerStates /\ work[w].kind \in JobKinds /\ KindFits(work[w])
         /\ work[w].hash = row[c].config /\ row[c].config \in Hashes
         /\ StateFits(disk[c], vms[c]) /\ RowFits(row[c], disk[c], vms[c])
         /\ \A pc \in WorkerPCs : Goto(w, pc) =>
              work'[w].pc = pc /\ work'[w].kind = work[w].kind /\ work'[w].hash = work[w].hash
         /\ Breaks(w) =>
              /\ work'[w].pc \in {"failed", "cancelled"}
              /\ work'[w].kind = work[w].kind /\ work'[w].hash = work[w].hash
<1> DEFINE c == work[w].cluster
<1>1. /\ c \in Clusters /\ row[c] \in Rows /\ Exists(c) /\ disk[c] \in Workspaces
      /\ work[w] \in WorkerStates /\ work[w].kind \in JobKinds /\ KindFits(work[w])
      /\ work[w].hash = row[c].config /\ row[c].config \in Hashes
      /\ StateFits(disk[c], vms[c]) /\ RowFits(row[c], disk[c], vms[c])
  BY DEF Situation, Exists, WorkerHoldings, WorkerFits, Busy, At
<1>2. ASSUME NEW pc \in WorkerPCs, Goto(w, pc)
      PROVE  work'[w].pc = pc /\ work'[w].kind = work[w].kind /\ work'[w].hash = work[w].hash
  BY <1>1, <1>2 DEF Goto, WorkerStates, TypeInv, TypeOK
<1>3. ASSUME Breaks(w)
      PROVE  /\ work'[w].pc \in {"failed", "cancelled"}
             /\ work'[w].kind = work[w].kind /\ work'[w].hash = work[w].hash
  BY <1>2, <1>3 DEF Breaks, NoticesCancel, WorkerPCs
<1> QED
  BY <1>1, <1>2, <1>3

(* A job that ends without having touched the row.                         *)
LEMMA EndLeaves ==
  ASSUME TypeInv, NEW w \in Workers, Situation(w), UNCHANGED row,
         StateFits(disk'[work[w].cluster], vms'[work[w].cluster]),
         RowFits(row[work[w].cluster], disk'[work[w].cluster], vms'[work[w].cluster]),
         \/ work'[w].pc \in {"failed", "cancelled"}
         \/ work'[w].pc = "done" /\ work'[w].kind \notin MutatingKinds
  PROVE  Leaves(w)
BY SituationTypes DEF Leaves, WorkerFits, KindFits, Rendered, Building

LEMMA ExecuteBeginLeaves ==
  ASSUME TypeInv, NEW w \in Workers, Situation(w), work[w].job \in DOMAIN jobs, Execute(w)
  PROVE  Leaves(w)
<1> DEFINE c == work[w].cluster
<1>1. /\ row' = row /\ vms' = vms /\ UpToDate(c, work[w].hash) /\ At(w, "claimed")
      /\ Goto(w, FirstStep(work[w].kind)) \/ Goto(w, "failed")
      /\ IF work[w].kind = "MANIFEST" THEN disk' = disk
           ELSE disk' = [disk EXCEPT ![c].inputs = work[w].hash]
  BY SituationTypes DEF Execute, UpToDate
<1>2. /\ disk'[c].plan = disk[c].plan /\ disk'[c].state = disk[c].state
      /\ work[w].kind # "MANIFEST" => disk'[c].inputs = work[w].hash
  BY <1>1, SituationTypes DEF Workspaces, TypeInv, TypeOK
<1>3. StateFits(disk'[c], vms'[c]) /\ RowFits(row[c], disk'[c], vms'[c])
  BY <1>1, <1>2, SituationTypes DEF StateFits, RowFits
<1>4. CASE Goto(w, "failed")
  <2>1. work'[w].pc = "failed"
    BY <1>4, SituationTypes DEF WorkerPCs
  <2> QED
    BY <1>1, <1>3, <2>1, EndLeaves
<1>5. CASE Goto(w, FirstStep(work[w].kind))
  <2>1. FirstStep(work[w].kind) \in WorkerPCs
    BY SituationTypes DEF FirstStep, WorkerPCs, JobKinds, PlanKinds, FailureKinds, MutatingKinds
  <2>2. /\ work'[w].pc = FirstStep(work[w].kind)
        /\ work'[w].kind = work[w].kind /\ work'[w].hash = work[w].hash
    BY <1>5, <2>1, SituationTypes
  <2>3. work[w].kind = "APPLY" => row[c].planned = row[c].config
    BY <1>1 DEF Situation, WorkerFits, At
  <2>4. WorkerFits(work'[w], row[c], disk'[c])
    <3>1. CASE work[w].kind \in PlanKinds
      <4>1. work'[w].pc = "invalidate"
        BY <2>2, <3>1 DEF FirstStep, PlanKinds
      <4> QED
        BY <1>2, <2>2, <3>1, <4>1 DEF WorkerFits, KindFits, Building, PlanKinds
    <3>2. CASE work[w].kind = "APPLY"
      <4>1. work'[w].pc = "validate"
        BY <2>2, <3>2 DEF FirstStep, PlanKinds
      <4> QED
        BY <1>2, <2>2, <2>3, <3>2, <4>1 DEF WorkerFits, KindFits, Building
    <3>3. CASE work[w].kind = "ANSIBLE"
      <4>1. work'[w].pc = "ansible"
        BY <2>2, <3>3 DEF FirstStep, PlanKinds
      <4> QED
        BY <1>2, <2>2, <3>3, <4>1 DEF WorkerFits, KindFits, Building
    <3>4. CASE work[w].kind \in {"VERIFY", "DESTROY", "MANIFEST"}
      <4>1. /\ work'[w].pc \in {"verify", "consumeDestroy", "manifest"}
            /\ work'[w].pc = "verify" <=> work[w].kind = "VERIFY"
            /\ work'[w].pc = "consumeDestroy" <=> work[w].kind = "DESTROY"
            /\ work'[w].pc = "manifest" <=> work[w].kind = "MANIFEST"
        BY <2>2, <3>4 DEF FirstStep, PlanKinds
      <4> QED
        BY <2>2, <3>4, <4>1 DEF WorkerFits, KindFits, Building, Rendered
    <3> QED
      BY <3>1, <3>2, <3>3, <3>4, SituationTypes DEF JobKinds, FailureKinds, MutatingKinds
  <2> QED
    BY <1>1, <1>3, <2>4, SituationTypes DEF Leaves
<1> QED
  BY <1>1, <1>4, <1>5

LEMMA ApplyLeaves ==
  ASSUME TypeInv, NEW w \in Workers, Situation(w),
         ValidateApply(w) \/ ConsumePlan(w) \/ TerraformApply(w) \/ RecordApply(w)
  PROVE  Leaves(w)
<1> USE ConstantsAssumption, NullIsNoRow
<1> DEFINE c == work[w].cluster
<1>1. /\ c \in Clusters /\ row[c] \in Rows /\ Exists(c) /\ disk[c] \in Workspaces
      /\ work[w].kind = "APPLY" /\ work[w].hash = row[c].config /\ row[c].config \in Hashes
      /\ StateFits(disk[c], vms[c]) /\ RowFits(row[c], disk[c], vms[c])
  BY SituationTypes DEF KindFits, ValidateApply, ConsumePlan, TerraformApply, RecordApply, At
<1>2. row \in [Clusters -> Rows \union {None}]
  BY DEF TypeInv, TypeOK
<1>3. ASSUME NEW pc \in {"consume", "apply", "recordApply", "provision", "failed"}, Goto(w, pc)
      PROVE  work'[w].pc = pc /\ work'[w].kind = "APPLY" /\ work'[w].hash = row[c].config
  BY <1>1, <1>3, SituationTypes DEF WorkerPCs
<1>4. CASE ValidateApply(w)
  <2>1. UNCHANGED <<row, disk, vms>>
    BY <1>4 DEF ValidateApply
  <2>2. row[c].planned = row[c].config /\ disk[c].inputs = row[c].config
    BY <1>1, <1>4 DEF ValidateApply, At, Situation, WorkerFits, Rendered
  <2>3. CASE disk[c].plan # None /\ Goto(w, "consume")
    BY <1>1, <1>3, <2>1, <2>2, <2>3 DEF Leaves, WorkerFits, KindFits, Building
  <2>4. CASE Breaks(w)
    BY <1>1, <2>1, <2>4, SituationTypes, EndLeaves
  <2> QED
    BY <1>4, <2>3, <2>4 DEF ValidateApply
<1>5. CASE ConsumePlan(w)
  <2>1. /\ row'[c] = Consumed(row[c]) /\ UNCHANGED <<disk, vms>> /\ Goto(w, "apply")
    BY <1>1, <1>2, <1>5 DEF ConsumePlan, SetRow
  <2>2. /\ row'[c] \in Rows /\ row'[c].config = row[c].config /\ row'[c].applied = row[c].applied
        /\ row'[c].planned = None /\ row'[c].status = "APPLYING"
    BY <1>1, <2>1 DEF Consumed, Rows, ClusterStatuses
  <2>3. /\ disk[c].plan = row[c].config /\ disk[c].inputs = row[c].config
    BY <1>1, <1>5 DEF ConsumePlan, At, Situation, WorkerFits, Rendered, RowFits
  <2>4. RowFits(row'[c], disk'[c], vms'[c])
    BY <1>1, <2>2 DEF RowFits
  <2>5. WorkerFits(work'[w], row'[c], disk'[c])
    BY <1>3, <2>1, <2>2, <2>3 DEF WorkerFits, KindFits
  <2> QED
    BY <1>1, <2>1, <2>2, <2>4, <2>5 DEF Leaves, MutatingKinds
<1>6. CASE TerraformApply(w)
  <2>1. /\ row' = row /\ row[c].status = "APPLYING" /\ row[c].planned = None
        /\ disk[c].inputs = row[c].config /\ disk[c].plan = row[c].config
    BY <1>1, <1>6 DEF TerraformApply, At, Situation, WorkerFits, Building, Rendered
  <2>2. \E result \in TerraformStates : TerraformEnds(c, "tfplan", disk[c].plan, result)
    BY <1>6 DEF TerraformApply, TerraformEnds
  <2>3. /\ StateFits(disk'[c], vms'[c]) /\ disk'[c].inputs = disk[c].inputs
    <3>1. disk[c].plan # "absent" /\ "tfplan" \in PlanFiles
      BY <1>1, <2>1 DEF PlanFiles
    <3> HIDE DEF c
    <3> QED
      BY <1>1, <2>2, <3>1, TerraformKeeps
  <2>4. RowFits(row'[c], disk'[c], vms'[c])
    BY <1>1, <2>1 DEF RowFits
  <2>5. CASE Goto(w, "recordApply")
    <3>1. WorkerFits(work'[w], row'[c], disk'[c])
      BY <1>3, <2>1, <2>3, <2>5 DEF WorkerFits, KindFits
    <3> QED
      BY <1>1, <2>1, <2>3, <2>4, <3>1 DEF Leaves
  <2>6. CASE Breaks(w)
    BY <2>1, <2>3, <2>4, <2>6, SituationTypes, EndLeaves
  <2> QED
    BY <1>6, <2>5, <2>6 DEF TerraformApply, Breaks
<1>7. CASE RecordApply(w)
  <2>1. /\ row[c].status = "APPLYING" /\ disk[c].inputs = row[c].config /\ UNCHANGED <<disk, vms>>
    BY <1>1, <1>7 DEF RecordApply, At, Situation, WorkerFits, Building, Rendered
  <2>2. CASE UpdateRow(c, [row[c] EXCEPT !.applied = work[w].hash]) /\ Goto(w, "provision")
    <3>1. row'[c] = [row[c] EXCEPT !.applied = row[c].config]
      BY <1>1, <1>2, <2>2 DEF UpdateRow, SetRow
    <3>2. /\ row'[c] \in Rows /\ row'[c].config = row[c].config /\ row'[c].applied = row[c].config
          /\ row'[c].status = "APPLYING" /\ row'[c].planned = row[c].planned
      BY <1>1, <2>1, <3>1 DEF Rows
    <3>3. RowFits(row'[c], disk'[c], vms'[c])
      BY <1>1, <2>1, <3>2 DEF RowFits
    <3>4. WorkerFits(work'[w], row'[c], disk'[c])
      BY <1>3, <2>1, <2>2, <3>2 DEF WorkerFits, KindFits
    <3> QED
      BY <1>1, <2>1, <3>2, <3>3, <3>4 DEF Leaves
  <2>3. CASE Goto(w, "failed") /\ UNCHANGED row
    BY <1>1, <1>3, <2>1, <2>3, EndLeaves
  <2> QED
    BY <1>7, <2>2, <2>3 DEF RecordApply
<1> QED
  BY <1>4, <1>5, <1>6, <1>7

LEMMA RuntimeLeaves ==
  ASSUME TypeInv, NEW w \in Workers, Situation(w),
         StartAnsible(w) \/ Provision(w) \/ MarkReady(w) \/ Verify(w) \/ RunManifest(w)
  PROVE  Leaves(w)
<1> USE ConstantsAssumption, NullIsNoRow
<1> DEFINE c == work[w].cluster
<1>1. /\ c \in Clusters /\ row[c] \in Rows /\ Exists(c) /\ disk[c] \in Workspaces
      /\ work[w].hash = row[c].config /\ row[c].config \in Hashes
      /\ work[w].kind \in JobKinds
      /\ StateFits(disk[c], vms[c]) /\ RowFits(row[c], disk[c], vms[c])
  BY SituationTypes
<1>2. row \in [Clusters -> Rows \union {None}] /\ disk \in [Clusters -> Workspaces]
  BY DEF TypeInv, TypeOK
<1>3. ASSUME NEW pc \in {"provision", "ready", "done", "failed"}, Goto(w, pc)
      PROVE  /\ work'[w].pc = pc /\ work'[w].kind = work[w].kind
             /\ work'[w].hash = row[c].config
  BY <1>1, <1>3, SituationTypes DEF WorkerPCs
<1>4. ASSUME NEW s \in {"APPLYING", "READY"}, row'[c] = [row[c] EXCEPT !.status = s]
      PROVE  /\ row'[c] \in Rows /\ row'[c].config = row[c].config
             /\ row'[c].applied = row[c].applied /\ row'[c].planned = row[c].planned
             /\ row'[c].status = s
  BY <1>1, <1>4 DEF Rows, ClusterStatuses
<1>5. CASE StartAnsible(w)
  <2>1. /\ UNCHANGED <<disk, vms>> /\ Goto(w, "provision")
        /\ row'[c] = [row[c] EXCEPT !.status = "APPLYING"]
    BY <1>1, <1>2, <1>5 DEF StartAnsible, UpdateRow, SetRow
  <2>2. work[w].kind = "ANSIBLE" /\ disk[c].inputs = row[c].config
        /\ row[c].applied = row[c].config
    BY <1>1, <1>5 DEF StartAnsible, At, Situation, WorkerFits, KindFits, Rendered
  <2>3. RowFits(row'[c], disk'[c], vms'[c])
    BY <1>1, <1>4, <2>1 DEF RowFits
  <2>4. WorkerFits(work'[w], row'[c], disk'[c])
    BY <1>3, <1>4, <2>1, <2>2 DEF WorkerFits, KindFits
  <2> QED
    BY <1>1, <1>4, <2>1, <2>2, <2>3, <2>4 DEF Leaves, MutatingKinds
<1>6. CASE Provision(w)
  <2>1. row' = row /\ vms' = vms /\ \E x : disk' = [disk EXCEPT ![c].kubeconfig = x]
    BY <1>6 DEF Provision
  <2>2. disk'[c].plan = disk[c].plan /\ disk'[c].state = disk[c].state
    BY <1>1, <2>1 DEF Workspaces
  <2>3. StateFits(disk'[c], vms'[c]) /\ RowFits(row'[c], disk'[c], vms'[c])
    BY <1>1, <2>1, <2>2 DEF StateFits, RowFits
  <2>4. CASE Goto(w, "ready")
    <3>1. /\ work[w].kind \in {"APPLY", "ANSIBLE"} /\ row[c].status = "APPLYING"
          /\ row[c].applied = row[c].config
      BY <1>6 DEF Provision, At, Situation, WorkerFits, KindFits, Building
    <3>2. WorkerFits(work'[w], row'[c], disk'[c])
      BY <1>3, <2>1, <2>4, <3>1 DEF WorkerFits, KindFits, Rendered
    <3> QED
      BY <1>1, <2>1, <2>3, <3>2 DEF Leaves
  <2>5. CASE Breaks(w)
    BY <2>1, <2>3, <2>5, SituationTypes, EndLeaves
  <2> QED
    BY <1>6, <2>4, <2>5 DEF Provision
<1>7. CASE MarkReady(w)
  <2>1. /\ UNCHANGED <<disk, vms>> /\ Goto(w, "done")
        /\ row'[c] = [row[c] EXCEPT !.status = "READY"]
    BY <1>1, <1>2, <1>7 DEF MarkReady, UpdateRow, SetRow
  <2>2. row[c].applied = row[c].config
    BY <1>7 DEF MarkReady, At, Situation, WorkerFits
  <2>3. RowFits(row'[c], disk'[c], vms'[c])
    BY <1>1, <1>4, <2>1, <2>2 DEF RowFits
  <2>4. WorkerFits(work'[w], row'[c], disk'[c])
    BY <1>3, <1>4, <2>1 DEF WorkerFits, KindFits, Rendered, Building
  <2> QED
    BY <1>1, <1>4, <2>1, <2>3, <2>4 DEF Leaves
<1>8. CASE Verify(w)
  <2>1. UNCHANGED <<disk, vms>> /\ work[w].kind = "VERIFY"
    BY <1>8 DEF Verify, At, Situation, WorkerFits, KindFits
  <2>2. CASE Breaks(w) /\ UNCHANGED row
    BY <1>1, <2>1, <2>2, SituationTypes, EndLeaves
  <2>3. CASE Goto(w, "done") /\ row'[c] = row[c]
    <3>1. WorkerFits(work'[w], row'[c], disk'[c])
      BY <1>3, <2>1, <2>3 DEF WorkerFits, KindFits, Rendered, Building, MutatingKinds
    <3> QED
      BY <1>1, <2>1, <2>3, <3>1 DEF Leaves
  <2>4. CASE /\ Goto(w, "done") /\ row[c].applied = row[c].config
             /\ row'[c] = [row[c] EXCEPT !.status = "READY"]
    <3>1. WorkerFits(work'[w], row'[c], disk'[c])
      BY <1>3, <2>1, <2>4 DEF WorkerFits, KindFits, Rendered, Building, MutatingKinds
    <3>2. RowFits(row'[c], disk'[c], vms'[c])
      BY <1>1, <1>4, <2>1, <2>4 DEF RowFits
    <3> QED
      BY <1>1, <1>4, <2>1, <2>4, <3>1, <3>2 DEF Leaves
  <2> QED
    BY <1>1, <1>2, <1>8, <2>2, <2>3, <2>4 DEF Verify, UpdateRow, SetRow
<1>9. CASE RunManifest(w)
  <2>1. UNCHANGED <<row, disk, vms>> /\ work[w].kind = "MANIFEST"
    BY <1>9 DEF RunManifest, At, Situation, WorkerFits, KindFits
  <2>2. work'[w].pc \in {"failed", "cancelled"} \/ (work'[w].pc = "done" /\ work'[w].kind = "MANIFEST")
    BY <1>3, <1>9, <2>1, SituationTypes DEF RunManifest
  <2> QED
    BY <1>1, <2>1, <2>2, EndLeaves DEF MutatingKinds
<1> QED
  BY <1>5, <1>6, <1>7, <1>8, <1>9

LEMMA DestroyLeaves ==
  ASSUME TypeInv, NEW w \in Workers, Situation(w),
         ConsumeDestroyPlan(w) \/ TerraformDestroy(w) \/ RecordDestroy(w)
  PROVE  Leaves(w)
<1> USE ConstantsAssumption, NullIsNoRow
<1> DEFINE c == work[w].cluster
<1>1. /\ c \in Clusters /\ row[c] \in Rows /\ Exists(c) /\ disk[c] \in Workspaces
      /\ work[w].kind = "DESTROY" /\ work[w].hash = row[c].config /\ row[c].config \in Hashes
      /\ StateFits(disk[c], vms[c]) /\ RowFits(row[c], disk[c], vms[c])
  BY SituationTypes DEF KindFits, ConsumeDestroyPlan, TerraformDestroy, RecordDestroy, At
<1>2. row \in [Clusters -> Rows \union {None}]
  BY DEF TypeInv, TypeOK
<1>3. ASSUME NEW pc \in {"destroy", "recordDestroy", "done", "failed"}, Goto(w, pc)
      PROVE  work'[w].pc = pc /\ work'[w].kind = "DESTROY" /\ work'[w].hash = row[c].config
  BY <1>1, <1>3, SituationTypes DEF WorkerPCs
<1>4. CASE ConsumeDestroyPlan(w)
  <2>1. /\ row'[c] = [row[c] EXCEPT !.destroyPlanned = None, !.status = "APPLYING"]
        /\ UNCHANGED <<disk, vms>> /\ (Goto(w, "destroy") \/ Goto(w, "failed"))
    BY <1>1, <1>2, <1>4 DEF ConsumeDestroyPlan, SetRow
  <2>2. /\ row'[c] \in Rows /\ row'[c].config = row[c].config /\ row'[c].applied = row[c].applied
        /\ row'[c].planned = row[c].planned /\ row'[c].status = "APPLYING"
    BY <1>1, <2>1 DEF Rows, ClusterStatuses
  <2>3. RowFits(row'[c], disk'[c], vms'[c])
    BY <1>1, <2>1, <2>2 DEF RowFits
  <2>4. WorkerFits(work'[w], row'[c], disk'[c])
    BY <1>3, <2>1, <2>2 DEF WorkerFits, KindFits, Rendered
  <2> QED
    BY <1>1, <2>1, <2>2, <2>3, <2>4 DEF Leaves, MutatingKinds
<1>5. CASE TerraformDestroy(w)
  <2>1. row' = row /\ row[c].status = "APPLYING"
    BY <1>5 DEF TerraformDestroy, At, Situation, WorkerFits, Building
  <2>2. PICK result \in TerraformStates :
          /\ \/ TerraformRun(c, "destroy.tfplan", "none", result, FALSE, TRUE)
             \/ TerraformRun(c, "destroy.tfplan", "none", result, TRUE, TRUE)
          /\ (~Recorded(result) /\ Goto(w, "recordDestroy")) \/ Breaks(w)
    BY <1>5 DEF TerraformDestroy, Breaks
  <2>3. /\ StateFits(disk'[c], vms'[c]) /\ disk'[c].state = result
        /\ disk'[c].plan = disk[c].plan \/ disk'[c].plan = None
    <3>1. "destroy.tfplan" \in PlanFiles /\ "none" # "absent"
      BY DEF PlanFiles
    <3>2. TerraformEnds(c, "destroy.tfplan", "none", result)
      BY <2>2 DEF TerraformEnds
    <3>3. c \in Clusters /\ StateFits(disk[c], vms[c])
      BY <1>1
    <3> HIDE DEF c
    <3> QED
      BY <3>1, <3>2, <3>3, TerraformKeeps
  <2>4. RowFits(row'[c], disk'[c], vms'[c])
    BY <1>1, <2>1, <2>3 DEF RowFits
  <2>5. CASE ~Recorded(result) /\ Goto(w, "recordDestroy")
    <3>1. WorkerFits(work'[w], row'[c], disk'[c])
      BY <1>3, <2>1, <2>3, <2>5 DEF WorkerFits, KindFits, Rendered
    <3> QED
      BY <1>1, <2>1, <2>3, <2>4, <3>1 DEF Leaves
  <2>6. CASE Breaks(w)
    BY <2>1, <2>3, <2>4, <2>6, SituationTypes, EndLeaves
  <2> QED
    BY <2>2, <2>5, <2>6
<1>6. CASE RecordDestroy(w)
  <2>1. /\ row'[c] = Destroyed(row[c]) /\ UNCHANGED <<disk, vms>> /\ Goto(w, "done")
    BY <1>1, <1>2, <1>6 DEF RecordDestroy, UpdateRow, SetRow
  <2>2. /\ row'[c] \in Rows /\ row'[c].config = row[c].config
        /\ row'[c].planned = None /\ row'[c].status = "DESTROYED"
    BY <1>1, <2>1 DEF Destroyed, Rows, ClusterStatuses
  <2>3. vms[c] = "none"
    BY <1>1, <1>6 DEF RecordDestroy, At, Situation, WorkerFits, StateFits
  <2>4. RowFits(row'[c], disk'[c], vms'[c])
    BY <1>1, <2>1, <2>2, <2>3 DEF RowFits
  <2>5. WorkerFits(work'[w], row'[c], disk'[c])
    BY <1>3, <2>1, <2>2 DEF WorkerFits, KindFits, Rendered, Building
  <2> QED
    BY <1>1, <2>1, <2>2, <2>4, <2>5 DEF Leaves
<1> QED
  BY <1>4, <1>5, <1>6

(* A terraform run that a crash cuts short leaves the plan where it is.    *)
LEMMA CrashKeeps ==
  ASSUME SafetyInv, NEW w \in Workers, CrashWorker(w),
         NEW c \in Clusters, ~overtaken[c], ClusterFits(c)
  PROVE  ClusterFits(c)'
<1> USE ConstantsAssumption, NullIsNoRow DEF SafetyInv, QueueInv
<1>1. /\ UNCHANGED <<row, jobs>> /\ work' = [work EXCEPT ![w] = Resting]
  BY DEF CrashWorker
<1>2. ~Busy(w)' /\ \A v \in Workers \ {w} : work'[v] = work[v]
  BY <1>1 DEF Busy, At, Resting, TypeInv, TypeOK
<1>3. CASE disk'[c] = disk[c] /\ vms'[c] = vms[c]
  <2>1. \A v \in Workers : WorksFor(v, c)' => work'[v] = work[v]
    BY <1>2 DEF WorksFor
  <2> QED
    BY <1>1, <1>3, <2>1, SameForKeeps DEF SameFor, SameJob
<1>4. CASE work[w].cluster # c
  <2>1. \/ disk' = disk /\ vms' = vms
        \/ \E file, goal, result, killed, unlink :
             TerraformRun(work[w].cluster, file, goal, result, killed, unlink)
    BY DEF CrashWorker
  <2>2. disk'[c] = disk[c] /\ vms'[c] = vms[c]
    BY <1>4, <2>1, TerraformElsewhere
  <2> QED
    BY <1>3, <2>2
<1>5. CASE work[w].cluster = c /\ (At(w, "apply") \/ At(w, "destroy"))
  <2>1. Busy(w) /\ Situation(w)
    BY <1>5, SituationHolds DEF Busy, At
  <2>2. /\ StateFits(disk[c], vms[c]) /\ row[c] \in Rows /\ Exists(c)
        /\ disk[c].plan = None \/ disk[c].plan \in Hashes
    BY <1>5, <2>1, SituationTypes DEF Workspaces
  <2>3. row[c].status = "APPLYING" /\ (At(w, "apply") => disk[c].plan \in Hashes)
    BY <1>5, <2>1 DEF Situation, WorkerFits, Building, At
  <2>4. /\ StateFits(disk'[c], vms'[c])
        /\ disk'[c].plan = disk[c].plan \/ disk'[c].plan = None
    <3>1. CASE At(w, "apply")
      <4>1. PICK result \in TerraformStates :
              TerraformRun(c, "tfplan", disk[c].plan, result, TRUE, FALSE)
        BY <1>5, <3>1 DEF CrashWorker, At
      <4>2. disk[c].plan # "absent" /\ "tfplan" \in PlanFiles
        BY <2>3, <3>1 DEF PlanFiles
      <4> QED
        BY <2>2, <4>1, <4>2, TerraformKeeps DEF TerraformEnds
    <3>2. CASE At(w, "destroy")
      <4>1. PICK result \in TerraformStates :
              TerraformRun(c, "destroy.tfplan", "none", result, TRUE, FALSE)
        BY <1>5, <3>2 DEF CrashWorker, At
      <4>2. "none" # "absent" /\ "destroy.tfplan" \in PlanFiles
        BY DEF PlanFiles
      <4> QED
        BY <2>2, <4>1, <4>2, TerraformKeeps DEF TerraformEnds
    <3> QED
      BY <1>5, <3>1, <3>2
  <2>5. RowFits(row[c], disk[c], vms[c]) => RowFits(row'[c], disk'[c], vms'[c])
    BY <1>1, <2>3, <2>4 DEF RowFits
  <2>6. \A v \in Workers : ~WorksFor(v, c)'
    BY <1>1, <1>2, <1>5, <2>1, WorksAlone DEF WorksFor, Busy, At
  <2>7. Exists(c)' /\ (MutatingJob(c) => MutatingJob(c)')
    BY <1>1, <2>2 DEF Exists, MutatingJob
  <2> QED
    BY <1>1, <2>2, <2>4, <2>5, <2>6, <2>7 DEF ClusterFits
<1>6. CASE ~At(w, "apply") /\ ~At(w, "destroy")
  BY <1>3, <1>6 DEF CrashWorker
<1> QED
  BY <1>4, <1>5, <1>6

-----------------------------------------------------------------------------
(* The inductive invariant holds.                                          *)

LEMMA ExecuteKeeps ==
  ASSUME SafetyInv, NEW w \in Workers, ExecuteStep(w),
         NEW c \in Clusters, ~overtaken[c], ClusterFits(c)
  PROVE  ClusterFits(c)'
<1> USE DEF SafetyInv, QueueInv
<1>1. CASE FinishJob(w)
  BY <1>1, FinishKeeps
<1>2. CASE ~FinishJob(w) /\ work[w].cluster # c
  <2>1. /\ row'[c] = row[c] /\ disk'[c] = disk[c] /\ vms'[c] = vms[c] /\ jobs' = jobs
        /\ \A v \in Workers \ {w} : work'[v] = work[v]
    BY <1>2, ExecuteLeaves, ExecuteContinues
  <2>2. work'[w].cluster = work[w].cluster
    <3>1. work'[w] = [work[w] EXCEPT !.pc = work'[w].pc] /\ work[w] \in WorkerStates
      BY <1>2, ExecuteContinues DEF TypeInv, TypeOK
    <3> QED
      BY <3>1 DEF WorkerStates
  <2>3. \A v \in Workers : WorksFor(v, c)' => work'[v] = work[v]
    BY <1>2, <2>1, <2>2 DEF WorksFor
  <2> QED
    BY <2>1, <2>3, SameForKeeps DEF SameFor, SameJob
<1>3. CASE ~FinishJob(w) /\ work[w].cluster = c
  <2>1. Busy(w)
    BY <1>3, ExecuteContinues
  <2>2. Situation(w) /\ work[w].job \in DOMAIN jobs
    BY <1>3, <2>1, SituationHolds, WorkerBacked DEF Backed
  <2>3. Leaves(w)
    BY <1>3, <2>2, ExecuteBeginLeaves, PlanLeaves, ApplyLeaves, RuntimeLeaves, DestroyLeaves
    DEF ExecuteStep
  <2> QED
    BY <1>3, <2>3, LeavesFits
<1> QED
  BY <1>1, <1>2, <1>3

LEMMA ClusterInvStep ==
  ASSUME SafetyInv, NoStall, [Next]_vars
  PROVE  ClusterInv'
<1> USE DEF SafetyInv, QueueInv
<1>1. SUFFICES ASSUME NEW c \in Clusters, ~overtaken'[c] PROVE ClusterFits(c)'
  BY DEF ClusterInv
<1>2. ~overtaken[c] /\ ClusterFits(c)
  BY <1>1, OvertakenStays DEF ClusterInv
<1>3. CASE UNCHANGED vars \/ CrashWeb \/ \E d \in Clusters : PruneJobs(d)
  BY <1>2, <1>3, ReadersKeep, SameForKeeps
<1>4. ASSUME NEW h \in Requests, NewRequest(h) \/ RequestStep(h) PROVE ClusterFits(c)'
  <2>1. CASE NewRequest(h) \/ LockCluster(h) \/ CheckQueue(h) \/ ProbeVMs(h)
             \/ UnlinkKubeconfig(h)
    BY <1>2, <2>1, ReadersKeep, SameForKeeps
  <2>2. CASE WriteCancel(h)
    BY <1>1, <1>2, <2>2, CancelKeeps, SameForKeeps
  <2>3. CASE RenderEdit(h) \/ CommitEdit(h)
    BY <1>1, <1>2, <2>3, EditKeeps
  <2>4. CASE RemoveWorkspace(h) \/ DeleteRow(h)
    BY <1>1, <1>2, <2>4, DeleteKeeps
  <2>5. CASE InsertJob(h)
    BY <1>1, <1>2, <2>5, InsertKeeps
  <2> QED
    BY <1>4, <2>1, <2>2, <2>3, <2>4, <2>5 DEF RequestStep
<1>5. ASSUME NEW w \in Workers, WorkerStep(w) \/ CrashWorker(w) PROVE ClusterFits(c)'
  <2>1. CASE RecoverStaleJobs(w)
    BY <1>2, <2>1, RecoveryKeeps
  <2>2. CASE ClaimJob(w)
    BY <1>2, <2>2, ClaimTakesSelected, ClaimKeeps
  <2>3. CASE ExecuteStep(w)
    BY <1>2, <2>3, ExecuteKeeps
  <2>4. CASE CrashWorker(w)
    BY <1>2, <2>4, CrashKeeps
  <2>5. CASE SelectJob(w)
    BY <1>2, <2>5, ReadersKeep, SameForKeeps
  <2> QED
    BY <1>5, <2>1, <2>2, <2>3, <2>4, <2>5 DEF WorkerStep
<1> QED
  BY <1>3, <1>4, <1>5 DEF Next

LEMMA InitSafety == Init => SafetyInv
<1> USE ConstantsAssumption, NullIsNoRow
<1> SUFFICES ASSUME Init PROVE SafetyInv
  OBVIOUS
<1>2. DOMAIN jobs = {} /\ issued = 0
  BY DEF Init
<1>3. QueueInv
  BY InitQueueInv
<1>4. \A w \in Workers : ~Busy(w)
  BY DEF Init, Busy, At, Resting
<1>5. HoldingInv
  BY <1>4 DEF HoldingInv
<1>6. RequestInv
  BY DEF Init, RequestInv, RequestFits, Writing, Serving, Idle
<1>7. ASSUME NEW c \in Clusters PROVE ClusterFits(c)
  <2>1. PICK saved \in [Clusters -> Hashes] :
          /\ row = [d \in Clusters |->
               [status |-> "DRAFT", config |-> saved[d], planned |-> None,
                destroyPlanned |-> None, applied |-> None]]
          /\ disk = [d \in Clusters |-> [EmptyWorkspace EXCEPT !.inputs = saved[d]]]
          /\ vms = [d \in Clusters |-> "none"]
    BY DEF Init
  <2>2. row[c].status = "DRAFT" /\ row[c].planned = None /\ row[c].config \in Hashes
        /\ row[c] \in Rows
    BY <2>1 DEF Rows, ClusterStatuses
  <2>3. disk[c].state = "absent" /\ disk[c].plan = None /\ vms[c] = "none"
    BY <2>1 DEF EmptyWorkspace
  <2> QED
    BY <1>2, <1>4, <2>2, <2>3 DEF ClusterFits, StateFits, RowFits, Exists, WorksFor
<1> QED
  BY <1>3, <1>5, <1>6, <1>7 DEF SafetyInv, ClusterInv

LEMMA SafetyInvStep ==
  ASSUME NoStall, SafetyInv, [Next]_vars
  PROVE  SafetyInv'
<1>1. QueueInv'
  BY QueueInvStep DEF SafetyInv
<1> QED
  BY <1>1, HoldingInvStep, RequestInvStep, ClusterInvStep DEF SafetyInv

LEMMA SafetyInvariant ==
  ASSUME NoStall
  PROVE  Spec => []SafetyInv
<1>1. Init => SafetyInv
  BY InitSafety
<1>2. SafetyInv /\ [Next]_vars => SafetyInv'
  BY SafetyInvStep
<1> QED
  BY <1>1, <1>2, PTL DEF Spec

-----------------------------------------------------------------------------
(* The safety properties of ClusterJobs.                                   *)

(* No two workers ever execute jobs of one cluster, however many workers   *)
(* claim, crash and recover (worker.py: claim_job, recover_stale_running_  *)
(* jobs), unless a slow worker is given up for dead or a request of the    *)
(* cluster was overtaken.                                                  *)
THEOREM OneWorkerPerCluster == Spec => []ExclusiveExecution
<1>1. CASE NoStall
  <2>1. SafetyInv => ExclusiveExecution
    BY WorksAlone DEF ExclusiveExecution
  <2> QED
    BY <1>1, <2>1, SafetyInvariant, PTL
<1>2. CASE ~NoStall
  <2>1. ExclusiveExecution
    BY <1>2 DEF NoStall, ExclusiveExecution
  <2> QED
    BY <2>1, PTL
<1> QED
  BY <1>1, <1>2

(* The plan file of an authorised row is the plan of the saved             *)
(* configuration: queue_job's comparison of hashes (services.py:357) is    *)
(* enough, whatever is edited, planned again or crashes.                   *)
THEOREM AuthorisedPlan ==
  ASSUME NoStall
  PROVE  Spec => []AuthorisedPlanIsCurrent
<1>1. SafetyInv => AuthorisedPlanIsCurrent
  BY DEF SafetyInv, ClusterInv, ClusterFits, RowFits, AuthorisedPlanIsCurrent
<1> QED
  BY <1>1, SafetyInvariant, PTL

(* A cluster shown as DESTROYED has none of the machines terraform ever    *)
(* recorded for it, although its last runs may have been killed in the     *)
(* middle (worker.py:117, worker.py:1245-1256).  Machines a killed         *)
(* terraform made and never recorded may be left: orphans.                 *)
THEOREM DestroyedIsReleased ==
  ASSUME NoStall
  PROVE  Spec => []DestroyedHasNoRecordedVMs
<1>1. SafetyInv => DestroyedHasNoRecordedVMs
  BY DEF SafetyInv, ClusterInv, ClusterFits, RowFits, DestroyedHasNoRecordedVMs
<1> QED
  BY <1>1, SafetyInvariant, PTL

(* READY is only shown while the row says that the saved configuration was *)
(* applied: MarkReady and Verify compare again, after every edit between   *)
(* them and the apply.  It is a statement about the hashes in the row.     *)
THEOREM ReadyMatchesHashes ==
  ASSUME NoStall
  PROVE  Spec => []ReadyMatchesApplied
<1>1. SafetyInv => ReadyMatchesApplied
  <2> SUFFICES ASSUME SafetyInv, NEW c \in Clusters, Exists(c), row[c].status = "READY",
                      ~overtaken[c]
               PROVE  RuntimeCurrent(row[c])
    BY DEF ReadyMatchesApplied
  <2>1. row[c].applied = row[c].config
    BY DEF SafetyInv, ClusterInv, ClusterFits, RowFits
  <2>2. row[c].config \in Hashes
    BY DEF SafetyInv, QueueInv, TypeInv, TypeOK, Exists, Rows
  <2> QED
    BY <2>1, <2>2, ConstantsAssumption DEF RuntimeCurrent
<1> QED
  BY <1>1, SafetyInvariant, PTL

(* A cluster in APPLYING has a RUNNING job, which ends or is recovered: no *)
(* crash leaves it APPLYING with nothing to end that.                      *)
THEOREM ApplyingIsBacked ==
  ASSUME NoStall
  PROVE  Spec => []ApplyingHasJob
<1>1. SafetyInv => ApplyingHasJob
  BY DEF SafetyInv, ClusterInv, ClusterFits, MutatingJob, ApplyingHasJob, JobsOf
<1> QED
  BY <1>1, SafetyInvariant, PTL

(* Saving a cluster never removes its record.                              *)
LEMMA EditKeepsRow ==
  ASSUME TypeInv, NEW h \in Requests, CommitEdit(h), NEW d \in Clusters, Exists(d)
  PROVE  row'[d] # None
<1> USE DEF TypeInv, TypeOK
<1>1. PICK c, loaded, new :
        /\ c \in Clusters /\ loaded \in Rows /\ new \in Hashes
        /\ \/ Exists(c) /\ row' = [row EXCEPT ![c] = Flush(c, loaded, Edited(loaded, new))]
           \/ row' = row
  BY DEF CommitEdit, Serving, RequestsServed
<1>2. Edited(loaded, new) \in Rows
  BY <1>1 DEF Edited, Rows, ClusterStatuses
<1>3. Exists(c) => Flush(c, loaded, Edited(loaded, new)) \in Rows
  BY <1>1, <1>2 DEF Flush, Rows, Exists
<1> QED
  BY <1>1, <1>3, NullIsNoRow DEF Exists

(* What the step that deletes a record finds.                              *)
LEMMA DeletionFinds ==
  ASSUME SafetyInv, [Next]_vars, NEW c \in Clusters, Exists(c), ~Exists(c)', ~overtaken'[c]
  PROVE  row[c].status = "DESTROYED" \/ orphans[c] \intersect {row[c].config, row[c].applied} = {}
<1> USE ConstantsAssumption, NullIsNoRow DEF SafetyInv, QueueInv
<1>1. row[c] # None /\ row'[c] = None
  BY DEF Exists
<1>2. \A w \in Workers : ~(WorkerStep(w) \/ CrashWorker(w))
  <2> SUFFICES ASSUME NEW w \in Workers, WorkerStep(w) \/ CrashWorker(w) PROVE FALSE
    OBVIOUS
  <2>a. [row[c] EXCEPT !.status = "FAILED"] # None
    BY <1>1 DEF TypeInv, TypeOK, Rows, ClusterStatuses
  <2>1. CASE RecoverStaleJobs(w)
    BY <1>1, <2>a, <2>1 DEF RecoverStaleJobs
  <2>2. CASE FinishJob(w)
    <3>1. work[w].cluster \in Clusters /\ row \in [Clusters -> Rows \union {None}]
      BY <2>2 DEF FinishJob, TypeInv, TypeOK, WorkerHoldings
    <3> QED
      BY <1>1, <2>a, <2>2, <3>1 DEF FinishJob, UpdateRow, SetRow
  <2>3. CASE SelectJob(w) \/ ClaimJob(w) \/ CrashWorker(w)
    BY <1>1, <2>3 DEF SelectJob, ClaimJob, CrashWorker
  <2>4. CASE ExecuteStep(w) /\ ~FinishJob(w)
    <3>1. work[w].cluster = c
      BY <1>1, <2>4, ExecuteLeaves
    <3>2. Busy(w) /\ ~overtaken[c]
      BY <2>4, ExecuteContinues, OvertakenStays
    <3>3. Situation(w) /\ work[w].job \in DOMAIN jobs
      BY <3>1, <3>2, SituationHolds, WorkerBacked DEF Backed
    <3>4. Leaves(w)
      BY <2>4, <3>3, ExecuteBeginLeaves, PlanLeaves, ApplyLeaves, RuntimeLeaves, DestroyLeaves
      DEF ExecuteStep
    <3> QED
      BY <1>1, <3>1, <3>4 DEF Leaves
  <2> QED
    BY <2>1, <2>2, <2>3, <2>4 DEF WorkerStep
<1>3. PICK h \in Requests : NewRequest(h) \/ RequestStep(h)
  BY <1>1, <1>2 DEF Next, vars, CrashWeb, PruneJobs
<1>4. DeleteRow(h) /\ req[h].cluster = c
  <2>1. CommitEdit(h) => row'[c] # None
    BY <1>1, EditKeepsRow
  <2>2. row' = row \/ CommitEdit(h) \/ DeleteRow(h)
    BY <1>3 DEF NewRequest, BeginEdit, BeginDelete, StartJob, ReadForCancel,
      RequestStep, RenderEdit, UnlinkKubeconfig, WriteCancel, ProbeVMs, RemoveWorkspace,
      LockCluster, CheckQueue, InsertJob
  <2>3. DeleteRow(h) => \E d \in Clusters :
          req[h].cluster = d /\ row' = [row EXCEPT ![d] = None]
    BY DEF DeleteRow, Serving, TypeInv, RequestsServed
  <2>4. row \in [Clusters -> Rows \union {None}]
    BY DEF TypeInv, TypeOK
  <2> QED
    BY <1>1, <2>1, <2>2, <2>3, <2>4
<1>5. Writing(h) /\ req[h].pc = "delete" /\ NoteOvertaken(c, Outdated(h))
  BY <1>4 DEF DeleteRow, Serving, Writing
<1>6. ~overtaken[c] /\ ~Outdated(h)
  BY <1>5, NoteOvertakenMeans DEF Outdated
<1>7. MayDelete(c, row[c])
  BY <1>4, <1>5, <1>6, WritesToQuiet
<1> QED
  BY <1>7 DEF MayDelete

(* A record is only deleted when no worker and none of the machines that   *)
(* terraform recorded is left, and, unless it is DESTROYED, no orphan with *)
(* a VM id of the saved or the applied configuration (delete_cluster,      *)
(* main.py:891-897); and none of them appears afterwards.                  *)
THEOREM NothingRecordedIsLeft ==
  ASSUME NoStall
  PROVE  Spec => DeletedLeavesNothing
<1>1. ASSUME SafetyInv, SafetyInv', [Next]_vars, NEW c \in Clusters, ~Exists(c)', ~overtaken'[c]
      PROVE  /\ vms'[c] = "none" /\ \A w \in Workers : Busy(w)' => work'[w].cluster # c
             /\ \/ ~Exists(c) \/ row[c].status = "DESTROYED"
                \/ orphans[c] \intersect {row[c].config, row[c].applied} = {}
  <2>1. vms'[c] = "none"
    BY <1>1 DEF SafetyInv, ClusterInv, ClusterFits
  <2>2. ASSUME NEW w \in Workers, Busy(w)', work'[w].cluster = c PROVE FALSE
    BY <1>1, <2>2 DEF SafetyInv, ClusterInv, ClusterFits, WorksFor, Backed, ActiveStatuses
  <2> QED
    BY <1>1, <2>1, <2>2, DeletionFinds
<1>2. SafetyInv /\ SafetyInv' /\ [Next]_vars =>
        [\A c \in Clusters :
           ~Exists(c)' /\ ~overtaken'[c] =>
             /\ vms'[c] = "none" /\ \A w \in Workers : Busy(w)' => work'[w].cluster # c
             /\ \/ ~Exists(c) \/ row[c].status = "DESTROYED"
                \/ orphans[c] \intersect {row[c].config, row[c].applied} = {}]_vars
  BY <1>1
<1> QED
  BY <1>2, SafetyInvariant, PTL DEF Spec, DeletedLeavesNothing

(* What terraform, or a crash in the middle of it, may make of the         *)
(* machines of a cluster.                                                  *)
LEMMA MachinesBuilt ==
  ASSUME SafetyInv, [Next]_vars, NEW c \in Clusters, ~overtaken[c],
         vms'[c] # vms[c], vms'[c] \in Hashes
  PROVE  /\ Exists(c) /\ vms'[c] = row[c].config
         /\ row[c].planned = None /\ row[c].status = "APPLYING"
<1> USE ConstantsAssumption DEF SafetyInv, QueueInv
<1>1. PICK w \in Workers :
        WorksFor(w, c) /\ (TerraformApply(w) \/ TerraformDestroy(w) \/ CrashWorker(w))
  BY MachinesStep
<1>2. work[w].cluster = c /\ Busy(w) /\ Situation(w)
  BY <1>1, SituationHolds DEF WorksFor
<1>3. StateFits(disk[c], vms[c]) /\ Exists(c) /\ work[w].hash = row[c].config
  BY <1>2, SituationTypes
<1>4. /\ At(w, "apply")
      /\ \E result \in TerraformStates : TerraformEnds(c, "tfplan", disk[c].plan, result)
  <2>1. ~\E result \in TerraformStates : TerraformEnds(c, "destroy.tfplan", "none", result)
    <3>1. "none" # "absent" /\ "destroy.tfplan" \in PlanFiles
      BY DEF PlanFiles
    <3>2. vms'[c] \notin {"none", "partial"}
      OBVIOUS
    <3> QED
      BY <1>3, <3>1, <3>2, TerraformKeeps
  <2>2. ~TerraformDestroy(w)
    BY <1>2, <2>1 DEF TerraformDestroy, TerraformEnds
  <2>3. CrashWorker(w) => At(w, "apply") \/ At(w, "destroy") \/ vms' = vms
    BY DEF CrashWorker, machines
  <2>4. ~(CrashWorker(w) /\ At(w, "destroy"))
    BY <1>2, <2>1 DEF CrashWorker, TerraformEnds, At
  <2>5. CrashWorker(w) /\ At(w, "apply") =>
          \E result \in TerraformStates : TerraformEnds(c, "tfplan", disk[c].plan, result)
    BY <1>2 DEF CrashWorker, TerraformEnds, At
  <2>6. TerraformApply(w) => /\ At(w, "apply")
          /\ \E result \in TerraformStates : TerraformEnds(c, "tfplan", disk[c].plan, result)
    BY <1>2 DEF TerraformApply, TerraformEnds
  <2> QED
    BY <1>1, <2>2, <2>3, <2>4, <2>5, <2>6
<1>5. /\ disk[c].plan = row[c].config /\ row[c].config \in Hashes
      /\ row[c].planned = None /\ row[c].status = "APPLYING"
  BY <1>2, <1>3, <1>4 DEF Situation, WorkerFits, Building, At
<1>6. vms'[c] \in {disk[c].plan, "partial", "none"}
  <2>1. disk[c].plan # "absent" /\ "tfplan" \in PlanFiles
    BY <1>5 DEF PlanFiles
  <2> QED
    BY <1>3, <1>4, <2>1, TerraformKeeps
<1> QED
  BY <1>3, <1>5, <1>6

(* Exactly the reviewed plan is applied, and its authorisation is consumed *)
(* before a machine changes (BUILDER.md:188), also when the worker dies    *)
(* while terraform runs.                                                   *)
THEOREM ReviewedPlanIsBuilt ==
  ASSUME NoStall
  PROVE  Spec => BuildsReviewedPlan
<1>1. SafetyInv /\ [Next]_vars =>
        [\A c \in Clusters :
           /\ vms'[c] # vms[c] /\ vms'[c] \in Hashes /\ ~overtaken[c]
           => /\ Exists(c)
              /\ vms'[c] = row[c].config
              /\ row[c].planned = None /\ row[c].status = "APPLYING"]_vars
  BY MachinesBuilt
<1> QED
  BY <1>1, SafetyInvariant, PTL DEF Spec, BuildsReviewedPlan

-----------------------------------------------------------------------------
(* The kubeconfig.  The commit of an edit and the removal of the old       *)
(* kubeconfig are two steps; a crash of the web process between them       *)
(* leaves the old file until the next edit is finished, the workspace is   *)
(* removed or the cluster is provisioned again.                            *)

Unlinking(c) == \E h \in Requests : Serving(h, "unlink") /\ req[h].cluster = c

(* A step that can change neither side of the comparison.                  *)
SameKubeconfig(c) ==
  /\ disk'[c].kubeconfig = disk[c].kubeconfig
  /\ Exists(c)' => Exists(c) /\ row'[c].config = row[c].config

LEMMA UnlinkGoesOn ==
  ASSUME TypeInv, [Next]_vars, NEW c \in Clusters, Unlinking(c)
  PROVE  Unlinking(c)' \/ disk'[c].kubeconfig = None \/ abandoned'[c]
<1>1. PICK h \in Requests : Serving(h, "unlink") /\ req[h].cluster = c
  BY DEF Unlinking
<1>2. CASE req'[h] = req[h]
  BY <1>1, <1>2 DEF Unlinking, Serving
<1>3. CASE CrashWeb
  BY <1>1, <1>3 DEF CrashWeb
<1>4. CASE req'[h] # req[h] /\ ~CrashWeb
  <2>1. ~(UNCHANGED vars \/ \E d \in Clusters : PruneJobs(d)) /\ ~CrashWeb
    BY <1>4 DEF vars, PruneJobs
  <2>2. \E g \in Requests : NewRequest(g) \/ RequestStep(g)
    BY <1>4, <2>1, WorkerLeavesRequests DEF Next
  <2>3. NewRequest(h) \/ RequestStep(h)
    BY <1>4, <2>2, OneRequestMoves
  <2>4. UnlinkKubeconfig(h)
    BY <1>1, <2>3 DEF NewRequest, BeginEdit, BeginDelete, StartJob, ReadForCancel, RequestStep,
                      RenderEdit, CommitEdit, WriteCancel, ProbeVMs, RemoveWorkspace, DeleteRow,
                      LockCluster, CheckQueue, InsertJob, Serving
  <2> QED
    BY <1>1, <2>4 DEF UnlinkKubeconfig, TypeInv, TypeOK, Workspaces
<1> QED
  BY <1>2, <1>3, <1>4

(* What ends the time in which the file an edit left behind may be there.  *)
LEMMA AbandonedUntilMended ==
  ASSUME SafetyInv, [Next]_vars, NEW c \in Clusters, abandoned[c], ~abandoned'[c], ~overtaken'[c]
  PROVE  disk'[c].kubeconfig = None \/ disk'[c].kubeconfig = row'[c].config
<1> USE DEF SafetyInv, QueueInv, TypeInv, TypeOK
<1>1. ~overtaken[c]
  BY OvertakenStays
<1>2. ASSUME NEW h \in Requests, NewRequest(h) \/ RequestStep(h)
      PROVE  disk'[c].kubeconfig = None
  <2>1. UnlinkKubeconfig(h) \/ RemoveWorkspace(h)
    BY <1>2 DEF NewRequest, BeginEdit, BeginDelete, StartJob, ReadForCancel, RequestStep,
                RenderEdit, CommitEdit, WriteCancel, ProbeVMs, DeleteRow, LockCluster, CheckQueue,
                InsertJob
  <2>2. req[h].cluster = c
    BY <2>1 DEF UnlinkKubeconfig, RemoveWorkspace
  <2>3. CASE UnlinkKubeconfig(h)
    BY <2>2, <2>3 DEF UnlinkKubeconfig, Workspaces
  <2>4. CASE RemoveWorkspace(h)
    BY <2>2, <2>4 DEF RemoveWorkspace, EmptyWorkspace
  <2> QED
    BY <2>1, <2>3, <2>4
<1>3. ASSUME NEW w \in Workers, WorkerStep(w) \/ CrashWorker(w)
      PROVE  disk'[c].kubeconfig = row'[c].config
  <2>1. Provision(w) /\ work[w].cluster = c
    BY <1>3, WorkerAbandons
  <2>2. Busy(w) /\ Situation(w)
    BY <1>1, <2>1, SituationHolds DEF Provision, Busy, At
  <2>3. /\ disk[c].inputs = row[c].config /\ work[w].hash = row[c].config
        /\ disk[c] \in Workspaces
    BY <2>1, <2>2 DEF Situation, WorkerFits, Provision, At, Rendered
  <2>4. PICK kubeconfig \in {disk[c].inputs, work[w].hash} :
          disk' = [disk EXCEPT ![c].kubeconfig = kubeconfig]
    BY <2>1 DEF Provision
  <2>5. disk'[c].kubeconfig = kubeconfig /\ row' = row
    BY <2>1, <2>3, <2>4 DEF Workspaces, Provision
  <2> QED
    BY <2>3, <2>4, <2>5
<1>4. ~(UNCHANGED vars \/ CrashWeb \/ \E d \in Clusters : PruneJobs(d))
  BY DEF vars, CrashWeb, PruneJobs
<1> QED
  BY <1>2, <1>3, <1>4 DEF Next

LEMMA KubeconfigOfRequest ==
  ASSUME SafetyInv, NEW h \in Requests, NewRequest(h) \/ RequestStep(h),
         NEW c \in Clusters, ~overtaken'[c]
  PROVE  SameKubeconfig(c) \/ disk'[c].kubeconfig = None \/ Unlinking(c)'
<1> USE ConstantsAssumption, NullIsNoRow DEF SafetyInv, QueueInv, TypeInv, TypeOK
<1>1. CASE UNCHANGED <<row, disk>>
  BY <1>1 DEF SameKubeconfig, Exists
<1>2. CASE \/ NewRequest(h) \/ LockCluster(h) \/ CheckQueue(h) \/ InsertJob(h)
           \/ WriteCancel(h) \/ ProbeVMs(h)
  BY <1>1, <1>2 DEF NewRequest, BeginEdit, BeginDelete, StartJob, ReadForCancel, LockCluster,
                    CheckQueue, InsertJob, WriteCancel, ProbeVMs
<1>3. CASE RenderEdit(h)
  <2>1. row' = row /\ (disk' = disk \/ \E x : disk' = [disk EXCEPT ![req[h].cluster].inputs = x])
    BY <1>3 DEF RenderEdit
  <2>2. disk[c] \in Workspaces /\ DOMAIN disk = Clusters
    OBVIOUS
  <2>3. disk'[c].kubeconfig = disk[c].kubeconfig
    <3>1. CASE req[h].cluster = c
      BY <2>1, <2>2, <3>1 DEF Workspaces
    <3>2. CASE req[h].cluster # c
      BY <2>1, <2>2, <3>2
    <3> QED
      BY <3>1, <3>2
  <2> QED
    BY <2>1, <2>3 DEF SameKubeconfig, Exists
<1>4. CASE CommitEdit(h)
  <2>1. req[h].cluster \in Clusters /\ disk' = disk
    BY <1>4 DEF CommitEdit, Serving, RequestsServed
  <2>2. CASE row'[c] = row[c]
    BY <2>1, <2>2 DEF SameKubeconfig, Exists
  <2>3. CASE row'[c] # row[c]
    <3>1. c = req[h].cluster /\ Exists(c) /\ row[c] \in Rows
      BY <1>4, <2>1, <2>3 DEF CommitEdit, Exists
    <3>2. row'[c] = Flush(c, req[h].snap, Edited(req[h].snap, req[h].arg))
      BY <1>4, <3>1 DEF CommitEdit
    <3>3. req[h].arg # req[h].snap.config
      <4>1. row[c] = req[h].snap
        <5>1. NoteOvertaken(c, Outdated(h))
          BY <1>4, <3>1 DEF CommitEdit
        <5> QED
          BY <3>1, <5>1, NoteOvertakenMeans DEF Outdated
      <4>2. Edited(row[c], row[c].config) = row[c]
        BY DEF Edited
      <4>3. Flush(c, row[c], row[c]) = row[c]
        BY <3>1 DEF Flush, Rows
      <4> QED
        BY <2>3, <3>2, <4>1, <4>2, <4>3
    <3>4. req' = [req EXCEPT ![h] = [Idle EXCEPT !.pc = "unlink", !.cluster = c]]
      BY <1>4, <3>1, <3>3 DEF CommitEdit
    <3>5. req'[h].pc = "unlink" /\ req'[h].cluster = c
      BY <3>4 DEF Idle
    <3> QED
      BY <3>5 DEF Unlinking, Serving
  <2> QED
    BY <2>2, <2>3
<1>5. CASE UnlinkKubeconfig(h)
  <2>1. row' = row /\ disk' = [disk EXCEPT ![req[h].cluster].kubeconfig = None]
    BY <1>5 DEF UnlinkKubeconfig
  <2>2. disk'[c].kubeconfig \in {disk[c].kubeconfig, None}
    BY <2>1 DEF Workspaces
  <2> QED
    BY <2>1, <2>2 DEF SameKubeconfig, Exists
<1>6. CASE RemoveWorkspace(h)
  <2>1. row' = row /\ disk' = [disk EXCEPT ![req[h].cluster] = EmptyWorkspace]
    BY <1>6 DEF RemoveWorkspace
  <2>2. disk'[c].kubeconfig \in {disk[c].kubeconfig, None}
    BY <2>1 DEF EmptyWorkspace
  <2> QED
    BY <2>1, <2>2 DEF SameKubeconfig, Exists
<1>7. CASE DeleteRow(h)
  <2>1. disk' = disk /\ row'[c] \in {row[c], None}
    BY <1>7 DEF DeleteRow
  <2> QED
    BY <2>1 DEF SameKubeconfig, Exists
<1> QED
  BY <1>2, <1>3, <1>4, <1>5, <1>6, <1>7 DEF RequestStep

LEMMA KubeconfigOfExecute ==
  ASSUME SafetyInv, NEW w \in Workers, ExecuteStep(w), ~FinishJob(w),
         NEW c \in Clusters, ~overtaken[c]
  PROVE  SameKubeconfig(c) \/ disk'[c].kubeconfig = None \/ disk'[c].kubeconfig = row'[c].config
<1> USE ConstantsAssumption, NullIsNoRow DEF SafetyInv, QueueInv
<1>1. CASE work[w].cluster # c
  BY <1>1, ExecuteLeaves DEF SameKubeconfig, Exists
<1>2. CASE work[w].cluster = c
  <2>1. Busy(w) /\ Situation(w) /\ work[w].job \in DOMAIN jobs
    BY <1>2, ExecuteContinues, SituationHolds, WorkerBacked DEF Backed
  <2>2. Leaves(w)
    BY <2>1, ExecuteBeginLeaves, PlanLeaves, ApplyLeaves, RuntimeLeaves, DestroyLeaves
    DEF ExecuteStep
  <2>3. Exists(c) /\ row'[c].config = row[c].config /\ disk[c] \in Workspaces
        /\ StateFits(disk[c], vms[c])
    BY <1>2, <2>1, <2>2, SituationTypes DEF Leaves
  <2>4. CASE \/ InvalidatePlan(w) \/ RecordPlan(w) \/ ValidateApply(w) \/ ConsumePlan(w)
             \/ RecordApply(w) \/ StartAnsible(w) \/ MarkReady(w) \/ Verify(w)
             \/ RunManifest(w) \/ ConsumeDestroyPlan(w) \/ RecordDestroy(w)
    <3>1. disk' = disk
      BY <2>4 DEF InvalidatePlan, RecordPlan, ValidateApply, ConsumePlan, RecordApply,
                  StartAnsible, MarkReady, Verify, RunManifest, ConsumeDestroyPlan, RecordDestroy
    <3> QED
      BY <2>3, <3>1 DEF SameKubeconfig
  <2>5. CASE Execute(w) \/ CreatePlan(w)
    <3>1. \/ disk' = disk \/ disk' = [disk EXCEPT ![c].inputs = work[w].hash]
          \/ disk' = [disk EXCEPT ![c].plan = disk[c].inputs, ![c].fresh = @ \union {"tfplan"}]
          \/ disk' = [disk EXCEPT ![c].destroyPlan = TRUE,
                                  ![c].fresh = @ \union {"destroy.tfplan"}]
      BY <1>2, <2>5 DEF Execute, CreatePlan
    <3>2. disk'[c].kubeconfig = disk[c].kubeconfig
      BY <2>3, <3>1 DEF Workspaces, TypeInv, TypeOK
    <3> QED
      BY <2>3, <3>2 DEF SameKubeconfig
  <2>6. CASE TerraformApply(w) \/ TerraformDestroy(w)
    <3>1. \E file, goal, result, killed, unlink :
            TerraformRun(c, file, goal, result, killed, unlink)
      BY <1>2, <2>6 DEF TerraformApply, TerraformDestroy
    <3>2. disk'[c].kubeconfig = disk[c].kubeconfig
      BY <2>3, <3>1 DEF TerraformRun, Workspaces, TypeInv, TypeOK
    <3> QED
      BY <2>3, <3>2 DEF SameKubeconfig
  <2>7. CASE Provision(w)
    <3>1. PICK kubeconfig \in {disk[c].kubeconfig, disk[c].inputs, work[w].hash} :
            disk' = [disk EXCEPT ![c].kubeconfig = kubeconfig]
      BY <1>2, <2>7 DEF Provision
    <3>2. disk'[c].kubeconfig = kubeconfig
      BY <2>3, <3>1 DEF Workspaces, TypeInv, TypeOK
    <3>3. disk[c].inputs = row[c].config /\ work[w].hash = row[c].config
      BY <1>2, <2>1, <2>7 DEF Situation, WorkerFits, Provision, At, Rendered
    <3> QED
      BY <2>3, <3>1, <3>2, <3>3 DEF SameKubeconfig
  <2> QED
    BY <2>4, <2>5, <2>6, <2>7 DEF ExecuteStep
<1> QED
  BY <1>1, <1>2

LEMMA KubeconfigOfWorker ==
  ASSUME SafetyInv, NEW w \in Workers, WorkerStep(w) \/ CrashWorker(w),
         NEW c \in Clusters, ~overtaken[c]
  PROVE  SameKubeconfig(c) \/ disk'[c].kubeconfig = None \/ disk'[c].kubeconfig = row'[c].config
<1> USE ConstantsAssumption, NullIsNoRow DEF SafetyInv, QueueInv
<1>1. Exists(c) => row[c] \in Rows
  BY DEF TypeInv, TypeOK, Exists
<1>2. CASE RecoverStaleJobs(w) \/ FinishJob(w)
  <2>1. disk' = disk
    BY <1>2 DEF RecoverStaleJobs, FinishJob
  <2>2. row'[c] = row[c] \/ (Exists(c) /\ row'[c] = [row[c] EXCEPT !.status = "FAILED"])
    <3>1. CASE RecoverStaleJobs(w)
      BY <3>1 DEF RecoverStaleJobs, BrokenBy
    <3>2. CASE FinishJob(w)
      BY <3>2 DEF FinishJob, UpdateRow, SetRow, TypeInv, TypeOK
    <3> QED
      BY <1>2, <3>1, <3>2
  <2> QED
    BY <1>1, <2>1, <2>2 DEF SameKubeconfig, Exists, Rows
<1>3. CASE SelectJob(w) \/ ClaimJob(w)
  BY <1>3 DEF SelectJob, ClaimJob, SameKubeconfig, Exists
<1>4. CASE CrashWorker(w)
  <2>1. row' = row
    BY <1>4 DEF CrashWorker
  <2>2. \/ disk' = disk
        \/ \E d, file, goal, result, killed, unlink :
             TerraformRun(d, file, goal, result, killed, unlink)
    BY <1>4 DEF CrashWorker
  <2>3. disk'[c].kubeconfig = disk[c].kubeconfig
    <3>1. CASE \E file, goal, result, killed, unlink :
                 TerraformRun(c, file, goal, result, killed, unlink)
      <4>1. disk[c] \in Workspaces
        BY DEF TypeInv, TypeOK
      <4> QED
        BY <3>1, <4>1 DEF TerraformRun, Workspaces, TypeInv, TypeOK
    <3>2. ASSUME NEW d, d # c,
                 \E file, goal, result, killed, unlink :
                   TerraformRun(d, file, goal, result, killed, unlink)
          PROVE  disk'[c] = disk[c]
      BY <3>2, TerraformElsewhere
    <3> QED
      BY <2>2, <3>1, <3>2
  <2> QED
    BY <2>1, <2>3 DEF SameKubeconfig, Exists
<1>5. CASE ExecuteStep(w) /\ ~FinishJob(w)
  BY <1>5, KubeconfigOfExecute
<1> QED
  BY <1>2, <1>3, <1>4, <1>5 DEF WorkerStep

LEMMA KubeconfigInvStep ==
  ASSUME SafetyInv, KubeconfigInv, [Next]_vars
  PROVE  KubeconfigInv'
<1> USE DEF SafetyInv, QueueInv
<1> SUFFICES ASSUME NEW c \in Clusters, Exists(c)', ~overtaken'[c], ~abandoned'[c],
                    disk'[c].kubeconfig # None, ~Unlinking(c)'
             PROVE  disk'[c].kubeconfig = row'[c].config
  BY DEF KubeconfigInv, Unlinking
<1>0. CASE abandoned[c]
  BY <1>0, AbandonedUntilMended
<1> SUFFICES ASSUME ~abandoned[c] PROVE disk'[c].kubeconfig = row'[c].config
  BY <1>0
<1>1. ~overtaken[c] /\ ~Unlinking(c)
  BY OvertakenStays, UnlinkGoesOn
<1>2. SameKubeconfig(c) => disk'[c].kubeconfig = row'[c].config
  BY <1>1 DEF SameKubeconfig, KubeconfigInv, Unlinking
<1>3. CASE UNCHANGED vars \/ CrashWeb \/ \E d \in Clusters : PruneJobs(d)
  BY <1>2, <1>3 DEF vars, CrashWeb, PruneJobs, SameKubeconfig, Exists
<1>4. CASE \E h \in Requests : NewRequest(h) \/ RequestStep(h)
  BY <1>2, <1>4, KubeconfigOfRequest
<1>5. CASE \E w \in Workers : WorkerStep(w) \/ CrashWorker(w)
  BY <1>1, <1>2, <1>5, KubeconfigOfWorker
<1> QED
  BY <1>3, <1>4, <1>5 DEF Next

(* A kubeconfig on disk is that of the saved configuration, also if the    *)
(* web process dies at any instant: only between the commit of an edit     *)
(* whose last statement (services.py:319) never ran and the next finished  *)
(* edit or provisioning, an old one may be there.                          *)
THEOREM KubeconfigOfConfig ==
  ASSUME NoStall
  PROVE  Spec => []KubeconfigIsCurrent
<1>1. Init => KubeconfigInv
  BY DEF Init, KubeconfigInv, EmptyWorkspace
<1>2. SafetyInv /\ KubeconfigInv /\ [Next]_vars => KubeconfigInv'
  BY KubeconfigInvStep
<1>3. KubeconfigInv => KubeconfigIsCurrent
  BY DEF KubeconfigInv, KubeconfigIsCurrent
<1> QED
  BY <1>1, <1>2, <1>3, SafetyInvariant, PTL DEF Spec
=============================================================================
