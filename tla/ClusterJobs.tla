------------------------------ MODULE ClusterJobs ------------------------------
(***************************************************************************)
(* Cluster records, the job queue and the worker of the Proxmox Kubernetes *)
(* Cluster Builder.                                                        *)
(*                                                                         *)
(* Requests of the web application (app/main.py, app/services.py) and the  *)
(* workers (app/worker.py) share the database rows of clusters and jobs    *)
(* and the workspace of each cluster on the data volume.  A request that   *)
(* waits (for form data, for Proxmox, for a row lock) keeps the copy of    *)
(* the cluster row its ORM session loaded.  A short database session of    *)
(* the worker is one step, but for the one that claims a job: others see   *)
(* its row lock.                                                           *)
(***************************************************************************)
EXTENDS Naturals, FiniteSets

CONSTANTS
  Clusters,        (* ids of cluster records                                *)
  Workers,         (* worker processes                                      *)
  Requests,        (* request handlers of the web process                   *)
  Hashes,          (* configurations, by their config_hash                  *)
  None,            (* SQL NULL, a missing file, an idle actor               *)
  MaxJobs,         (* bound: job rows ever inserted                         *)
  RetentionKeep,   (* settings.job_retention_keep                           *)
  Kinds,           (* the kinds of job users start                          *)
  Ops,             (* what users do besides starting jobs                   *)
  Faults           (* "worker_crash", "web_crash", "stall"                  *)

JobIds == 1 .. MaxJobs

PlanKinds     == {"PLAN", "DESTROY_PLAN"}
MutatingKinds == {"APPLY", "ANSIBLE", "DESTROY"}
FailureKinds  == MutatingKinds \union {"VERIFY"}
JobKinds      == PlanKinds \union FailureKinds \union {"MANIFEST"}

ClusterStatuses == {"DRAFT", "PLANNED", "APPLYING", "READY", "FAILED", "DESTROYED"}
ActiveStatuses  == {"QUEUED", "RUNNING"}
FinalStatuses   == {"SUCCEEDED", "FAILED", "CANCELLED"}
JobStatuses     == ActiveStatuses \union FinalStatuses

ASSUME ConstantsAssumption ==
  /\ None \notin Clusters \union Workers \union Requests \union Hashes
  /\ MaxJobs \in Nat
  /\ None \notin JobIds
  /\ None \notin {"absent", "none", "partial"}
  /\ Hashes \intersect {"absent", "none", "partial"} = {}
  /\ RetentionKeep \in Nat
  /\ Kinds \subseteq JobKinds
  /\ Ops \subseteq {"edit", "cancel", "delete", "prune"}
  /\ Faults \subseteq {"worker_crash", "web_crash", "stall"}

VARIABLES
  row,        (* clusters: the row of each cluster, None once deleted       *)
  jobs,       (* jobs: the rows there are, by id (in created_at order)      *)
  issued,     (* the number of job ids ever used                            *)
  lock,       (* who holds SELECT .. FOR UPDATE on the cluster row          *)
  req,        (* the request each handler is serving                        *)
  work,       (* where each worker is, and the job it holds in memory       *)
  disk,       (* /data/clusters/<id>: what the workspace files hold         *)
  vms,        (* the machines Proxmox runs of those terraform has recorded  *)
  orphans,    (* the configurations of which it also runs machines that a   *)
              (*   killed terraform made and never recorded                 *)
  overtaken,  (* history: a request wrote on the basis of an outdated read  *)
  abandoned   (* history: an edit died before it removed the kubeconfig     *)

machines == <<vms, orphans>>
history  == <<overtaken, abandoned>>

vars == <<row, jobs, issued, lock, req, work, disk, machines, history>>

Rows ==
  [status: ClusterStatuses, config: Hashes, planned: Hashes \union {None},
   destroyPlanned: Hashes \union {None}, applied: Hashes \union {None}]

ASSUME NullIsNoRow == None \notin Rows

Jobs ==
  [status: JobStatuses, kind: JobKinds, cluster: Clusters, hash: Hashes,
   cancel: BOOLEAN]

(* The virtual machines are those of one configuration, none, or the      *)
(* mixture a broken terraform run leaves.  terraform.tfstate says the      *)
(* same, may not exist, and lags behind when terraform was killed.  A      *)
(* saved plan is fresh while the state it was made from is unchanged;      *)
(* terraform refuses to apply any other.                                   *)
Machines  == Hashes \union {"none", "partial"}
PlanFiles == {"tfplan", "destroy.tfplan"}

Workspaces ==
  [inputs: Hashes \union {None}, plan: Hashes \union {None}, destroyPlan: BOOLEAN,
   fresh: SUBSET PlanFiles, state: Hashes \union {"absent", "none", "partial"},
   kubeconfig: Hashes \union {None}]

EmptyWorkspace ==
  [inputs |-> None, plan |-> None, destroyPlan |-> FALSE, fresh |-> {},
   state |-> "absent", kubeconfig |-> None]

RequestPCs ==
  {"idle", "form", "save", "unlink", "lock", "check", "insert", "cancel",
   "probe", "rmtree", "delete"}

WorkerPCs ==
  {"idle", "selected", "claimed", "invalidate", "plan", "record", "validate", "consume",
   "apply", "recordApply", "ansible", "provision", "ready", "verify",
   "consumeDestroy", "destroy", "recordDestroy", "manifest",
   "done", "failed", "cancelled"}

(* What a handler and what a worker holds in memory.                       *)
RequestStates ==
  [pc: RequestPCs, cluster: Clusters \union {None}, job: JobIds \union {None},
   snap: Rows \union {None}, seen: 0 .. MaxJobs \union {None},
   arg: Hashes \union JobKinds \union JobStatuses \union {None}]

WorkerStates ==
  [pc: WorkerPCs, job: JobIds \union {None}, cluster: Clusters \union {None},
   kind: JobKinds \union {None}, hash: Hashes \union {None}]

Idle ==
  [pc |-> "idle", cluster |-> None, job |-> None, snap |-> None, seen |-> None, arg |-> None]
Resting ==
  [pc |-> "idle", job |-> None, cluster |-> None, kind |-> None, hash |-> None]

TypeOK ==
  /\ row \in [Clusters -> Rows \union {None}]
  /\ DOMAIN jobs \subseteq JobIds
  /\ jobs \in [DOMAIN jobs -> Jobs]
  /\ issued \in 0 .. MaxJobs
  /\ lock \in [Clusters -> Requests \union {None}]
  /\ req \in [Requests -> RequestStates]
  /\ work \in [Workers -> WorkerStates]
  /\ disk \in [Clusters -> Workspaces]
  /\ vms \in [Clusters -> Machines]
  /\ orphans \in [Clusters -> SUBSET Hashes]
  /\ overtaken \in [Clusters -> BOOLEAN]
  /\ abandoned \in [Clusters -> BOOLEAN]

(* create_cluster has saved each cluster and rendered its inputs.          *)
Init ==
  \E saved \in [Clusters -> Hashes] :
    /\ row = [c \in Clusters |->
         [status |-> "DRAFT", config |-> saved[c], planned |-> None,
          destroyPlanned |-> None, applied |-> None]]
    /\ disk = [c \in Clusters |-> [EmptyWorkspace EXCEPT !.inputs = saved[c]]]
    /\ jobs = [j \in {} |-> None]
    /\ issued = 0
    /\ lock = [c \in Clusters |-> None]
    /\ req = [h \in Requests |-> Idle]
    /\ work = [w \in Workers |-> Resting]
    /\ vms = [c \in Clusters |-> "none"]
    /\ orphans = [c \in Clusters |-> {}]
    /\ overtaken = [c \in Clusters |-> FALSE]
    /\ abandoned = [c \in Clusters |-> FALSE]

-----------------------------------------------------------------------------
(* Reading and writing the rows.                                           *)

Exists(c) == row[c] # None
Free(c)   == lock[c] = None          \* no FOR UPDATE lock blocks an UPDATE

At(w, pc)      == work[w].pc = pc
Claiming(j)    == \E w \in Workers : At(w, "selected") /\ work[w].job = j   \* its row lock

JobsOf(c)    == {j \in DOMAIN jobs : jobs[j].cluster = c}
ActiveJob(c) == \E j \in JobsOf(c) : jobs[j].status \in ActiveStatuses

RuntimeCurrent(r) == r.applied # None /\ r.applied = r.config

(* The unit of work of the ORM: an UPDATE names only the columns whose     *)
(* value differs from the one this session has loaded.                     *)
Flush(c, loaded, new) ==
  [f \in DOMAIN new |-> IF new[f] # loaded[f] THEN new[f] ELSE row[c][f]]

RemoveJobs(gone) == jobs' = [j \in DOMAIN jobs \ gone |-> jobs[j]]

(* Remember that a request of c acted although the row is no longer the    *)
(* one it loaded, or jobs have been queued since.                          *)
NoteOvertaken(c, happened) ==
  overtaken' = [overtaken EXCEPT ![c] = @ \/ happened]

Serving(h, pc)     == req[h].pc = pc
Proceed(h, pc)     == req' = [req EXCEPT ![h].pc = pc]
Answer(h)          == req' = [req EXCEPT ![h] = Idle]
Outdated(h)        == row[req[h].cluster] # req[h].snap \/ issued # req[h].seen

-----------------------------------------------------------------------------
(* POST /clusters/{id}/edit                                                *)

(* update_cluster up to `await request.form()`.                            *)
BeginEdit(h, c) ==
  /\ "edit" \in Ops
  /\ Serving(h, "idle") /\ Exists(c) /\ ~ActiveJob(c)
  /\ req' = [req EXCEPT ![h] = [Idle EXCEPT !.pc = "form", !.cluster = c, !.snap = row[c],
                     !.seen = issued]]
  /\ UNCHANGED <<row, jobs, issued, lock, work, disk, machines, history>>

(* The rest of update_cluster: a refused form, or save_cluster up to and   *)
(* including render_cluster, which writes the inputs before the commit.    *)
RenderEdit(h) ==
  LET c == req[h].cluster IN
  /\ Serving(h, "form")
  /\ \/ /\ Answer(h)
        /\ UNCHANGED <<disk, overtaken>>
     \/ \E new \in Hashes :
          /\ req' = [req EXCEPT ![h].pc = "save", ![h].arg = new]
          /\ disk' = [disk EXCEPT ![c].inputs = new]
          /\ NoteOvertaken(c, Outdated(h))
  /\ UNCHANGED <<row, jobs, issued, lock, work, machines, abandoned>>

(* Seeded fault: an edit leaves the status as it was.                      *)
EditedKeepingStatus(loaded, new) ==
  IF new = loaded.config
    THEN loaded
    ELSE [loaded EXCEPT !.config = new, !.planned = None, !.destroyPlanned = None]

Edited(loaded, new) ==
  IF new = loaded.config
    THEN loaded
    ELSE [loaded EXCEPT !.config = new, !.status = "DRAFT", !.planned = None,
                        !.destroyPlanned = None]

CommitEdit(h) ==
  LET c == req[h].cluster  loaded == req[h].snap  new == req[h].arg IN
  /\ Serving(h, "save") /\ Free(c)
  /\ IF Exists(c)
       THEN row' = [row EXCEPT ![c] = Flush(c, loaded, Edited(loaded, new))]
       ELSE UNCHANGED row
  /\ NoteOvertaken(c, Outdated(h))
  /\ IF Exists(c) /\ new # loaded.config
       THEN req' = [req EXCEPT ![h] = [Idle EXCEPT !.pc = "unlink", !.cluster = c]]
       ELSE Answer(h)
  /\ UNCHANGED <<jobs, issued, lock, work, disk, machines, abandoned>>

(* Seeded fault: the kubeconfig stays where it is.                         *)
LeaveKubeconfig(h) ==
  /\ Serving(h, "unlink")
  /\ Answer(h)
  /\ UNCHANGED <<row, jobs, issued, lock, work, disk, machines, history>>

(* The last statement of save_cluster.                                     *)
UnlinkKubeconfig(h) ==
  /\ Serving(h, "unlink")
  /\ disk' = [disk EXCEPT ![req[h].cluster].kubeconfig = None]
  /\ abandoned' = [abandoned EXCEPT ![req[h].cluster] = FALSE]
  /\ Answer(h)
  /\ UNCHANGED <<row, jobs, issued, lock, work, machines, overtaken>>

-----------------------------------------------------------------------------
(* POST /clusters/{id}/jobs/{kind} and the manifest jobs                   *)

(* start_job and start_manifest_job before they call queue_job.            *)
MayStart(c, kind) ==
  /\ kind \in {"VERIFY", "ANSIBLE", "MANIFEST"} => RuntimeCurrent(row[c])
  /\ kind \in {"VERIFY", "MANIFEST"} => disk[c].kubeconfig # None
  /\ kind = "ANSIBLE" => disk[c].state # "absent"

StartJob(h, c, kind) ==
  /\ Serving(h, "idle") /\ Exists(c) /\ MayStart(c, kind)
  /\ issued < MaxJobs
  /\ req' = [req EXCEPT ![h] =
       [Idle EXCEPT !.pc = "lock", !.cluster = c, !.snap = row[c], !.seen = issued,
             !.arg = kind]]
  /\ UNCHANGED <<row, jobs, issued, lock, work, disk, machines, history>>

(* Seeded fault: queue_job reads the row without FOR UPDATE.               *)
ReadCluster(h) ==
  /\ Serving(h, "lock")
  /\ IF Exists(req[h].cluster) THEN Proceed(h, "check") ELSE Answer(h)
  /\ UNCHANGED <<row, jobs, issued, lock, work, disk, machines, history>>

(* queue_job: SELECT .. FOR UPDATE.  The row comes back, the instance      *)
(* already in the session keeps the attributes it was loaded with.         *)
LockCluster(h) ==
  LET c == req[h].cluster IN
  /\ Serving(h, "lock")
  /\ \/ /\ Exists(c) /\ Free(c)
        /\ lock' = [lock EXCEPT ![c] = h]
        /\ Proceed(h, "check")
     \/ /\ ~Exists(c)
        /\ Answer(h)
        /\ UNCHANGED lock
  /\ UNCHANGED <<row, jobs, issued, work, disk, machines, history>>

(* Seeded fault: an APPLY may be queued without a plan of this             *)
(* configuration.                                                          *)
QueueableUnplanned(r, kind) ==
  /\ kind = "DESTROY" => r.destroyPlanned = r.config
  /\ kind \in {"ANSIBLE", "VERIFY", "MANIFEST"} => r.applied = r.config

Queueable(r, kind) ==
  /\ kind = "APPLY"   => r.planned = r.config
  /\ kind = "DESTROY" => r.destroyPlanned = r.config
  /\ kind \in {"ANSIBLE", "VERIFY", "MANIFEST"} => r.applied = r.config

(* queue_job: the search for another active job and the hash checks.       *)
CheckQueue(h) ==
  LET c == req[h].cluster IN
  /\ Serving(h, "check")
  /\ IF ~ActiveJob(c) /\ Queueable(req[h].snap, req[h].arg)
       THEN Proceed(h, "insert") /\ UNCHANGED lock
       ELSE Answer(h) /\ lock' = [lock EXCEPT ![c] = None]
  /\ UNCHANGED <<row, jobs, issued, work, disk, machines, history>>

(* queue_job: the insert and the commit, which ends the lock.              *)
InsertJob(h) ==
  LET c == req[h].cluster
      new == [status |-> "QUEUED", kind |-> req[h].arg, cluster |-> c,
              hash |-> req[h].snap.config, cancel |-> FALSE]
  IN
  /\ Serving(h, "insert")
  /\ IF issued < MaxJobs
       THEN /\ issued' = issued + 1
            /\ jobs' = [j \in DOMAIN jobs \union {issued + 1} |->
                          IF j = issued + 1 THEN new ELSE jobs[j]]
            /\ NoteOvertaken(c, Outdated(h))
       ELSE UNCHANGED <<issued, jobs, overtaken>>
  /\ lock' = [lock EXCEPT ![c] = None]
  /\ Answer(h)
  /\ UNCHANGED <<row, work, disk, machines, abandoned>>

-----------------------------------------------------------------------------
(* POST /jobs/{id}/cancel and /clusters/{id}/prune-jobs                    *)

(* cancel_job reads the job without a lock ..                              *)
ReadForCancel(h, j) ==
  /\ "cancel" \in Ops
  /\ Serving(h, "idle") /\ j \in DOMAIN jobs
  /\ jobs[j].status \in ActiveStatuses     \* else it writes nothing
  /\ req' = [req EXCEPT ![h] =
       [Idle EXCEPT !.pc = "cancel", !.cluster = jobs[j].cluster, !.job = j,
                    !.arg = jobs[j].status]]
  /\ UNCHANGED <<row, jobs, issued, lock, work, disk, machines, history>>

(* .. and updates it by what it read.                                      *)
WriteCancel(h) ==
  LET j == req[h].job IN
  /\ Serving(h, "cancel") /\ ~Claiming(j)
  /\ IF j \in DOMAIN jobs
       THEN jobs' = IF req[h].arg = "QUEUED"
                      THEN [jobs EXCEPT ![j].status = "CANCELLED"]
                      ELSE [jobs EXCEPT ![j].cancel = TRUE]
       ELSE UNCHANGED jobs
  /\ NoteOvertaken(req[h].cluster,
       j \in DOMAIN jobs /\ req[h].arg = "QUEUED" /\ jobs[j].status # "QUEUED")
  /\ Answer(h)
  /\ UNCHANGED <<row, issued, lock, work, disk, machines, abandoned>>

(* cleanup_cluster_job_history: keep the newest finished jobs.             *)
FinishedJobs(c) == {j \in JobsOf(c) : jobs[j].status \in FinalStatuses}

PruneJobs(c) ==
  LET old == {j \in FinishedJobs(c) :
                Cardinality({k \in FinishedJobs(c) : k > j}) >= RetentionKeep}
  IN
  /\ "prune" \in Ops
  /\ Exists(c) /\ old # {}
  /\ RemoveJobs(old)
  /\ UNCHANGED <<row, issued, lock, req, work, disk, machines, history>>

-----------------------------------------------------------------------------
(* POST /clusters/{id}/delete                                              *)

(* Seeded fault: the search for an active job is missing.                  *)
BeginDeleteUnchecked(h, c) ==
  /\ "delete" \in Ops
  /\ Serving(h, "idle") /\ Exists(c)
  /\ req' = [req EXCEPT ![h] =
       [Idle EXCEPT !.pc = IF row[c].status = "DESTROYED" THEN "rmtree" ELSE "probe",
                    !.cluster = c, !.snap = row[c], !.seen = issued]]
  /\ UNCHANGED <<row, jobs, issued, lock, work, disk, machines, history>>

BeginDelete(h, c) ==
  /\ "delete" \in Ops
  /\ Serving(h, "idle") /\ Exists(c) /\ ~ActiveJob(c)
  /\ req' = [req EXCEPT ![h] =
       [Idle EXCEPT !.pc = IF row[c].status = "DESTROYED" THEN "rmtree" ELSE "probe",
                    !.cluster = c, !.snap = row[c], !.seen = issued]]
  /\ UNCHANGED <<row, jobs, issued, lock, work, disk, machines, history>>

(* present_cluster_vm_ids asks Proxmox for the VM ids of the row's         *)
(* configuration, of what was applied last and of the terraform state; it  *)
(* may fail.                                                               *)
NothingFound(c, r) == vms[c] = "none" /\ orphans[c] \intersect {r.config, r.applied} = {}

ProbeVMs(h) ==
  /\ Serving(h, "probe")
  /\ \/ Answer(h)
     \/ NothingFound(req[h].cluster, req[h].snap) /\ Proceed(h, "rmtree")
  /\ UNCHANGED <<row, jobs, issued, lock, work, disk, machines, history>>

RemoveWorkspace(h) ==
  LET c == req[h].cluster IN
  /\ Serving(h, "rmtree")
  /\ disk' = [disk EXCEPT ![c] = EmptyWorkspace]
  /\ abandoned' = [abandoned EXCEPT ![c] = FALSE]
  /\ NoteOvertaken(c, Outdated(h))
  /\ Proceed(h, "delete")
  /\ UNCHANGED <<row, jobs, issued, lock, work, machines>>

(* The row and, by the cascade, its jobs.                                  *)
DeleteRow(h) ==
  LET c == req[h].cluster IN
  /\ Serving(h, "delete") /\ Free(c) /\ ~\E j \in JobsOf(c) : Claiming(j)
  /\ row' = [row EXCEPT ![c] = None]
  /\ RemoveJobs(JobsOf(c))
  /\ NoteOvertaken(c, Outdated(h))
  /\ Answer(h)
  /\ UNCHANGED <<issued, lock, work, disk, machines, abandoned>>

(* The web process dies: the database ends the transaction and its lock.   *)
CrashWeb ==
  /\ "web_crash" \in Faults
  /\ \E h \in Requests : ~Serving(h, "idle")
  /\ req' = [h \in Requests |-> Idle]
  /\ lock' = [c \in Clusters |-> None]
  /\ abandoned' = [c \in Clusters |->
       abandoned[c] \/ \E h \in Requests : Serving(h, "unlink") /\ req[h].cluster = c]
  /\ UNCHANGED <<row, jobs, issued, work, disk, machines, overtaken>>

-----------------------------------------------------------------------------
(* The worker                                                              *)

Goto(w, pc)    == work' = [work EXCEPT ![w].pc = pc]
Busy(w)        == ~At(w, "idle") /\ ~At(w, "selected")   \* it executes a job
SetRow(c, r)   == row' = [row EXCEPT ![c] = r]

(* A command ends badly, or notices cancel_requested.                      *)
NoticesCancel(w) ==
  work[w].job \in DOMAIN jobs /\ jobs[work[w].job].cancel /\ Goto(w, "cancelled")

Breaks(w) == Goto(w, "failed") \/ NoticesCancel(w)

(* A short session of the worker updates the row, if there still is one.   *)
UpdateRow(c, new) ==
  IF Exists(c) THEN Free(c) /\ SetRow(c, new) ELSE UNCHANGED row

(* Seeded faults: recovery ignores the heartbeat; recovery never finds a   *)
(* job.                                                                    *)
RunningIsSilent(j) == jobs[j].status = "RUNNING"
NeverSilent(j)     == FALSE

(* A RUNNING job whose worker has gone silent for longer than              *)
(* stale_job_timeout_minutes: it died, or ("stall") it is merely slow.     *)
Silent(j) ==
  /\ jobs[j].status = "RUNNING"
  /\ "stall" \in Faults \/ \A w \in Workers : work[w].job # j

(* Seeded fault: recovery leaves the cluster as it is.                     *)
BreaksNothing(lost) == {}

BrokenBy(lost) ==
  {c \in Clusters : Exists(c) /\
     \E j \in lost : jobs[j].cluster = c /\ jobs[j].kind \in FailureKinds}

(* recover_stale_running_jobs, at the start and in every turn of main.     *)
RecoverStaleJobs(w) ==
  \E lost \in SUBSET {j \in DOMAIN jobs : Silent(j)} :
    LET broken == BrokenBy(lost) IN
    /\ At(w, "idle") /\ lost # {}
    /\ \A c \in broken : Free(c)
    /\ jobs' = [j \in DOMAIN jobs |->
                  IF j \in lost THEN [jobs[j] EXCEPT !.status = "FAILED"] ELSE jobs[j]]
    /\ row' = [c \in Clusters |->
                 IF c \in broken THEN [row[c] EXCEPT !.status = "FAILED"] ELSE row[c]]
    /\ UNCHANGED <<issued, lock, req, work, disk, machines, history>>

Queued == {j \in DOMAIN jobs : jobs[j].status = "QUEUED"}

(* The row lock of a cancellation, or of a deletion by the cascade, before *)
(* it commits.                                                             *)
MayBeLocked(j) ==
  \E h \in Requests :
    \/ Serving(h, "cancel") /\ req[h].job = j
    \/ Serving(h, "delete") /\ req[h].cluster = jobs[j].cluster

Select(w, j) ==
  work' = [work EXCEPT ![w] =
    [pc |-> "selected", job |-> j, cluster |-> jobs[j].cluster,
     kind |-> jobs[j].kind, hash |-> jobs[j].hash]]

(* Seeded fault: the job is selected without FOR UPDATE.                   *)
SelectUnlocked(w) ==
  \E j \in Queued :
    /\ At(w, "idle")
    /\ Select(w, j)
    /\ UNCHANGED <<row, jobs, issued, lock, req, disk, machines, history>>

(* claim_job: SELECT .. FOR UPDATE SKIP LOCKED takes the oldest of the     *)
(* queued jobs whose row nobody has locked ..                              *)
SelectJob(w) ==
  \E j \in Queued :
    /\ At(w, "idle")
    /\ ~Claiming(j)
    /\ \A k \in Queued : k < j => Claiming(k) \/ MayBeLocked(k)
    /\ Select(w, j)
    /\ UNCHANGED <<row, jobs, issued, lock, req, disk, machines, history>>

(* .. and the commit makes it RUNNING.                                     *)
ClaimJob(w) ==
  /\ At(w, "selected")
  /\ jobs' = [jobs EXCEPT ![work[w].job].status = "RUNNING"]
  /\ Goto(w, "claimed")
  /\ UNCHANGED <<row, issued, lock, req, disk, machines, history>>

FirstStep(kind) ==
  CASE kind \in PlanKinds -> "invalidate"
    [] kind = "APPLY"     -> "validate"
    [] kind = "ANSIBLE"   -> "ansible"
    [] kind = "VERIFY"    -> "verify"
    [] kind = "DESTROY"   -> "consumeDestroy"
    [] kind = "MANIFEST"  -> "manifest"

(* Seeded fault: the job trusts the inputs it finds.                       *)
ExecuteUnrendered(w) ==
  /\ At(w, "claimed")
  /\ IF work[w].job \notin DOMAIN jobs
       THEN Goto(w, "done")
       ELSE IF Exists(work[w].cluster) /\ row[work[w].cluster].config = work[w].hash
         THEN Goto(w, FirstStep(work[w].kind))
         ELSE Goto(w, "failed")
  /\ UNCHANGED <<row, jobs, issued, lock, req, disk, machines, history>>

(* execute: the hash check, then the inputs are rendered afresh.  A        *)
(* missing credential ends the job here.                                   *)
UpToDate(c, hash) == Exists(c) /\ row[c].config = hash

Execute(w) ==
  LET c == work[w].cluster IN
  /\ At(w, "claimed")
  /\ IF work[w].job \notin DOMAIN jobs
       THEN Goto(w, "done") /\ UNCHANGED disk
       ELSE IF ~UpToDate(c, work[w].hash)
         THEN Goto(w, "failed") /\ UNCHANGED disk
         ELSE /\ Goto(w, FirstStep(work[w].kind)) \/ Goto(w, "failed")
              /\ IF work[w].kind = "MANIFEST"
                   THEN UNCHANGED disk
                   ELSE disk' = [disk EXCEPT ![c].inputs = work[w].hash]
  /\ UNCHANGED <<row, jobs, issued, lock, req, machines, history>>

-----------------------------------------------------------------------------
(* PLAN and DESTROY_PLAN                                                   *)

(* invalidate_plan_authorization(destroy=..) without a status.             *)
Invalidated(r, kind) ==
  IF kind = "DESTROY_PLAN"
    THEN [r EXCEPT !.destroyPlanned = None]
    ELSE [r EXCEPT !.planned = None,
                   !.status = IF r.applied # r.config THEN "DRAFT" ELSE @]

InvalidatePlan(w) ==
  LET c == work[w].cluster IN
  /\ At(w, "invalidate")
  /\ IF Exists(c)
       THEN /\ Free(c) /\ SetRow(c, Invalidated(row[c], work[w].kind))
            /\ Goto(w, "plan")
       ELSE Goto(w, "failed") /\ UNCHANGED row
  /\ UNCHANGED <<jobs, issued, lock, req, disk, machines, history>>

(* validate_proxmox: no guest in the way that terraform.tfstate does not   *)
(* know.  Guests of this cluster are such guests once the file is lost.    *)
Recorded(state) == state \notin {"absent", "none"}

NoCollision(c, hash) ==
  (vms[c] = "none" \/ Recorded(disk[c].state)) /\ hash \notin orphans[c]

CreatePlan(w) ==
  LET c == work[w].cluster IN
  /\ At(w, "plan")
  /\ \/ /\ work[w].kind = "PLAN" /\ NoCollision(c, work[w].hash)
        /\ disk[c].inputs # None
        /\ disk' = [disk EXCEPT ![c].plan = disk[c].inputs,
                                ![c].fresh = @ \union {"tfplan"}]
        /\ Goto(w, "record")
     \/ /\ work[w].kind = "DESTROY_PLAN"
        /\ disk[c].inputs # None
        /\ disk' = [disk EXCEPT ![c].destroyPlan = TRUE,
                                ![c].fresh = @ \union {"destroy.tfplan"}]
        /\ Goto(w, "record")
     \/ Breaks(w) /\ UNCHANGED disk
  /\ UNCHANGED <<row, jobs, issued, lock, req, machines, history>>

Planned(r, kind, hash) ==
  IF kind = "DESTROY_PLAN"
    THEN [r EXCEPT !.destroyPlanned = hash]
    ELSE [r EXCEPT !.planned = hash,
                   !.status = IF r.applied # r.config THEN "PLANNED" ELSE @]

RecordPlan(w) ==
  LET c == work[w].cluster IN
  /\ At(w, "record")
  /\ UpdateRow(c, Planned(row[c], work[w].kind, work[w].hash))
  /\ Goto(w, "done")
  /\ UNCHANGED <<jobs, issued, lock, req, disk, machines, history>>

-----------------------------------------------------------------------------
(* APPLY and ANSIBLE                                                       *)

ValidateApply(w) ==
  LET c == work[w].cluster IN
  /\ At(w, "validate")
  /\ \/ disk[c].plan # None /\ NoCollision(c, work[w].hash) /\ Goto(w, "consume")
     \/ Breaks(w)
  /\ UNCHANGED <<row, jobs, issued, lock, req, disk, machines, history>>

(* invalidate_plan_authorization(status=APPLYING): the reviewed plan is    *)
(* consumed before terraform runs.                                         *)
Consumed(r) == [r EXCEPT !.planned = None, !.status = "APPLYING"]

ConsumePlan(w) ==
  LET c == work[w].cluster IN
  /\ At(w, "consume")
  /\ IF Exists(c)
       THEN Free(c) /\ SetRow(c, Consumed(row[c])) /\ Goto(w, "apply")
       ELSE Goto(w, "failed") /\ UNCHANGED row
  /\ UNCHANGED <<jobs, issued, lock, req, disk, machines, history>>

(* An apply of a saved plan that is not fresh changes nothing.  Of a fresh *)
(* one the state ends at its goal, at a mixture or unwritten; once written *)
(* no plan file is fresh.  The machines are what the state says, unless    *)
(* terraform is killed: then it has changed or destroyed some the state    *)
(* still has, or made some the state does not have (orphans).              *)
TerraformStates == Hashes \union {"absent", "none", "partial"}

TerraformRun(c, file, goal, state, killed, unlink) ==
  LET before == disk[c].state  fresh == file \in disk[c].fresh IN
  \E wrote \in BOOLEAN, left \in Machines, made \in SUBSET Hashes :
    LET said == IF wrote /\ (Recorded(before) \/ goal # "none") THEN state ELSE vms[c] IN
    /\ IF wrote THEN fresh /\ state \in {goal, "partial"} ELSE state = before
    /\ wrote /\ state = "partial" => Recorded(before) \/ goal # "none"
    /\ left # said =>
         killed /\ fresh /\ Recorded(state) /\ left \in {vms[c], goal, "partial", "none"}
    /\ made # {} => killed /\ fresh /\ made = {goal}
    /\ disk' = [disk EXCEPT
         ![c].state = state,
         ![c].fresh = (IF wrote THEN {} ELSE @) \ (IF unlink THEN {file} ELSE {}),
         ![c].plan = IF unlink /\ file = "tfplan" THEN None ELSE @,
         ![c].destroyPlan = IF unlink /\ file = "destroy.tfplan" THEN FALSE ELSE @]
    /\ vms' = [vms EXCEPT ![c] = left]
    /\ orphans' = [orphans EXCEPT ![c] = @ \union made]

TerraformApply(w) ==
  LET c == work[w].cluster  plan == disk[c].plan IN
  /\ At(w, "apply")
  /\ \E result \in TerraformStates :
       \/ /\ TerraformRun(c, "tfplan", plan, result, FALSE, TRUE)
          /\ \/ /\ plan # None /\ "tfplan" \in disk[c].fresh /\ result = plan
                /\ Goto(w, "recordApply")
             \/ Goto(w, "failed")
       \/ TerraformRun(c, "tfplan", plan, result, TRUE, TRUE) /\ NoticesCancel(w)
  /\ UNCHANGED <<row, jobs, issued, lock, req, history>>

(* The VM ids of the configuration must be in the state; only then does    *)
(* the row say that this configuration is applied.                         *)
RecordApply(w) ==
  LET c == work[w].cluster IN
  /\ At(w, "recordApply")
  /\ \/ /\ disk[c].state \in Hashes
        /\ UpdateRow(c, [row[c] EXCEPT !.applied = work[w].hash])
        /\ Goto(w, "provision")
     \/ /\ disk[c].state # work[w].hash
        /\ Goto(w, "failed") /\ UNCHANGED row
  /\ UNCHANGED <<jobs, issued, lock, req, disk, machines, history>>

StartAnsible(w) ==
  LET c == work[w].cluster IN
  /\ At(w, "ansible")
  /\ UpdateRow(c, [row[c] EXCEPT !.status = "APPLYING"])
  /\ Goto(w, "provision")
  /\ UNCHANGED <<jobs, issued, lock, req, disk, machines, history>>

(* run_ansible_stack or run_talos_stack.  They fetch the kubeconfig of the *)
(* cluster the inventory on disk (or the configuration in memory) names,   *)
(* and may break before or after.                                          *)
Provision(w) ==
  LET c == work[w].cluster IN
  /\ At(w, "provision")
  /\ \E kubeconfig \in {disk[c].kubeconfig, disk[c].inputs, work[w].hash} :
       /\ disk' = [disk EXCEPT ![c].kubeconfig = kubeconfig]
       /\ \/ /\ vms[c] \in Hashes /\ kubeconfig \in {disk[c].inputs, work[w].hash} \ {None}
             /\ Goto(w, "ready")
             /\ abandoned' = [abandoned EXCEPT ![c] = FALSE]
          \/ Breaks(w) /\ UNCHANGED abandoned
  /\ UNCHANGED <<row, jobs, issued, lock, req, machines, overtaken>>

MarkReady(w) ==
  LET c == work[w].cluster IN
  /\ At(w, "ready")
  /\ UpdateRow(c, [row[c] EXCEPT !.status = "READY"])
  /\ Goto(w, "done")
  /\ UNCHANGED <<jobs, issued, lock, req, disk, machines, history>>

-----------------------------------------------------------------------------
(* VERIFY, DESTROY and the manifest jobs                                   *)

Verify(w) ==
  LET c == work[w].cluster IN
  /\ At(w, "verify")
  /\ \/ /\ disk[c].kubeconfig # None /\ vms[c] \in Hashes
        /\ UpdateRow(c, IF Exists(c) /\ row[c].applied = row[c].config
                          THEN [row[c] EXCEPT !.status = "READY"] ELSE row[c])
        /\ Goto(w, "done")
     \/ Breaks(w) /\ UNCHANGED row
  /\ UNCHANGED <<jobs, issued, lock, req, disk, machines, history>>

ConsumeDestroyPlan(w) ==
  LET c == work[w].cluster IN
  /\ At(w, "consumeDestroy")
  /\ IF Exists(c)
       THEN /\ Free(c)
            /\ SetRow(c, [row[c] EXCEPT !.destroyPlanned = None, !.status = "APPLYING"])
            /\ Goto(w, IF disk[c].destroyPlan THEN "destroy" ELSE "failed")
       ELSE Goto(w, "failed") /\ UNCHANGED row
  /\ UNCHANGED <<jobs, issued, lock, req, disk, machines, history>>

(* Seeded fault: the exit code of terraform is not looked at.              *)
TerraformDestroyUnchecked(w) ==
  /\ At(w, "destroy")
  /\ \E result \in TerraformStates :
       TerraformRun(work[w].cluster, "destroy.tfplan", "none", result, FALSE, TRUE)
  /\ Goto(w, "recordDestroy")
  /\ UNCHANGED <<row, jobs, issued, lock, req, history>>

TerraformDestroy(w) ==
  LET c == work[w].cluster IN
  /\ At(w, "destroy")
  /\ \E result \in TerraformStates :
       \/ /\ TerraformRun(c, "destroy.tfplan", "none", result, FALSE, TRUE)
          /\ \/ /\ "destroy.tfplan" \in disk[c].fresh /\ ~Recorded(result)
                /\ Goto(w, "recordDestroy")
             \/ Goto(w, "failed")
       \/ TerraformRun(c, "destroy.tfplan", "none", result, TRUE, TRUE) /\ NoticesCancel(w)
  /\ UNCHANGED <<row, jobs, issued, lock, req, history>>

Destroyed(r) ==
  [r EXCEPT !.status = "DESTROYED", !.applied = None, !.planned = None,
            !.destroyPlanned = None]

RecordDestroy(w) ==
  LET c == work[w].cluster IN
  /\ At(w, "recordDestroy")
  /\ UpdateRow(c, Destroyed(row[c]))
  /\ Goto(w, "done")
  /\ UNCHANGED <<jobs, issued, lock, req, disk, machines, history>>

(* kubectl only: nothing this module models changes.                       *)
RunManifest(w) ==
  /\ At(w, "manifest")
  /\ \/ disk[work[w].cluster].kubeconfig # None /\ Goto(w, "done")
     \/ Breaks(w)
  /\ UNCHANGED <<row, jobs, issued, lock, req, disk, machines, history>>

-----------------------------------------------------------------------------
(* The end of a job                                                        *)

(* Seeded fault: a status the enumeration JobStatus does not have.         *)
UnknownFinalStatus(pc) ==
  CASE pc = "done" -> "DONE" [] pc = "failed" -> "FAILED" [] pc = "cancelled" -> "CANCELLED"

FinalStatus(pc) ==
  CASE pc = "done" -> "SUCCEEDED" [] pc = "failed" -> "FAILED" [] pc = "cancelled" -> "CANCELLED"

(* Seeded fault: a cancelled job leaves the status of the cluster.         *)
FailsClusterOnError(pc, kind) == pc = "failed" /\ kind \in FailureKinds

FailsCluster(pc, kind) ==
  \/ pc = "failed"    /\ kind \in FailureKinds
  \/ pc = "cancelled" /\ kind \in MutatingKinds

FinishJob(w) ==
  LET j == work[w].job  c == work[w].cluster  pc == work[w].pc IN
  /\ pc \in {"done", "failed", "cancelled"}
  /\ IF j \in DOMAIN jobs
       THEN /\ jobs' = [jobs EXCEPT ![j].status = FinalStatus(pc)]
            /\ IF FailsCluster(pc, work[w].kind)
                 THEN UpdateRow(c, [row[c] EXCEPT !.status = "FAILED"])
                 ELSE UNCHANGED row
       ELSE UNCHANGED <<jobs, row>>
  /\ work' = [work EXCEPT ![w] = Resting]
  /\ UNCHANGED <<issued, lock, req, disk, machines, history>>

(* The worker process dies and is restarted.  Its terraform dies with it,  *)
(* and the plan file is still there; the database ends its transaction.    *)
CrashWorker(w) ==
  LET c == work[w].cluster IN
  /\ "worker_crash" \in Faults
  /\ ~At(w, "idle")
  /\ CASE At(w, "apply") -> \E result \in TerraformStates :
                              TerraformRun(c, "tfplan", disk[c].plan, result, TRUE, FALSE)
       [] At(w, "destroy") -> \E result \in TerraformStates :
                              TerraformRun(c, "destroy.tfplan", "none", result, TRUE, FALSE)
       [] OTHER -> UNCHANGED <<disk, machines>>
  /\ work' = [work EXCEPT ![w] = Resting]
  /\ UNCHANGED <<row, jobs, issued, lock, req, history>>

-----------------------------------------------------------------------------

RequestStep(h) ==
  \/ RenderEdit(h) \/ CommitEdit(h) \/ UnlinkKubeconfig(h)
  \/ LockCluster(h) \/ CheckQueue(h) \/ InsertJob(h)
  \/ WriteCancel(h)
  \/ ProbeVMs(h) \/ RemoveWorkspace(h) \/ DeleteRow(h)

NewRequest(h) ==
  \/ \E c \in Clusters : BeginEdit(h, c) \/ BeginDelete(h, c)
  \/ \E c \in Clusters, kind \in Kinds : StartJob(h, c, kind)
  \/ \E j \in JobIds : ReadForCancel(h, j)

ExecuteStep(w) ==
  \/ Execute(w) \/ FinishJob(w)
  \/ InvalidatePlan(w) \/ CreatePlan(w) \/ RecordPlan(w)
  \/ ValidateApply(w) \/ ConsumePlan(w) \/ TerraformApply(w) \/ RecordApply(w)
  \/ StartAnsible(w) \/ Provision(w) \/ MarkReady(w)
  \/ Verify(w) \/ RunManifest(w)
  \/ ConsumeDestroyPlan(w) \/ TerraformDestroy(w) \/ RecordDestroy(w)

WorkerStep(w) == RecoverStaleJobs(w) \/ SelectJob(w) \/ ClaimJob(w) \/ ExecuteStep(w)

Next ==
  \/ \E h \in Requests : NewRequest(h) \/ RequestStep(h)
  \/ \E c \in Clusters : PruneJobs(c)
  \/ CrashWeb
  \/ \E w \in Workers : WorkerStep(w) \/ CrashWorker(w)

Spec == Init /\ [][Next]_vars

(* main() never stops turning: every command has a timeout or ends, and a  *)
(* restarted worker goes on.  An UPDATE that waits for the lock of a       *)
(* request is queued by the database and gets its turn between two holders *)
(* (strong fairness).  A worker is not killed for ever in the instant      *)
(* between selecting a job and the commit.  A request that holds the lock  *)
(* waits for nobody else; one that waits for form data may wait for ever.  *)
Fairness ==
  /\ \A w \in Workers : SF_vars(WorkerStep(w)) /\ SF_vars(ClaimJob(w))
  /\ \A h \in Requests : WF_vars(CheckQueue(h) \/ InsertJob(h))

FairSpec == Spec /\ Fairness

-----------------------------------------------------------------------------
(* Properties.  `overtaken[c]` marks the behaviours in which some request  *)
(* of c acted on a read that another transaction had already overtaken;    *)
(* what the code guarantees in spite of that is stated without it.         *)

(* At most one job of a cluster is queued or running: the row lock of      *)
(* queue_job makes its search for an active job and its insert one step    *)
(* (services.py:350-356).                                                  *)
AtMostOneActiveJob ==
  \A i, j \in DOMAIN jobs :
    /\ jobs[i].cluster = jobs[j].cluster
    /\ jobs[i].status \in ActiveStatuses /\ jobs[j].status \in ActiveStatuses
    => i = j

(* No two workers execute jobs of the same cluster, whatever crashes: a    *)
(* job is claimed once, keeps its cluster busy until it is finished, and a *)
(* dead worker's job is given up only when nobody executes it.             *)
ExclusiveExecution ==
  \A v, w \in Workers :
    /\ Busy(v) /\ Busy(w) /\ work[v].cluster = work[w].cluster
    /\ ~overtaken[work[w].cluster] /\ "stall" \notin Faults
    => v = w

(* A plan file that the row authorises for the current configuration is a  *)
(* plan of that configuration ("Konfiguration wurde seit dem Terraform-    *)
(* Plan geändert", services.py:357).                                       *)
AuthorisedPlanIsCurrent ==
  \A c \in Clusters :
    /\ Exists(c) /\ ~overtaken[c]
    /\ row[c].planned = row[c].config /\ disk[c].plan # None
    => disk[c].plan = row[c].config

(* Machines are only ever changed to those of the saved configuration,     *)
(* after its plan was consumed: exactly the reviewed plan is applied, once *)
(* (BUILDER.md:188).                                                       *)
BuildsReviewedPlan ==
  [][\A c \in Clusters :
       /\ vms'[c] # vms[c] /\ vms'[c] \in Hashes /\ ~overtaken[c]
       => /\ Exists(c)
          /\ vms'[c] = row[c].config
          /\ row[c].planned = None /\ row[c].status = "APPLYING"]_vars

(* A cluster shown as DESTROYED has none of the machines that terraform    *)
(* ever recorded for it, whatever runs broke or were killed before         *)
(* (worker.py:1245-1256).  It may have orphans.                            *)
DestroyedHasNoRecordedVMs ==
  \A c \in Clusters :
    Exists(c) /\ row[c].status = "DESTROYED" /\ ~overtaken[c] => vms[c] = "none"

(* READY is only shown while the saved configuration is the one recorded   *)
(* as applied.                                                             *)
ReadyMatchesApplied ==
  \A c \in Clusters :
    Exists(c) /\ row[c].status = "READY" /\ ~overtaken[c] => RuntimeCurrent(row[c])

(* A cluster in APPLYING has a RUNNING job; as every job ends or is        *)
(* recovered (EveryJobEnds), no cluster is left APPLYING for good.         *)
ApplyingHasJob ==
  \A c \in Clusters :
    Exists(c) /\ row[c].status = "APPLYING" /\ ~overtaken[c] =>
      \E j \in JobsOf(c) : jobs[j].status = "RUNNING"

(* A kubeconfig on disk belongs to the configuration whose runtime is      *)
(* current, once the request that edits the cluster has removed the old    *)
(* one (services.py:319).  If the web process died before it did so, the   *)
(* next finished edit or provisioning puts it right.                       *)
KubeconfigIsCurrent ==
  \A c \in Clusters :
    /\ Exists(c) /\ RuntimeCurrent(row[c]) /\ disk[c].kubeconfig # None
    /\ ~overtaken[c] /\ ~abandoned[c]
    /\ \A h \in Requests : ~(Serving(h, "unlink") /\ req[h].cluster = c)
    => disk[c].kubeconfig = row[c].config

(* The record of a cluster is only deleted when none of the machines that  *)
(* terraform recorded and no worker is left, nor will there be any after   *)
(* it; and, unless it is DESTROYED, no orphan with a VM id of the saved or *)
(* the applied configuration either (main.py:891-897).                     *)
DeletedLeavesNothing ==
  [][\A c \in Clusters :
       ~Exists(c)' /\ ~overtaken'[c] =>
         /\ vms'[c] = "none" /\ \A w \in Workers : Busy(w)' => work'[w].cluster # c
         /\ \/ ~Exists(c) \/ row[c].status = "DESTROYED"
            \/ orphans[c] \intersect {row[c].config, row[c].applied} = {}]_vars

(* The refinement: a job row that is gone or finished is closed.           *)
Phase(j) ==
  IF j > issued THEN "unused"
  ELSE IF j \notin DOMAIN jobs THEN "closed"
  ELSE CASE jobs[j].status = "QUEUED"  -> "waiting"
         [] jobs[j].status = "RUNNING" -> "running"
         [] OTHER -> "closed"

Queue == INSTANCE JobQueue WITH
  phase <- [j \in JobIds |-> Phase(j)],
  owner <- [j \in JobIds |->
              IF Phase(j) \in {"waiting", "running"} THEN jobs[j].cluster ELSE None]

(* The job table implements the abstract queue, under every race and       *)
(* crash, also when a slow worker was given up for dead.                   *)
ImplementsQueue == Queue!QueueSpec

(* Every job that was queued ends.                                         *)
EveryJobEnds == Queue!EveryJobCloses

-----------------------------------------------------------------------------
(* What a comment, a message or the manual says of the program without the *)
(* proviso about overtaken requests; the code does not keep it.            *)

(* After a change of the configuration the runtime state no longer counts  *)
(* as current and a new plan is required (BUILDER.md:188): a READY cluster *)
(* runs the saved configuration.                                           *)
ReadyRunsConfig ==
  \A c \in Clusters :
    Exists(c) /\ row[c].status = "READY" => vms[c] = row[c].config
=============================================================================
