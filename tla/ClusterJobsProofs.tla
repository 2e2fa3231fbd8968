-------------------------- MODULE ClusterJobsProofs --------------------------
(***************************************************************************)
(* What holds of ClusterJobs for every number of clusters, workers,        *)
(* requests and jobs.                                                      *)
(***************************************************************************)
EXTENDS ClusterJobs, TLAPS

USE DEF machines, history

(* What TypeOK leaves out: the fields a request has set where it is, ..    *)
RequestsServed ==
  {r \in RequestStates :
    /\ r.pc # "idle" => r.cluster \in Clusters
    /\ r.pc \in {"form", "save", "lock", "check", "insert"} => r.snap \in Rows
    /\ r.pc = "save" => r.arg \in Hashes
    /\ r.pc \in {"lock", "check", "insert"} => r.arg \in JobKinds
    /\ r.pc = "cancel" => r.job \in JobIds}

(* .. and those of a worker that executes a job.                           *)
WorkerHoldings ==
  {s \in WorkerStates :
    s.pc # "idle" => /\ s.job \in JobIds /\ s.cluster \in Clusters
                     /\ s.kind \in JobKinds /\ s.hash \in Hashes}

TypeInv ==
  /\ TypeOK
  /\ req \in [Requests -> RequestsServed]
  /\ work \in [Workers -> WorkerHoldings]

LEMMA IdleTypes == Idle \in RequestsServed /\ Resting \in WorkerHoldings
BY DEF Idle, Resting, RequestStates, WorkerStates, RequestPCs, WorkerPCs, RequestsServed,
       WorkerHoldings

LEMMA InitTypeInv == Init => TypeInv
<1> SUFFICES ASSUME Init PROVE TypeInv
  OBVIOUS
<1> USE ConstantsAssumption
<1>1. PICK saved \in [Clusters -> Hashes] :
        /\ row = [c \in Clusters |->
             [status |-> "DRAFT", config |-> saved[c], planned |-> None,
              destroyPlanned |-> None, applied |-> None]]
        /\ disk = [c \in Clusters |-> [EmptyWorkspace EXCEPT !.inputs = saved[c]]]
  BY DEF Init
<1>2. row \in [Clusters -> Rows \union {None}]
  BY <1>1 DEF Rows, ClusterStatuses
<1>3. disk \in [Clusters -> Workspaces]
  BY <1>1 DEF Workspaces, EmptyWorkspace, PlanFiles
<1>4. jobs \in [DOMAIN jobs -> Jobs] /\ DOMAIN jobs \subseteq JobIds
  BY DEF Init
<1>5. issued \in 0 .. MaxJobs
  BY DEF Init
<1>6. /\ req \in [Requests -> RequestsServed] /\ work \in [Workers -> WorkerHoldings]
  BY IdleTypes DEF Init
<1>7. /\ lock \in [Clusters -> Requests \union {None}]
      /\ vms \in [Clusters -> Machines] /\ orphans \in [Clusters -> SUBSET Hashes]
      /\ overtaken \in [Clusters -> BOOLEAN] /\ abandoned \in [Clusters -> BOOLEAN]
  BY DEF Init, Machines
<1> QED
  BY <1>2, <1>3, <1>4, <1>5, <1>6, <1>7 DEF TypeInv, TypeOK, RequestsServed, WorkerHoldings

-----------------------------------------------------------------------------
(* The steps that change what a request holds.                             *)

LEMMA ServedStep ==
  ASSUME TypeInv, NEW h \in Requests, NewRequest(h) \/ RequestStep(h)
  PROVE  req' \in [Requests -> RequestsServed]
<1> USE ConstantsAssumption, IdleTypes DEF TypeInv
<1>1. SUFFICES \E r \in RequestsServed : req' = [req EXCEPT ![h] = r]
  OBVIOUS
<1>2. req[h] \in RequestsServed
  OBVIOUS
<1>3. CASE Answer(h)
  BY <1>3 DEF Answer
<1>4. ASSUME NEW c \in Clusters, BeginEdit(h, c) \/ BeginDelete(h, c)
      PROVE  \E r \in RequestsServed : req' = [req EXCEPT ![h] = r]
  <2>1. [Idle EXCEPT !.pc = "form", !.cluster = c, !.snap = row[c], !.seen = issued]
          \in RequestsServed
    BY <1>4
    DEF BeginEdit, BeginDelete, Idle, RequestsServed, RequestStates, RequestPCs, TypeOK, Exists
  <2>2. \A pc \in {"rmtree", "probe"} :
          [Idle EXCEPT !.pc = pc, !.cluster = c, !.snap = row[c], !.seen = issued]
            \in RequestsServed
    BY <1>4
    DEF BeginEdit, BeginDelete, Idle, RequestsServed, RequestStates, RequestPCs, TypeOK, Exists
  <2> QED
    BY <1>4, <2>1, <2>2 DEF BeginEdit, BeginDelete
<1>5. ASSUME NEW c \in Clusters, NEW kind \in Kinds, StartJob(h, c, kind)
      PROVE  \E r \in RequestsServed : req' = [req EXCEPT ![h] = r]
  <2>1. [Idle EXCEPT !.pc = "lock", !.cluster = c, !.snap = row[c], !.seen = issued,
                     !.arg = kind] \in RequestsServed
    BY <1>5 DEF StartJob, Idle, RequestsServed, RequestStates, RequestPCs, TypeOK, Exists
  <2> QED
    BY <1>5, <2>1 DEF StartJob
<1>6. ASSUME NEW j \in JobIds, ReadForCancel(h, j)
      PROVE  \E r \in RequestsServed : req' = [req EXCEPT ![h] = r]
  <2>1. [Idle EXCEPT !.pc = "cancel", !.cluster = jobs[j].cluster, !.job = j,
                     !.arg = jobs[j].status] \in RequestsServed
    <3>1. jobs[j].cluster \in Clusters /\ jobs[j].status \in JobStatuses
      BY <1>6 DEF ReadForCancel, TypeOK, Jobs
    <3> QED
      BY <3>1 DEF Idle, RequestsServed, RequestStates, RequestPCs
  <2> QED
    BY <1>6, <2>1 DEF ReadForCancel
<1>7. CASE RenderEdit(h)
  <2>1. \A new \in Hashes : Serving(h, "form") =>
          [req[h] EXCEPT !.pc = "save", !.arg = new] \in RequestsServed
    BY <1>2 DEF Serving, RequestsServed, RequestStates, RequestPCs
  <2>2. ASSUME NEW new \in Hashes, req' = [req EXCEPT ![h].pc = "save", ![h].arg = new]
        PROVE  req' = [req EXCEPT ![h] = [req[h] EXCEPT !.pc = "save", !.arg = new]]
    BY <2>2 DEF RequestsServed, RequestStates
  <2> QED
    BY <1>3, <1>7, <2>1, <2>2 DEF RenderEdit
<1>8. CASE CommitEdit(h)
  <2>1. Serving(h, "save") =>
          [Idle EXCEPT !.pc = "unlink", !.cluster = req[h].cluster] \in RequestsServed
    BY <1>2 DEF Idle, Serving, RequestsServed, RequestStates, RequestPCs
  <2> QED
    BY <1>3, <1>8, <2>1 DEF CommitEdit
<1>9. ASSUME NEW pc \in {"check", "insert", "rmtree", "delete"}, Proceed(h, pc),
             \/ req[h].pc \in {"lock", "check"}
             \/ req[h].pc # "idle" /\ pc \in {"rmtree", "delete"}
      PROVE  \E r \in RequestsServed : req' = [req EXCEPT ![h] = r]
  <2>1. [req[h] EXCEPT !.pc = pc] \in RequestsServed
    BY <1>2, <1>9 DEF RequestsServed, RequestStates, RequestPCs
  <2> QED
    BY <1>9, <2>1 DEF Proceed
<1>10. CASE LockCluster(h) \/ CheckQueue(h) \/ ProbeVMs(h) \/ RemoveWorkspace(h)
  BY <1>3, <1>9, <1>10 DEF LockCluster, CheckQueue, ProbeVMs, RemoveWorkspace, Serving
<1>11. CASE UnlinkKubeconfig(h) \/ InsertJob(h) \/ WriteCancel(h) \/ DeleteRow(h)
  BY <1>3, <1>11 DEF UnlinkKubeconfig, InsertJob, WriteCancel, DeleteRow
<1> QED
  BY <1>4, <1>5, <1>6, <1>7, <1>8, <1>10, <1>11 DEF NewRequest, RequestStep
-----------------------------------------------------------------------------
(* The steps that change what a worker holds.                              *)

LEMMA HoldingStep ==
  ASSUME TypeInv, NEW w \in Workers, WorkerStep(w) \/ CrashWorker(w)
  PROVE  work' \in [Workers -> WorkerHoldings]
<1> USE ConstantsAssumption, IdleTypes DEF TypeInv
<1>1. SUFFICES (\E s \in WorkerHoldings : work' = [work EXCEPT ![w] = s]) \/ work' = work
  OBVIOUS
<1>2. work[w] \in WorkerHoldings
  OBVIOUS
<1>3. ASSUME NEW pc \in WorkerPCs, Goto(w, pc), ~At(w, "idle")
      PROVE  \E s \in WorkerHoldings : work' = [work EXCEPT ![w] = s]
  <2>1. [work[w] EXCEPT !.pc = pc] \in WorkerHoldings
    BY <1>2, <1>3 DEF WorkerHoldings, WorkerStates, At
  <2> QED
    BY <1>3, <2>1 DEF Goto
<1>4. ASSUME Breaks(w), Busy(w)
      PROVE  \E s \in WorkerHoldings : work' = [work EXCEPT ![w] = s]
  BY <1>3, <1>4 DEF Breaks, NoticesCancel, WorkerPCs, Busy
<1>5. CASE RecoverStaleJobs(w)
  BY <1>5 DEF RecoverStaleJobs
<1>6. CASE SelectJob(w) \/ ClaimJob(w)
  <2>1. CASE ClaimJob(w)
    BY <1>3, <2>1 DEF ClaimJob, At, WorkerPCs
  <2>2. CASE SelectJob(w)
    <3>1. PICK j \in Queued :
            work' = [work EXCEPT ![w] =
              [pc |-> "selected", job |-> j, cluster |-> jobs[j].cluster,
               kind |-> jobs[j].kind, hash |-> jobs[j].hash]]
      BY <2>2 DEF SelectJob, Select
    <3>2. j \in JobIds /\ jobs[j] \in Jobs
      BY DEF Queued, TypeOK
    <3>3. [pc |-> "selected", job |-> j, cluster |-> jobs[j].cluster,
           kind |-> jobs[j].kind, hash |-> jobs[j].hash] \in WorkerHoldings
      BY <3>2 DEF Jobs, WorkerHoldings, WorkerStates, WorkerPCs
    <3> QED
      BY <3>1, <3>3
  <2> QED
    BY <1>6, <2>1, <2>2
<1>7. CASE Execute(w)
  <2>1. Busy(w) /\ work[w].kind \in JobKinds
    BY <1>2, <1>7 DEF Execute, Busy, At, WorkerHoldings
  <2>2. FirstStep(work[w].kind) \in WorkerPCs
    BY <2>1 DEF FirstStep, WorkerPCs, JobKinds, PlanKinds, FailureKinds, MutatingKinds
  <2>3. \E pc \in WorkerPCs : Goto(w, pc)
    BY <1>7, <2>2 DEF Execute, WorkerPCs
  <2> QED
    BY <1>3, <2>1, <2>3 DEF Busy
<1>8. CASE FinishJob(w) \/ CrashWorker(w)
  BY <1>8 DEF FinishJob, CrashWorker
<1>9. CASE InvalidatePlan(w) \/ CreatePlan(w) \/ RecordPlan(w) \/ ValidateApply(w)
  BY <1>3, <1>4, <1>9
  DEF InvalidatePlan, CreatePlan, RecordPlan, ValidateApply, Busy, At, WorkerPCs
<1>10. CASE ConsumePlan(w) \/ TerraformApply(w) \/ RecordApply(w)
  BY <1>3, <1>4, <1>10
  DEF ConsumePlan, TerraformApply, RecordApply, Breaks, Busy, At, WorkerPCs
<1>11. CASE StartAnsible(w) \/ Provision(w) \/ MarkReady(w) \/ Verify(w) \/ RunManifest(w)
  BY <1>3, <1>4, <1>11
  DEF StartAnsible, Provision, MarkReady, Verify, RunManifest, Busy, At, WorkerPCs
<1>12. CASE ConsumeDestroyPlan(w) \/ TerraformDestroy(w) \/ RecordDestroy(w)
  BY <1>3, <1>4, <1>12
  DEF ConsumeDestroyPlan, TerraformDestroy, RecordDestroy, Breaks, Busy, At, WorkerPCs
<1> QED
  BY <1>5, <1>6, <1>7, <1>8, <1>9, <1>10, <1>11, <1>12 DEF WorkerStep, ExecuteStep

-----------------------------------------------------------------------------
(* The steps that change the row of a cluster.                             *)

LEMMA UpdateRowType ==
  ASSUME TypeInv, NEW c \in Clusters, NEW new, UpdateRow(c, new), Exists(c) => new \in Rows
  PROVE  row' \in [Clusters -> Rows \union {None}]
BY DEF TypeInv, TypeOK, UpdateRow, SetRow

LEMMA RowStepOfRequest ==
  ASSUME TypeInv, NEW h \in Requests, NewRequest(h) \/ RequestStep(h)
  PROVE  row' \in [Clusters -> Rows \union {None}]
<1> USE DEF TypeInv, TypeOK
<1>1. CASE CommitEdit(h)
  <2>1. PICK c, loaded, new :
          /\ c \in Clusters /\ loaded \in Rows /\ new \in Hashes
          /\ \/ Exists(c) /\ row' = [row EXCEPT ![c] = Flush(c, loaded, Edited(loaded, new))]
             \/ row' = row
    BY <1>1 DEF CommitEdit, Serving, RequestsServed
  <2>2. Edited(loaded, new) \in Rows
    BY <2>1 DEF Edited, Rows, ClusterStatuses
  <2>3. Exists(c) => Flush(c, loaded, Edited(loaded, new)) \in Rows
    BY <2>1, <2>2 DEF Flush, Rows, Exists
  <2> QED
    BY <2>1, <2>3
<1>2. CASE DeleteRow(h)
  BY <1>2 DEF DeleteRow
<1>3. CASE NewRequest(h)
  BY <1>3 DEF NewRequest, BeginEdit, BeginDelete, StartJob, ReadForCancel
<1>4. CASE \/ RenderEdit(h) \/ UnlinkKubeconfig(h) \/ LockCluster(h) \/ CheckQueue(h)
           \/ InsertJob(h) \/ WriteCancel(h) \/ ProbeVMs(h) \/ RemoveWorkspace(h)
  BY <1>4 DEF RenderEdit, UnlinkKubeconfig, LockCluster, CheckQueue, InsertJob, WriteCancel,
              ProbeVMs, RemoveWorkspace
<1> QED
  BY <1>1, <1>2, <1>3, <1>4 DEF RequestStep

LEMMA RowStepOfWorker ==
  ASSUME TypeInv, NEW w \in Workers, WorkerStep(w) \/ CrashWorker(w)
  PROVE  row' \in [Clusters -> Rows \union {None}]
<1> USE ConstantsAssumption DEF TypeInv, TypeOK
<1> DEFINE c == work[w].cluster
<1>1. work[w] \in WorkerHoldings
  OBVIOUS
<1>2. Busy(w) => c \in Clusters /\ work[w].hash \in Hashes
  BY <1>1 DEF Busy, At, WorkerHoldings
<1>3. Busy(w) /\ Exists(c) => row[c] \in Rows
  BY <1>2 DEF Exists
<1>4. CASE RecoverStaleJobs(w)
  <2>1. PICK broken \in SUBSET Clusters :
          /\ \A d \in broken : Exists(d)
          /\ row' = [d \in Clusters |->
                       IF d \in broken THEN [row[d] EXCEPT !.status = "FAILED"] ELSE row[d]]
    BY <1>4 DEF RecoverStaleJobs, BrokenBy
  <2>2. ASSUME NEW d \in broken PROVE [row[d] EXCEPT !.status = "FAILED"] \in Rows
    BY <2>1 DEF Exists, Rows, ClusterStatuses
  <2> QED
    BY <2>1, <2>2
<1>5. CASE InvalidatePlan(w)
  <2>1. Busy(w) /\ Exists(c) => Invalidated(row[c], work[w].kind) \in Rows
    BY <1>3 DEF Invalidated, Rows, ClusterStatuses
  <2> QED
    BY <1>2, <1>5, <2>1 DEF InvalidatePlan, SetRow, Busy, At
<1>6. CASE RecordPlan(w)
  <2>1. Busy(w) /\ Exists(c) => Planned(row[c], work[w].kind, work[w].hash) \in Rows
    BY <1>2, <1>3 DEF Planned, Rows, ClusterStatuses
  <2> QED
    BY <1>2, <1>6, <2>1, UpdateRowType DEF RecordPlan, Busy, At
<1>7. CASE ConsumePlan(w)
  <2>1. Busy(w) /\ Exists(c) => Consumed(row[c]) \in Rows
    BY <1>3 DEF Consumed, Rows, ClusterStatuses
  <2> QED
    BY <1>2, <1>7, <2>1 DEF ConsumePlan, SetRow, Busy, At
<1>8. CASE RecordApply(w)
  <2>1. Busy(w) /\ Exists(c) => [row[c] EXCEPT !.applied = work[w].hash] \in Rows
    BY <1>2, <1>3 DEF Rows
  <2> QED
    BY <1>2, <1>8, <2>1, UpdateRowType DEF RecordApply, Busy, At
<1>9. ASSUME NEW s \in ClusterStatuses
      PROVE  Busy(w) /\ Exists(c) => [row[c] EXCEPT !.status = s] \in Rows
  BY <1>3 DEF Rows
<1>10. CASE StartAnsible(w) \/ MarkReady(w)
  BY <1>2, <1>9, <1>10, UpdateRowType DEF StartAnsible, MarkReady, Busy, At, ClusterStatuses
<1>11. CASE Verify(w)
  BY <1>2, <1>3, <1>9, <1>11, UpdateRowType DEF Verify, Busy, At, ClusterStatuses
<1>12. CASE ConsumeDestroyPlan(w)
  <2>1. Busy(w) /\ Exists(c) =>
          [row[c] EXCEPT !.destroyPlanned = None, !.status = "APPLYING"] \in Rows
    BY <1>3 DEF Rows, ClusterStatuses
  <2> QED
    BY <1>2, <1>12, <2>1 DEF ConsumeDestroyPlan, SetRow, Busy, At
<1>13. CASE RecordDestroy(w)
  <2>1. Busy(w) /\ Exists(c) => Destroyed(row[c]) \in Rows
    BY <1>3 DEF Destroyed, Rows, ClusterStatuses
  <2> QED
    BY <1>2, <1>13, <2>1, UpdateRowType DEF RecordDestroy, Busy, At
<1>14. CASE FinishJob(w)
  BY <1>2, <1>9, <1>14, UpdateRowType DEF FinishJob, Busy, At, ClusterStatuses
<1>15. CASE \/ SelectJob(w) \/ ClaimJob(w) \/ Execute(w) \/ CreatePlan(w) \/ ValidateApply(w)
            \/ TerraformApply(w) \/ Provision(w) \/ RunManifest(w) \/ TerraformDestroy(w)
            \/ CrashWorker(w)
  BY <1>15 DEF SelectJob, ClaimJob, Execute, CreatePlan, ValidateApply, TerraformApply, Provision,
               RunManifest, TerraformDestroy, CrashWorker
<1> QED
  BY <1>4, <1>5, <1>6, <1>7, <1>8, <1>10, <1>11, <1>12, <1>13, <1>14, <1>15
  DEF WorkerStep, ExecuteStep
-----------------------------------------------------------------------------
(* Who changes whose memory, and what a worker holds.                      *)

(* Requests and workers leave each other's memory alone.                   *)
LEMMA WorkerLeavesRequests ==
  ASSUME NEW w \in Workers, WorkerStep(w) \/ CrashWorker(w)
  PROVE  UNCHANGED <<req, lock, overtaken>>
<1>1. CASE CrashWorker(w) \/ RecoverStaleJobs(w) \/ SelectJob(w) \/ ClaimJob(w)
  BY <1>1 DEF CrashWorker, RecoverStaleJobs, SelectJob, ClaimJob
<1>2. CASE \/ Execute(w) \/ FinishJob(w) \/ InvalidatePlan(w) \/ CreatePlan(w) \/ RecordPlan(w)
           \/ ValidateApply(w) \/ ConsumePlan(w) \/ TerraformApply(w) \/ RecordApply(w)
  BY <1>2 DEF Execute, FinishJob, InvalidatePlan, CreatePlan, RecordPlan, ValidateApply,
              ConsumePlan, TerraformApply, RecordApply
<1>3. CASE \/ StartAnsible(w) \/ Provision(w) \/ MarkReady(w) \/ Verify(w) \/ RunManifest(w)
           \/ ConsumeDestroyPlan(w) \/ TerraformDestroy(w) \/ RecordDestroy(w)
  BY <1>3 DEF StartAnsible, Provision, MarkReady, Verify, RunManifest, ConsumeDestroyPlan,
              TerraformDestroy, RecordDestroy
<1> QED
  BY <1>1, <1>2, <1>3 DEF WorkerStep, ExecuteStep

(* Only a finished provisioning forgets an abandoned edit.                 *)
LEMMA WorkerAbandons ==
  ASSUME NEW w \in Workers, WorkerStep(w) \/ CrashWorker(w)
  PROVE  \/ abandoned' = abandoned
         \/ Provision(w) /\ abandoned' = [abandoned EXCEPT ![work[w].cluster] = FALSE]
<1>1. CASE CrashWorker(w) \/ RecoverStaleJobs(w) \/ SelectJob(w) \/ ClaimJob(w)
  BY <1>1 DEF CrashWorker, RecoverStaleJobs, SelectJob, ClaimJob
<1>2. CASE \/ Execute(w) \/ FinishJob(w) \/ InvalidatePlan(w) \/ CreatePlan(w) \/ RecordPlan(w)
           \/ ValidateApply(w) \/ ConsumePlan(w) \/ TerraformApply(w) \/ RecordApply(w)
  BY <1>2 DEF Execute, FinishJob, InvalidatePlan, CreatePlan, RecordPlan, ValidateApply,
              ConsumePlan, TerraformApply, RecordApply
<1>3. CASE \/ StartAnsible(w) \/ MarkReady(w) \/ Verify(w) \/ RunManifest(w)
           \/ ConsumeDestroyPlan(w) \/ TerraformDestroy(w) \/ RecordDestroy(w)
  BY <1>3 DEF StartAnsible, MarkReady, Verify, RunManifest, ConsumeDestroyPlan, TerraformDestroy,
              RecordDestroy
<1>4. CASE Provision(w)
  BY <1>4 DEF Provision
<1> QED
  BY <1>1, <1>2, <1>3, <1>4 DEF WorkerStep, ExecuteStep

LEMMA RequestLeavesWorkers ==
  ASSUME NEW h \in Requests, NewRequest(h) \/ RequestStep(h)
  PROVE  UNCHANGED work
<1>1. CASE NewRequest(h)
  BY <1>1 DEF NewRequest, BeginEdit, BeginDelete, StartJob, ReadForCancel
<1>2. CASE RequestStep(h)
  BY <1>2 DEF RequestStep, RenderEdit, CommitEdit, UnlinkKubeconfig, WriteCancel, ProbeVMs,
              RemoveWorkspace, DeleteRow, LockCluster, CheckQueue, InsertJob
<1> QED
  BY <1>1, <1>2

(* The worker stays in its job, or has none.                               *)
Continues(v) ==
  \/ work'[v] = work[v]
  \/ At(v, "idle")'
  \/ /\ Busy(v) /\ Busy(v)'
     /\ work'[v].job = work[v].job /\ work'[v].cluster = work[v].cluster
     /\ work'[v].kind = work[v].kind /\ work'[v].hash = work[v].hash

LEMMA GotoContinues ==
  ASSUME TypeInv, NEW w \in Workers, Busy(w),
         NEW pc \in WorkerPCs \ {"idle", "selected"}, Goto(w, pc)
  PROVE  /\ \A v \in Workers : Continues(v)
         /\ \A v \in Workers \ {w} : work'[v] = work[v]
         /\ Busy(w)' /\ work'[w] = [work[w] EXCEPT !.pc = pc]
BY DEF TypeInv, TypeOK, WorkerHoldings, WorkerStates, Goto, Busy, At, Continues

LEMMA BreaksContinues ==
  ASSUME TypeInv, NEW w \in Workers, Busy(w), Breaks(w)
  PROVE  /\ \A v \in Workers : Continues(v)
         /\ \A v \in Workers \ {w} : work'[v] = work[v]
         /\ Busy(w)'
         /\ \E pc \in {"failed", "cancelled"} : work'[w] = [work[w] EXCEPT !.pc = pc]
BY GotoContinues DEF Breaks, NoticesCancel, WorkerPCs

LEMMA ExecuteContinues ==
  ASSUME TypeInv, NEW w \in Workers, ExecuteStep(w), ~FinishJob(w)
  PROVE  /\ \A v \in Workers : Continues(v)
         /\ \A v \in Workers \ {w} : work'[v] = work[v]
         /\ Busy(w) /\ Busy(w)'
         /\ work'[w] = [work[w] EXCEPT !.pc = work'[w].pc]
<1> DEFINE Goal ==
      /\ \A v \in Workers : Continues(v)
      /\ \A v \in Workers \ {w} : work'[v] = work[v]
      /\ Busy(w) /\ Busy(w)'
      /\ work'[w] = [work[w] EXCEPT !.pc = work'[w].pc]
<1>1. work[w] \in WorkerStates
  BY DEF TypeInv, TypeOK
<1>2. ASSUME Busy(w), NEW pc \in WorkerPCs \ {"idle", "selected"}, Goto(w, pc) PROVE Goal
  <2>1. /\ \A v \in Workers : Continues(v)
        /\ \A v \in Workers \ {w} : work'[v] = work[v]
        /\ Busy(w)' /\ work'[w] = [work[w] EXCEPT !.pc = pc]
    BY <1>2, GotoContinues
  <2>2. work'[w] = [work[w] EXCEPT !.pc = work'[w].pc]
    BY <1>1, <2>1 DEF WorkerStates
  <2> QED
    BY <1>2, <2>1, <2>2
<1>3. ASSUME Busy(w), Breaks(w) PROVE Goal
  BY <1>1, <1>3, BreaksContinues DEF WorkerStates
<1> HIDE DEF Goal
<1>4. CASE Execute(w)
  <2>1. Busy(w) /\ work[w].kind \in JobKinds
    BY <1>4 DEF Execute, Busy, At, TypeInv, WorkerHoldings
  <2>2. FirstStep(work[w].kind) \in WorkerPCs \ {"idle", "selected"}
    BY <2>1 DEF FirstStep, WorkerPCs, JobKinds, PlanKinds, FailureKinds, MutatingKinds
  <2> QED
    BY <1>2, <1>4, <2>1, <2>2 DEF Execute, WorkerPCs, Goal
<1>5. CASE InvalidatePlan(w) \/ CreatePlan(w) \/ RecordPlan(w) \/ ValidateApply(w)
  BY <1>2, <1>3, <1>5
  DEF InvalidatePlan, CreatePlan, RecordPlan, ValidateApply, Busy, At, WorkerPCs, Goal
<1>6. CASE ConsumePlan(w) \/ TerraformApply(w) \/ RecordApply(w)
  BY <1>2, <1>3, <1>6 DEF ConsumePlan, TerraformApply, RecordApply, Breaks, Busy, At, WorkerPCs, Goal
<1>7. CASE StartAnsible(w) \/ Provision(w) \/ MarkReady(w) \/ Verify(w) \/ RunManifest(w)
  BY <1>2, <1>3, <1>7
  DEF StartAnsible, Provision, MarkReady, Verify, RunManifest, Busy, At, WorkerPCs, Goal
<1>8. CASE ConsumeDestroyPlan(w) \/ TerraformDestroy(w) \/ RecordDestroy(w)
  BY <1>2, <1>3, <1>8
  DEF ConsumeDestroyPlan, TerraformDestroy, RecordDestroy, Breaks, Busy, At, WorkerPCs, Goal
<1> QED
  BY <1>4, <1>5, <1>6, <1>7, <1>8 DEF ExecuteStep, Goal

LEMMA WorkStep ==
  ASSUME TypeInv, [Next]_vars
  PROVE  \/ \E w \in Workers : SelectJob(w) \/ ClaimJob(w)
         \/ \A v \in Workers : Continues(v)
<1>1. UNCHANGED work => \A v \in Workers : Continues(v)
  BY DEF Continues
<1>2. ASSUME NEW w \in Workers, RecoverStaleJobs(w) PROVE UNCHANGED work
  BY <1>2 DEF RecoverStaleJobs
<1>3. ASSUME NEW w \in Workers, FinishJob(w) \/ CrashWorker(w)
      PROVE  \A v \in Workers : Continues(v)
  <2>1. work' = [work EXCEPT ![w] = Resting]
    BY <1>3 DEF FinishJob, CrashWorker
  <2> QED
    BY <2>1 DEF Continues, At, Resting, TypeInv, TypeOK
<1>4. ASSUME NEW h \in Requests, NewRequest(h) \/ RequestStep(h) PROVE UNCHANGED work
  BY <1>4, RequestLeavesWorkers
<1>5. CASE UNCHANGED vars \/ CrashWeb \/ \E c \in Clusters : PruneJobs(c)
  BY <1>1, <1>5 DEF vars, CrashWeb, PruneJobs
<1> QED
  BY <1>1, <1>2, <1>3, <1>4, <1>5, ExecuteContinues DEF Next, WorkerStep

-----------------------------------------------------------------------------
(* What any step may do to the job table: a job is inserted, jobs are      *)
(* removed, jobs end, or a queued job is claimed.                          *)

JobsTyped == DOMAIN jobs \subseteq 1 .. issued /\ jobs \in [DOMAIN jobs -> Jobs]

(* A selected job is queued and one worker has selected it; a job that is  *)
(* executed is not queued any more.                                        *)
SelectedInv ==
  /\ \A w \in Workers : At(w, "selected") =>
       /\ work[w].job \in Queued
       /\ work[w].cluster = jobs[work[w].job].cluster
       /\ work[w].kind = jobs[work[w].job].kind
       /\ work[w].hash = jobs[work[w].job].hash
  /\ \A w \in Workers : Busy(w) => work[w].job <= issued /\ work[w].job \notin Queued
  /\ \A v, w \in Workers :
       At(v, "selected") /\ At(w, "selected") /\ work[v].job = work[w].job => v = w

JobsInv == JobsTyped /\ SelectedInv

Inserts(h) ==
  /\ Serving(h, "insert") /\ ~Serving(h, "insert")' /\ issued < MaxJobs
  /\ issued' = issued + 1
  /\ jobs' = [j \in DOMAIN jobs \union {issued + 1} |->
       IF j = issued + 1
         THEN [status |-> "QUEUED", kind |-> req[h].arg, cluster |-> req[h].cluster,
               hash |-> req[h].snap.config, cancel |-> FALSE]
         ELSE jobs[j]]

Removes(gone) == issued' = issued /\ jobs' = [j \in DOMAIN jobs \ gone |-> jobs[j]]

EndsSome ==
  /\ issued' = issued
  /\ DOMAIN jobs' = DOMAIN jobs
  /\ jobs' \in [DOMAIN jobs -> Jobs]
  /\ \A j \in DOMAIN jobs :
       /\ jobs'[j].cluster = jobs[j].cluster
       /\ jobs'[j].status = jobs[j].status \/ jobs'[j].status \in FinalStatuses

Claims(j) ==
  /\ issued' = issued
  /\ jobs' = [jobs EXCEPT ![j].status = "RUNNING"]
  /\ j \in Queued

LEMMA JobsStepOfRequest ==
  ASSUME TypeInv, NEW h \in Requests, NewRequest(h) \/ RequestStep(h)
  PROVE  \/ Inserts(h)
         \/ \E c \in Clusters : DeleteRow(h) /\ Removes(JobsOf(c))
         \/ EndsSome
<1> USE DEF TypeInv, TypeOK
<1>1. UNCHANGED <<jobs, issued>> => EndsSome
  BY DEF EndsSome
<1>2. CASE InsertJob(h)
  <2>1. issued < MaxJobs => ~Serving(h, "insert")'
    BY <1>2 DEF InsertJob, Answer, Idle, Serving
  <2> QED
    BY <1>1, <1>2, <2>1 DEF InsertJob, Inserts
<1>3. CASE DeleteRow(h)
  BY <1>3 DEF DeleteRow, RemoveJobs, Removes, Serving, RequestsServed
<1>4. CASE WriteCancel(h)
  <2>1. PICK j \in JobIds :
          \/ j \in DOMAIN jobs /\ jobs' = [jobs EXCEPT ![j].status = "CANCELLED"]
          \/ j \in DOMAIN jobs /\ jobs' = [jobs EXCEPT ![j].cancel = TRUE]
          \/ jobs' = jobs
    BY <1>4 DEF WriteCancel, Serving, RequestsServed
  <2>2. issued' = issued
    BY <1>4 DEF WriteCancel
  <2>3. CASE j \in DOMAIN jobs /\ jobs' = [jobs EXCEPT ![j].status = "CANCELLED"]
    BY <2>2, <2>3 DEF EndsSome, Jobs, JobStatuses, FinalStatuses, ActiveStatuses
  <2>4. CASE j \in DOMAIN jobs /\ jobs' = [jobs EXCEPT ![j].cancel = TRUE]
    BY <2>2, <2>4 DEF EndsSome, Jobs
  <2> QED
    BY <1>1, <2>1, <2>2, <2>3, <2>4
<1>5. CASE NewRequest(h)
  BY <1>1, <1>5 DEF NewRequest, BeginEdit, BeginDelete, StartJob, ReadForCancel
<1>6. CASE \/ RenderEdit(h) \/ CommitEdit(h) \/ UnlinkKubeconfig(h) \/ LockCluster(h)
           \/ CheckQueue(h) \/ ProbeVMs(h) \/ RemoveWorkspace(h)
  BY <1>1, <1>6 DEF RenderEdit, CommitEdit, UnlinkKubeconfig, LockCluster, CheckQueue,
                    ProbeVMs, RemoveWorkspace
<1> QED
  BY <1>2, <1>3, <1>4, <1>5, <1>6 DEF RequestStep

LEMMA JobsStepOfWorker ==
  ASSUME TypeInv, JobsInv, NEW w \in Workers, WorkerStep(w) \/ CrashWorker(w)
  PROVE  EndsSome \/ \E j \in Queued : Claims(j)
<1> USE DEF TypeInv, TypeOK
<1>1. UNCHANGED <<jobs, issued>> => EndsSome
  BY DEF EndsSome
<1>2. CASE RecoverStaleJobs(w)
  <2>1. PICK lost \in SUBSET DOMAIN jobs :
          jobs' = [j \in DOMAIN jobs |->
            IF j \in lost THEN [jobs[j] EXCEPT !.status = "FAILED"] ELSE jobs[j]]
    BY <1>2 DEF RecoverStaleJobs
  <2>2. issued' = issued
    BY <1>2 DEF RecoverStaleJobs
  <2> QED
    BY <2>1, <2>2 DEF EndsSome, Jobs, JobStatuses, FinalStatuses, ActiveStatuses
<1>3. CASE ClaimJob(w)
  BY <1>3 DEF ClaimJob, Claims, JobsInv, SelectedInv
<1>4. CASE FinishJob(w)
  <2>1. issued' = issued /\ FinalStatus(work[w].pc) \in FinalStatuses
    BY <1>4 DEF FinishJob, FinalStatus, FinalStatuses
  <2>2. CASE jobs' = jobs
    BY <1>1, <2>1, <2>2
  <2>3. ASSUME NEW j \in DOMAIN jobs,
               jobs' = [jobs EXCEPT ![j].status = FinalStatus(work[w].pc)]
        PROVE  EndsSome
    BY <2>1, <2>3 DEF EndsSome, Jobs, JobStatuses, FinalStatuses, ActiveStatuses
  <2> QED
    BY <1>4, <2>2, <2>3 DEF FinishJob
<1>5. CASE \/ SelectJob(w) \/ Execute(w) \/ InvalidatePlan(w) \/ CreatePlan(w) \/ RecordPlan(w)
           \/ ValidateApply(w) \/ ConsumePlan(w) \/ TerraformApply(w) \/ RecordApply(w)
  BY <1>1, <1>5 DEF SelectJob, Execute, InvalidatePlan, CreatePlan, RecordPlan, ValidateApply,
                    ConsumePlan, TerraformApply, RecordApply
<1>6. CASE \/ StartAnsible(w) \/ Provision(w) \/ MarkReady(w) \/ Verify(w)
           \/ RunManifest(w) \/ ConsumeDestroyPlan(w) \/ TerraformDestroy(w)
           \/ RecordDestroy(w) \/ CrashWorker(w)
  BY <1>1, <1>6 DEF StartAnsible, Provision, MarkReady, Verify, RunManifest,
                    ConsumeDestroyPlan, TerraformDestroy, RecordDestroy, CrashWorker
<1> QED
  BY <1>2, <1>3, <1>4, <1>5, <1>6 DEF WorkerStep, ExecuteStep

LEMMA JobsStep ==
  ASSUME TypeInv, JobsInv, [Next]_vars
  PROVE  \/ \E h \in Requests : Inserts(h)
         \/ \E gone \in SUBSET DOMAIN jobs : Removes(gone)
         \/ EndsSome
         \/ \E j \in Queued : Claims(j)
<1>1. CASE UNCHANGED vars
  BY <1>1 DEF vars, EndsSome, TypeInv, TypeOK
<1>2. CASE CrashWeb
  BY <1>2 DEF CrashWeb, EndsSome, TypeInv, TypeOK
<1>3. CASE \E c \in Clusters : PruneJobs(c)
  BY <1>3 DEF PruneJobs, RemoveJobs, Removes, FinishedJobs, JobsOf
<1>4. CASE \E h \in Requests : NewRequest(h) \/ RequestStep(h)
  BY <1>4, JobsStepOfRequest DEF JobsOf
<1>5. CASE \E w \in Workers : WorkerStep(w) \/ CrashWorker(w)
  BY <1>5, JobsStepOfWorker
<1> QED
  BY <1>1, <1>2, <1>3, <1>4, <1>5 DEF Next

LEMMA JobsTypedStep ==
  ASSUME TypeInv, JobsInv, [Next]_vars
  PROVE  JobsTyped' /\ issued' \in 0 .. MaxJobs
<1> USE ConstantsAssumption DEF TypeInv, TypeOK, JobsInv
<1>1. ASSUME NEW h \in Requests, Inserts(h)
      PROVE  JobsTyped' /\ issued' \in 0 .. MaxJobs
  <2>1. [status |-> "QUEUED", kind |-> req[h].arg, cluster |-> req[h].cluster,
         hash |-> req[h].snap.config, cancel |-> FALSE] \in Jobs
    BY <1>1 DEF Inserts, Serving, RequestsServed, Rows, Jobs, JobStatuses, ActiveStatuses
  <2> QED
    BY <1>1, <2>1 DEF Inserts, JobsTyped
<1>2. ASSUME NEW gone, Removes(gone)
      PROVE  JobsTyped' /\ issued' \in 0 .. MaxJobs
  BY <1>2 DEF Removes, JobsTyped
<1>3. EndsSome => JobsTyped' /\ issued' \in 0 .. MaxJobs
  BY DEF EndsSome, JobsTyped
<1>4. ASSUME NEW j \in Queued, Claims(j)
      PROVE  JobsTyped' /\ issued' \in 0 .. MaxJobs
  BY <1>4 DEF Claims, Queued, JobsTyped, Jobs, JobStatuses, ActiveStatuses
<1> QED
  BY <1>1, <1>2, <1>3, <1>4, JobsStep

-----------------------------------------------------------------------------
(* The row lock of a worker that has selected a job.                       *)

LEMMA SelectedStays ==
  ASSUME TypeInv, JobsInv, [Next]_vars, NEW w \in Workers, At(w, "selected"),
         work'[w] = work[w], NEW j, j = work[w].job
  PROVE  j \in DOMAIN jobs' /\ jobs'[j] = jobs[j]
<1>1. j \in DOMAIN jobs /\ jobs[j].status = "QUEUED" /\ j \in 1 .. issued /\ issued \in Nat
  BY DEF JobsInv, JobsTyped, SelectedInv, Queued, TypeInv, TypeOK
<1>2. Claiming(j)
  BY DEF Claiming
<1> DEFINE Goal == j \in DOMAIN jobs' /\ jobs'[j] = jobs[j]
<1>3. jobs' = jobs => Goal
  BY <1>1
<1>4. CASE UNCHANGED vars \/ CrashWeb
  BY <1>3, <1>4 DEF vars, CrashWeb
<1>5. CASE \E c \in Clusters : PruneJobs(c)
  BY <1>1, <1>5 DEF PruneJobs, RemoveJobs, FinishedJobs, FinalStatuses
<1>6. ASSUME NEW h \in Requests, NewRequest(h) PROVE Goal
  BY <1>3, <1>6 DEF NewRequest, BeginEdit, BeginDelete, StartJob, ReadForCancel
<1>7. ASSUME NEW h \in Requests, RequestStep(h) PROVE Goal
  <2>1. CASE InsertJob(h)
    BY <1>1, <1>3, <2>1 DEF InsertJob
  <2>2. CASE WriteCancel(h)
    <3>1. req[h].job # j
      BY <1>2, <2>2 DEF WriteCancel
    <3> QED
      BY <1>1, <2>2, <3>1 DEF WriteCancel
  <2>3. CASE DeleteRow(h)
    BY <1>1, <1>2, <2>3 DEF DeleteRow, RemoveJobs, JobsOf
  <2>4. CASE \/ RenderEdit(h) \/ CommitEdit(h) \/ UnlinkKubeconfig(h) \/ LockCluster(h)
             \/ CheckQueue(h) \/ ProbeVMs(h) \/ RemoveWorkspace(h)
    BY <1>3, <2>4 DEF RenderEdit, CommitEdit, UnlinkKubeconfig, LockCluster, CheckQueue,
                      ProbeVMs, RemoveWorkspace
  <2> QED
    BY <1>7, <2>1, <2>2, <2>3, <2>4 DEF RequestStep
<1>8. ASSUME NEW v \in Workers, WorkerStep(v) \/ CrashWorker(v) PROVE Goal
  <2>1. CASE RecoverStaleJobs(v)
    BY <1>1, <2>1 DEF RecoverStaleJobs, Silent
  <2>2. CASE ClaimJob(v)
    <3>1. work'[v].pc = "claimed" /\ work[w].pc = "selected"
      BY <2>2 DEF ClaimJob, Goto, At, TypeInv, TypeOK, WorkerStates
    <3>2. v # w
      BY <3>1
    <3>3. work[v].job # j
      BY <2>2, <3>2 DEF JobsInv, SelectedInv, ClaimJob
    <3> QED
      BY <1>1, <2>2, <3>3 DEF ClaimJob
  <2>3. CASE FinishJob(v)
    <3>1. Busy(v)
      BY <2>3 DEF FinishJob, Busy, At
    <3>2. work[v].job # j
      BY <1>1, <3>1 DEF JobsInv, SelectedInv, Queued
    <3> QED
      BY <1>1, <2>3, <3>2 DEF FinishJob
  <2>4. CASE \/ SelectJob(v) \/ Execute(v) \/ InvalidatePlan(v) \/ CreatePlan(v) \/ RecordPlan(v)
             \/ ValidateApply(v) \/ ConsumePlan(v) \/ TerraformApply(v) \/ RecordApply(v)
    BY <1>3, <2>4 DEF SelectJob, Execute, InvalidatePlan, CreatePlan, RecordPlan, ValidateApply,
                      ConsumePlan, TerraformApply, RecordApply
  <2>5. CASE \/ StartAnsible(v) \/ Provision(v) \/ MarkReady(v) \/ Verify(v)
             \/ RunManifest(v) \/ ConsumeDestroyPlan(v) \/ TerraformDestroy(v)
             \/ RecordDestroy(v) \/ CrashWorker(v)
    BY <1>3, <2>5 DEF StartAnsible, Provision, MarkReady, Verify, RunManifest,
                      ConsumeDestroyPlan, TerraformDestroy, RecordDestroy, CrashWorker
  <2> QED
    BY <1>8, <2>1, <2>2, <2>3, <2>4, <2>5 DEF WorkerStep, ExecuteStep
<1> HIDE DEF Goal
<1>9. Goal
  BY <1>4, <1>5, <1>6, <1>7, <1>8 DEF Next, Goal
<1> QED
  BY <1>9 DEF Goal

LEMMA NeverQueuedAgain ==
  ASSUME TypeInv, JobsInv, [Next]_vars, NEW j \in 1 .. issued, j \notin Queued
  PROVE  j \notin Queued' /\ j <= issued'
<1>1. issued \in Nat
  BY DEF TypeInv, TypeOK
<1>2. j \in DOMAIN jobs => jobs[j].status # "QUEUED"
  BY DEF Queued
<1>3. ASSUME NEW h \in Requests, Inserts(h) PROVE j \notin Queued' /\ j <= issued'
  BY <1>1, <1>2, <1>3 DEF Inserts, Queued
<1>4. ASSUME NEW gone, Removes(gone) PROVE j \notin Queued' /\ j <= issued'
  BY <1>1, <1>2, <1>4 DEF Removes, Queued
<1>5. ASSUME EndsSome PROVE j \notin Queued' /\ j <= issued'
  BY <1>1, <1>2, <1>5 DEF EndsSome, Queued, FinalStatuses
<1>6. ASSUME NEW k \in Queued, Claims(k) PROVE j \notin Queued' /\ j <= issued'
  BY <1>1, <1>2, <1>6 DEF Claims, Queued, JobsInv, JobsTyped, Jobs
<1> QED
  BY <1>3, <1>4, <1>5, <1>6, JobsStep

LEMMA SelectedInvStep ==
  ASSUME TypeInv, JobsInv, [Next]_vars
  PROVE  SelectedInv'
<1> USE DEF TypeInv, TypeOK, JobsInv
<1> DEFINE Chosen(v) == /\ work'[v].job \in Queued'
                        /\ work'[v].cluster = jobs'[work'[v].job].cluster
                        /\ work'[v].kind = jobs'[work'[v].job].kind
                        /\ work'[v].hash = jobs'[work'[v].job].hash
           Taken(v) == work'[v].job <= issued' /\ work'[v].job \notin Queued'
<1>1. ASSUME NEW v \in Workers, At(v, "selected"), work'[v] = work[v]
      PROVE  Chosen(v)
  BY <1>1, SelectedStays DEF SelectedInv, Queued
<1>2. ASSUME NEW v \in Workers, Busy(v), work'[v].job = work[v].job
      PROVE  Taken(v)
  <2>1. work[v].job \in 1 .. issued /\ work[v].job \notin Queued
    BY <1>2 DEF SelectedInv, Busy, At, WorkerHoldings, JobIds
  <2> QED
    BY <1>2, <2>1, NeverQueuedAgain
<1>3. ASSUME NEW v \in Workers, Continues(v)
      PROVE  /\ At(v, "selected")' => At(v, "selected") /\ work'[v] = work[v] /\ Chosen(v)
             /\ Busy(v)' => Taken(v)
  <2>1. At(v, "selected")' => At(v, "selected") /\ work'[v] = work[v]
    BY <1>3 DEF Continues, At, Busy
  <2>2. Busy(v)' => Busy(v) /\ work'[v].job = work[v].job
    BY <1>3 DEF Continues, At, Busy
  <2> QED
    BY <1>1, <1>2, <2>1, <2>2
<1>4. CASE \A v \in Workers : Continues(v)
  <2>1. \A v, w \in Workers :
          At(v, "selected")' /\ At(w, "selected")' /\ work'[v].job = work'[w].job => v = w
    BY <1>3, <1>4 DEF SelectedInv
  <2> QED
    BY <1>3, <1>4, <2>1 DEF SelectedInv
<1>5. ASSUME NEW w \in Workers, SelectJob(w) PROVE SelectedInv'
  <2>1. PICK j \in Queued :
          /\ ~Claiming(j)
          /\ work' = [work EXCEPT ![w] =
               [pc |-> "selected", job |-> j, cluster |-> jobs[j].cluster,
                kind |-> jobs[j].kind, hash |-> jobs[j].hash]]
    BY <1>5 DEF SelectJob, Select
  <2>2. jobs' = jobs /\ issued' = issued /\ Queued' = Queued
    BY <1>5 DEF SelectJob, Queued
  <2>3. /\ work'[w].pc = "selected" /\ work'[w].job = j
        /\ work'[w].cluster = jobs[j].cluster /\ work'[w].kind = jobs[j].kind
        /\ work'[w].hash = jobs[j].hash
    BY <2>1
  <2>4. \A v \in Workers \ {w} : work'[v] = work[v]
    BY <2>1
  <2>5. \A v \in Workers \ {w} : Continues(v)
    BY <2>4 DEF Continues
  <2>6. \A v \in Workers \ {w} : At(v, "selected") => work[v].job # j
    BY <2>1 DEF Claiming
  <2>7. Chosen(w) /\ ~Busy(w)'
    BY <2>2, <2>3 DEF Busy, At
  <2>8. \A u, v \in Workers :
          At(u, "selected")' /\ At(v, "selected")' /\ work'[u].job = work'[v].job => u = v
    BY <2>3, <2>4, <2>6 DEF SelectedInv, At
  <2> HIDE DEF Chosen, Taken
  <2>9. \A v \in Workers : (At(v, "selected")' => Chosen(v)) /\ (Busy(v)' => Taken(v))
    BY <1>3, <2>5, <2>7
  <2> QED
    BY <2>8, <2>9 DEF SelectedInv, Chosen, Taken
<1>6. ASSUME NEW w \in Workers, ClaimJob(w) PROVE SelectedInv'
  <2>1. work' = [work EXCEPT ![w].pc = "claimed"]
    BY <1>6 DEF ClaimJob, Goto
  <2>2. work[w].job \in Queued
    BY <1>6 DEF ClaimJob, SelectedInv
  <2>3. work'[w].pc = "claimed" /\ work'[w].job = work[w].job
    BY <2>1 DEF WorkerStates
  <2>4. \A v \in Workers \ {w} : work'[v] = work[v]
    BY <2>1
  <2>5. \A v \in Workers \ {w} : Continues(v)
    BY <2>4 DEF Continues
  <2>6. Taken(w) /\ ~At(w, "selected")'
    BY <1>6, <2>2, <2>3 DEF ClaimJob, Queued, At, JobsTyped, Jobs
  <2>7. \A u, v \in Workers :
          At(u, "selected")' /\ At(v, "selected")' /\ work'[u].job = work'[v].job => u = v
    BY <2>4, <2>6 DEF SelectedInv, At
  <2> HIDE DEF Chosen, Taken
  <2>8. \A v \in Workers : (At(v, "selected")' => Chosen(v)) /\ (Busy(v)' => Taken(v))
    BY <1>3, <2>5, <2>6
  <2> QED
    BY <2>7, <2>8 DEF SelectedInv, Chosen, Taken
<1> QED
  BY <1>4, <1>5, <1>6, WorkStep

-----------------------------------------------------------------------------
(* The steps that change a workspace or the machines.                      *)

LEMMA WorkspaceUpdates ==
  ASSUME TypeInv, NEW c \in Clusters, NEW x \in Hashes \union {None}
  PROVE  /\ [disk EXCEPT ![c].inputs = x] \in [Clusters -> Workspaces]
         /\ [disk EXCEPT ![c].kubeconfig = x] \in [Clusters -> Workspaces]
<1>1. disk[c] \in Workspaces /\ disk \in [Clusters -> Workspaces]
  BY DEF TypeInv, TypeOK
<1>2. [disk[c] EXCEPT !.inputs = x] \in Workspaces
  BY <1>1 DEF Workspaces
<1>3. [disk[c] EXCEPT !.kubeconfig = x] \in Workspaces
  BY <1>1 DEF Workspaces
<1> QED
  BY <1>1, <1>2, <1>3

LEMMA TerraformTypes ==
  ASSUME TypeInv, NEW c \in Clusters, NEW file \in PlanFiles, NEW goal,
         NEW result \in TerraformStates, NEW killed \in BOOLEAN, NEW unlink \in BOOLEAN,
         TerraformRun(c, file, goal, result, killed, unlink)
  PROVE  /\ disk' \in [Clusters -> Workspaces]
         /\ vms' \in [Clusters -> Machines] /\ orphans' \in [Clusters -> SUBSET Hashes]
<1> USE ConstantsAssumption DEF TypeInv, TypeOK
<1>1. PICK wrote \in BOOLEAN, left \in Machines, made \in SUBSET Hashes :
        /\ disk' = [disk EXCEPT
             ![c].state = result,
             ![c].fresh = (IF wrote THEN {} ELSE @) \ (IF unlink THEN {file} ELSE {}),
             ![c].plan = IF unlink /\ file = "tfplan" THEN None ELSE @,
             ![c].destroyPlan = IF unlink /\ file = "destroy.tfplan" THEN FALSE ELSE @]
        /\ vms' = [vms EXCEPT ![c] = left]
        /\ orphans' = [orphans EXCEPT ![c] = @ \union made]
  BY DEF TerraformRun
<1>2. disk' \in [Clusters -> Workspaces]
  <2> DEFINE fresh == (IF wrote THEN {} ELSE disk[c].fresh) \ (IF unlink THEN {file} ELSE {})
             plan  == IF unlink /\ file = "tfplan" THEN None ELSE disk[c].plan
             destroyPlan == IF unlink /\ file = "destroy.tfplan" THEN FALSE ELSE disk[c].destroyPlan
  <2>1. disk[c] \in Workspaces
    OBVIOUS
  <2>2. fresh \in SUBSET PlanFiles /\ plan \in Hashes \union {None} /\ destroyPlan \in BOOLEAN
    BY <2>1 DEF Workspaces
  <2>3. [disk[c] EXCEPT !.state = result, !.fresh = fresh, !.plan = plan,
                        !.destroyPlan = destroyPlan] \in Workspaces
    <3> HIDE DEF fresh, plan, destroyPlan
    <3> QED
      BY <2>1, <2>2 DEF Workspaces, TerraformStates
  <2>4. disk' = [disk EXCEPT ![c] = [disk[c] EXCEPT !.state = result, !.fresh = fresh,
                                       !.plan = plan, !.destroyPlan = destroyPlan]]
    BY <1>1, <2>1 DEF Workspaces
  <2> QED
    BY <2>3, <2>4
<1> QED
  BY <1>1, <1>2

LEMMA DiskStepOfRequest ==
  ASSUME TypeInv, NEW h \in Requests, NewRequest(h) \/ RequestStep(h)
  PROVE  /\ disk' \in [Clusters -> Workspaces]
         /\ vms' \in [Clusters -> Machines] /\ orphans' \in [Clusters -> SUBSET Hashes]
<1> USE DEF TypeInv, TypeOK
<1>1. CASE RenderEdit(h)
  <2> DEFINE c == req[h].cluster
  <2>1. c \in Clusters
    BY <1>1 DEF RenderEdit, Serving, RequestsServed
  <2>2. \A x \in Hashes : [disk EXCEPT ![c].inputs = x] \in [Clusters -> Workspaces]
    BY <2>1, WorkspaceUpdates
  <2>3. disk' = disk \/ \E x \in Hashes : disk' = [disk EXCEPT ![c].inputs = x]
    BY <1>1 DEF RenderEdit
  <2> QED
    BY <1>1, <2>2, <2>3 DEF RenderEdit
<1>2. CASE UnlinkKubeconfig(h)
  BY <1>2, WorkspaceUpdates DEF UnlinkKubeconfig, Serving, RequestsServed
<1>3. CASE RemoveWorkspace(h)
  BY <1>3 DEF RemoveWorkspace, Workspaces, EmptyWorkspace, PlanFiles
<1>4. CASE NewRequest(h)
  BY <1>4 DEF NewRequest, BeginEdit, BeginDelete, StartJob, ReadForCancel
<1>5. CASE \/ CommitEdit(h) \/ LockCluster(h) \/ CheckQueue(h) \/ InsertJob(h)
           \/ WriteCancel(h) \/ ProbeVMs(h) \/ DeleteRow(h)
  BY <1>5 DEF CommitEdit, LockCluster, CheckQueue, InsertJob, WriteCancel, ProbeVMs, DeleteRow
<1> QED
  BY <1>1, <1>2, <1>3, <1>4, <1>5 DEF RequestStep

LEMMA DiskStepOfWorker ==
  ASSUME TypeInv, NEW w \in Workers, WorkerStep(w) \/ CrashWorker(w)
  PROVE  /\ disk' \in [Clusters -> Workspaces]
         /\ vms' \in [Clusters -> Machines] /\ orphans' \in [Clusters -> SUBSET Hashes]
<1> USE ConstantsAssumption DEF TypeInv, TypeOK
<1> DEFINE c == work[w].cluster
<1>1. Busy(w) => c \in Clusters /\ work[w].hash \in Hashes
  BY DEF Busy, At, WorkerHoldings
<1>2. Busy(w) => disk[c].plan \in Hashes \union {"none", None}
  BY <1>1 DEF Workspaces
<1>3. CASE Execute(w)
  <2>1. c \in Clusters /\ work[w].hash \in Hashes /\ vms' = vms /\ orphans' = orphans
    BY <1>1, <1>3 DEF Execute, Busy, At
  <2>2. disk' = disk \/ disk' = [disk EXCEPT ![c].inputs = work[w].hash]
    BY <1>3 DEF Execute
  <2>3. [disk EXCEPT ![c].inputs = work[w].hash] \in [Clusters -> Workspaces]
    BY <2>1, WorkspaceUpdates
  <2> QED
    BY <2>1, <2>2, <2>3
<1>4. CASE CreatePlan(w)
  <2>1. c \in Clusters
    BY <1>1, <1>4 DEF CreatePlan, Busy, At
  <2>2. \/ disk' = [disk EXCEPT ![c].plan = disk[c].inputs, ![c].fresh = @ \union {"tfplan"}]
        \/ disk' = [disk EXCEPT ![c].destroyPlan = TRUE,
                                ![c].fresh = @ \union {"destroy.tfplan"}]
        \/ disk' = disk
    BY <1>4 DEF CreatePlan
  <2>3. disk[c] \in Workspaces
    BY <2>1
  <2>4. [disk[c] EXCEPT !.plan = disk[c].inputs, !.fresh = disk[c].fresh \union {"tfplan"}]
          \in Workspaces
    BY <2>3 DEF Workspaces, PlanFiles
  <2>5. [disk[c] EXCEPT !.destroyPlan = TRUE,
                        !.fresh = disk[c].fresh \union {"destroy.tfplan"}] \in Workspaces
    BY <2>3 DEF Workspaces, PlanFiles
  <2>6. \/ disk' = [disk EXCEPT ![c] = [disk[c] EXCEPT !.plan = disk[c].inputs,
                                          !.fresh = disk[c].fresh \union {"tfplan"}]]
        \/ disk' = [disk EXCEPT ![c] = [disk[c] EXCEPT !.destroyPlan = TRUE,
                                          !.fresh = disk[c].fresh \union {"destroy.tfplan"}]]
        \/ disk' = disk
    BY <2>1, <2>2, <2>3 DEF Workspaces
  <2>7. disk' \in [Clusters -> Workspaces]
    BY <2>1, <2>4, <2>5, <2>6
  <2> QED
    BY <1>4, <2>7 DEF CreatePlan
<1>5. CASE TerraformApply(w)
  <2>1. c \in Clusters
    BY <1>1, <1>5 DEF TerraformApply, Busy, At
  <2>2. \E result \in TerraformStates : \/ TerraformRun(c, "tfplan", disk[c].plan, result, FALSE, TRUE)
                                        \/ TerraformRun(c, "tfplan", disk[c].plan, result, TRUE, TRUE)
    BY <1>5 DEF TerraformApply
  <2> QED
    BY <2>1, <2>2, TerraformTypes DEF PlanFiles
<1>6. CASE TerraformDestroy(w)
  <2>1. c \in Clusters
    BY <1>1, <1>6 DEF TerraformDestroy, Busy, At
  <2>2. \E result \in TerraformStates : \/ TerraformRun(c, "destroy.tfplan", "none", result, FALSE, TRUE)
                                        \/ TerraformRun(c, "destroy.tfplan", "none", result, TRUE, TRUE)
    BY <1>6 DEF TerraformDestroy
  <2> QED
    BY <2>1, <2>2, TerraformTypes DEF PlanFiles
<1>7. CASE CrashWorker(w)
  <2>1. \/ /\ c \in Clusters
           /\ \/ \E result \in TerraformStates :
                   TerraformRun(c, "tfplan", disk[c].plan, result, TRUE, FALSE)
              \/ \E result \in TerraformStates :
                   TerraformRun(c, "destroy.tfplan", "none", result, TRUE, FALSE)
        \/ UNCHANGED <<disk, vms, orphans>>
    BY <1>1, <1>7 DEF CrashWorker, Busy, At
  <2> QED
    BY <2>1, TerraformTypes DEF PlanFiles
<1>8. CASE Provision(w)
  <2>1. c \in Clusters /\ work[w].hash \in Hashes /\ vms' = vms /\ orphans' = orphans
    BY <1>1, <1>8 DEF Provision, Busy, At
  <2>2. PICK kubeconfig \in {disk[c].kubeconfig, disk[c].inputs, work[w].hash} :
          disk' = [disk EXCEPT ![c].kubeconfig = kubeconfig]
    BY <1>8 DEF Provision
  <2>3. kubeconfig \in Hashes \union {None}
    BY <2>1, <2>2 DEF Workspaces
  <2>4. [disk EXCEPT ![c].kubeconfig = kubeconfig] \in [Clusters -> Workspaces]
    BY <2>1, <2>3, WorkspaceUpdates
  <2> QED
    BY <2>1, <2>2, <2>4
<1>9. CASE \/ RecoverStaleJobs(w) \/ SelectJob(w) \/ ClaimJob(w) \/ FinishJob(w)
           \/ InvalidatePlan(w)
           \/ RecordPlan(w) \/ ValidateApply(w) \/ ConsumePlan(w) \/ RecordApply(w)
  BY <1>9 DEF RecoverStaleJobs, SelectJob, ClaimJob, FinishJob, InvalidatePlan, RecordPlan,
              ValidateApply, ConsumePlan, RecordApply
<1>10. CASE \/ StartAnsible(w) \/ MarkReady(w) \/ Verify(w) \/ RunManifest(w)
            \/ ConsumeDestroyPlan(w) \/ RecordDestroy(w)
  BY <1>10 DEF StartAnsible, MarkReady, Verify, RunManifest, ConsumeDestroyPlan, RecordDestroy
<1> QED
  BY <1>3, <1>4, <1>5, <1>6, <1>7, <1>8, <1>9, <1>10 DEF WorkerStep, ExecuteStep
-----------------------------------------------------------------------------
(* The types.                                                              *)

LEMMA LockType ==
  ASSUME TypeInv, Next
  PROVE  lock' \in [Clusters -> Requests \union {None}]
<1> USE DEF TypeInv, TypeOK
<1>1. ASSUME NEW h \in Requests, NewRequest(h) \/ RequestStep(h)
      PROVE  lock' \in [Clusters -> Requests \union {None}]
  <2>1. CASE LockCluster(h) \/ CheckQueue(h) \/ InsertJob(h)
    BY <2>1 DEF LockCluster, CheckQueue, InsertJob
  <2>2. CASE NewRequest(h)
    BY <2>2 DEF NewRequest, BeginEdit, BeginDelete, StartJob, ReadForCancel
  <2>3. CASE \/ RenderEdit(h) \/ CommitEdit(h) \/ UnlinkKubeconfig(h) \/ WriteCancel(h)
             \/ ProbeVMs(h) \/ RemoveWorkspace(h) \/ DeleteRow(h)
    BY <2>3 DEF RenderEdit, CommitEdit, UnlinkKubeconfig, WriteCancel, ProbeVMs,
                RemoveWorkspace, DeleteRow
  <2> QED
    BY <1>1, <2>1, <2>2, <2>3 DEF RequestStep
<1>2. CASE CrashWeb
  BY <1>2 DEF CrashWeb
<1>3. CASE \E c \in Clusters : PruneJobs(c)
  BY <1>3 DEF PruneJobs
<1>4. CASE \E w \in Workers : WorkerStep(w) \/ CrashWorker(w)
  BY <1>4, WorkerLeavesRequests
<1> QED
  BY <1>1, <1>2, <1>3, <1>4 DEF Next

LEMMA HistoryType ==
  ASSUME TypeInv, Next
  PROVE  overtaken' \in [Clusters -> BOOLEAN] /\ abandoned' \in [Clusters -> BOOLEAN]
<1> USE DEF TypeInv, TypeOK
<1> DEFINE Goal == /\ overtaken' \in [Clusters -> BOOLEAN]
                   /\ abandoned' \in [Clusters -> BOOLEAN]
<1>1. ASSUME NEW c, NEW happened, NoteOvertaken(c, happened)
      PROVE  overtaken' \in [Clusters -> BOOLEAN]
  BY <1>1 DEF NoteOvertaken
<1>2. ASSUME NEW h \in Requests, NewRequest(h) \/ RequestStep(h) PROVE Goal
  <2>1. CASE NewRequest(h)
    BY <2>1 DEF NewRequest, BeginEdit, BeginDelete, StartJob, ReadForCancel
  <2>2. CASE RequestStep(h)
    BY <1>1, <2>2 DEF RequestStep, RenderEdit, CommitEdit, UnlinkKubeconfig, WriteCancel, ProbeVMs,
                RemoveWorkspace, DeleteRow, LockCluster, CheckQueue, InsertJob
  <2> QED
    BY <1>2, <2>1, <2>2
<1>3. CASE CrashWeb \/ \E c \in Clusters : PruneJobs(c)
  BY <1>3 DEF CrashWeb, PruneJobs
<1>4. ASSUME NEW w \in Workers, WorkerStep(w) \/ CrashWorker(w) PROVE Goal
  <2>1. abandoned' = abandoned \/ \E c : abandoned' = [abandoned EXCEPT ![c] = FALSE]
    BY <1>4, WorkerAbandons
  <2> QED
    BY <1>4, <2>1, WorkerLeavesRequests
<1> QED
  BY <1>2, <1>3, <1>4 DEF Next

LEMMA TypeInvStep ==
  ASSUME TypeInv, JobsInv, [Next]_vars
  PROVE  TypeInv' /\ JobsInv'
<1> USE DEF TypeInv, TypeOK
<1>1. JobsTyped' /\ issued' \in 0 .. MaxJobs
  BY JobsTypedStep
<1>2. DOMAIN jobs' \subseteq JobIds /\ jobs' \in [DOMAIN jobs' -> Jobs]
  BY <1>1, ConstantsAssumption DEF JobsTyped, JobIds
<1>3. CASE UNCHANGED vars
  <2>1. /\ UNCHANGED <<row, lock, req, work, disk>>
        /\ UNCHANGED <<vms, orphans, overtaken, abandoned>>
    BY <1>3 DEF vars
  <2>2. /\ row' \in [Clusters -> Rows \union {None}]
        /\ lock' \in [Clusters -> Requests \union {None}]
        /\ req' \in [Requests -> RequestStates] /\ work' \in [Workers -> WorkerStates]
        /\ disk' \in [Clusters -> Workspaces]
    BY <2>1
  <2>3. /\ vms' \in [Clusters -> Machines] /\ orphans' \in [Clusters -> SUBSET Hashes]
        /\ overtaken' \in [Clusters -> BOOLEAN] /\ abandoned' \in [Clusters -> BOOLEAN]
    BY <2>1
  <2>4. req' \in [Requests -> RequestsServed] /\ work' \in [Workers -> WorkerHoldings]
    BY <2>1
  <2>5. TypeOK'
    BY <1>1, <1>2, <2>2, <2>3
  <2>6. TypeInv'
    BY <2>4, <2>5
  <2> QED
    BY <1>1, <1>3, <2>6, SelectedInvStep DEF JobsInv
<1>4. ASSUME NEW h \in Requests, NewRequest(h) \/ RequestStep(h), Next PROVE TypeInv'
  <2>1. UNCHANGED work
    BY <1>4, RequestLeavesWorkers
  <2>2. /\ req' \in [Requests -> RequestsServed]
        /\ row' \in [Clusters -> Rows \union {None}]
        /\ disk' \in [Clusters -> Workspaces]
        /\ vms' \in [Clusters -> Machines] /\ orphans' \in [Clusters -> SUBSET Hashes]
    BY <1>4, ServedStep, RowStepOfRequest, DiskStepOfRequest
  <2> QED
    BY <1>1, <1>2, <1>4, <2>1, <2>2, LockType, HistoryType DEF RequestsServed
<1>5. ASSUME NEW w \in Workers, WorkerStep(w) \/ CrashWorker(w), Next PROVE TypeInv'
  <2>1. UNCHANGED req
    BY <1>5, WorkerLeavesRequests
  <2>2. /\ work' \in [Workers -> WorkerHoldings]
        /\ row' \in [Clusters -> Rows \union {None}]
        /\ disk' \in [Clusters -> Workspaces]
        /\ vms' \in [Clusters -> Machines] /\ orphans' \in [Clusters -> SUBSET Hashes]
    BY <1>5, HoldingStep, RowStepOfWorker, DiskStepOfWorker
  <2> QED
    BY <1>1, <1>2, <1>5, <2>1, <2>2, LockType, HistoryType DEF WorkerHoldings
<1>6. ASSUME CrashWeb, Next PROVE TypeInv'
  <2>1. req' \in [Requests -> RequestsServed]
    BY <1>6, IdleTypes DEF CrashWeb
  <2> QED
    BY <1>1, <1>2, <1>6, <2>1, LockType, HistoryType DEF CrashWeb, RequestsServed
<1>7. ASSUME NEW c \in Clusters, PruneJobs(c), Next PROVE TypeInv'
  BY <1>1, <1>2, <1>7, LockType, HistoryType DEF PruneJobs
<1> QED
  BY <1>1, <1>3, <1>4, <1>5, <1>6, <1>7, SelectedInvStep DEF Next, JobsInv

LEMMA InitJobsInv == Init => JobsInv
BY DEF Init, JobsInv, JobsTyped, SelectedInv, Resting, At, Busy

(* Every variable keeps its type, and so do the fields that requests and   *)
(* workers read where they are.                                            *)
THEOREM TypeCorrect == Spec => []TypeOK
<1>1. Init => TypeInv /\ JobsInv
  BY InitTypeInv, InitJobsInv
<1>2. TypeInv /\ JobsInv /\ [Next]_vars => (TypeInv /\ JobsInv)'
  BY TypeInvStep
<1>3. TypeInv => TypeOK
  BY DEF TypeInv
<1> QED
  BY <1>1, <1>2, <1>3, PTL DEF Spec
-----------------------------------------------------------------------------
(* The row lock: a request between its SELECT .. FOR UPDATE and its commit *)
(* holds the lock of the cluster, and what it found out about the jobs of  *)
(* the cluster stays true.                                                 *)

Queueing(h) == req[h].pc \in {"check", "insert"}

LockInv ==
  \A h \in Requests :
    /\ Queueing(h) => lock[req[h].cluster] = h
    /\ Serving(h, "insert") => ~ActiveJob(req[h].cluster)

QueueInv == TypeInv /\ JobsInv /\ LockInv /\ AtMostOneActiveJob

(* How a request g comes to be between the lock and the commit.            *)
HolderMoves(g) ==
  \/ lock' = [lock EXCEPT ![req[g].cluster] = g] /\ Serving(g, "check")'
  \/ CheckQueue(g) /\ UNCHANGED lock /\ ~ActiveJob(req[g].cluster) /\ Queueing(g)
  \/ /\ req'[g] = req[g]
     /\ \/ UNCHANGED lock
        \/ \E h \in Requests \ {g} :
             \/ lock' = [lock EXCEPT ![req[h].cluster] = h] /\ lock[req[h].cluster] = None
             \/ lock' = [lock EXCEPT ![req[h].cluster] = None] /\ Queueing(h)

LEMMA HolderStep ==
  ASSUME TypeInv, [Next]_vars, NEW g \in Requests, Queueing(g)'
  PROVE  HolderMoves(g) /\ req'[g].cluster = req[g].cluster
<1> USE ConstantsAssumption DEF TypeInv, TypeOK
<1>1. req'[g] = req[g] /\ UNCHANGED lock => HolderMoves(g) /\ req'[g].cluster = req[g].cluster
  BY DEF HolderMoves
<1>2. CASE UNCHANGED vars
  BY <1>1, <1>2 DEF vars
<1>3. CASE CrashWeb
  BY <1>3 DEF CrashWeb, Idle, Queueing
<1>4. CASE \E c \in Clusters : PruneJobs(c)
  BY <1>1, <1>4 DEF PruneJobs
<1>5. CASE \E w \in Workers : WorkerStep(w) \/ CrashWorker(w)
  BY <1>1, <1>5, WorkerLeavesRequests
<1>6. ASSUME NEW h \in Requests, Answer(h)
      PROVE  g # h /\ req'[g] = req[g]
  BY <1>6 DEF Answer, Idle, Queueing
<1>7. ASSUME NEW h \in Requests, NewRequest(h)
      PROVE  req'[g] = req[g] /\ UNCHANGED lock
  <2>1. PICK r \in RequestStates :
          /\ req' = [req EXCEPT ![h] = r]
          /\ r.pc \in {"form", "lock", "cancel", "rmtree", "probe"}
    <3>1. req' \in [Requests -> RequestStates]
      BY <1>7, ServedStep DEF RequestsServed
    <3>2. req'[h].pc \in {"form", "lock", "cancel", "rmtree", "probe"}
      <4>1. ASSUME NEW c \in Clusters, BeginEdit(h, c) PROVE req'[h].pc = "form"
        BY <4>1 DEF BeginEdit, Idle
      <4>2. ASSUME NEW c \in Clusters, BeginDelete(h, c) PROVE req'[h].pc \in {"rmtree", "probe"}
        BY <4>2 DEF BeginDelete, Idle
      <4>3. ASSUME NEW c \in Clusters, NEW kind \in Kinds, StartJob(h, c, kind)
            PROVE  req'[h].pc = "lock"
        BY <4>3 DEF StartJob, Idle
      <4>4. ASSUME NEW j \in JobIds, ReadForCancel(h, j) PROVE req'[h].pc = "cancel"
        BY <4>4 DEF ReadForCancel, Idle
      <4> QED
        BY <1>7, <4>1, <4>2, <4>3, <4>4 DEF NewRequest
    <3>3. req' = [req EXCEPT ![h] = req'[h]]
      BY <1>7, <3>1 DEF NewRequest, BeginEdit, BeginDelete, StartJob, ReadForCancel
    <3> QED
      BY <3>1, <3>2, <3>3
  <2>2. UNCHANGED lock
    BY <1>7 DEF NewRequest, BeginEdit, BeginDelete, StartJob, ReadForCancel
  <2> QED
    BY <2>1, <2>2 DEF Queueing
<1>8. ASSUME NEW h \in Requests, NEW pc \in {"rmtree", "delete"}, Proceed(h, pc)
      PROVE  req'[g] = req[g]
  BY <1>8 DEF Proceed, Queueing, RequestsServed, RequestStates
<1>9. ASSUME NEW h \in Requests,
             \/ RenderEdit(h) \/ CommitEdit(h) \/ UnlinkKubeconfig(h) \/ WriteCancel(h)
             \/ ProbeVMs(h) \/ RemoveWorkspace(h) \/ DeleteRow(h)
      PROVE  req'[g] = req[g] /\ UNCHANGED lock
  <2>1. CASE RenderEdit(h)
    <3>1. ASSUME NEW new \in Hashes, req' = [req EXCEPT ![h].pc = "save", ![h].arg = new]
          PROVE  req'[g] = req[g]
      <4>1. req'[h].pc = "save"
        BY <3>1 DEF RequestsServed, RequestStates
      <4> QED
        BY <3>1, <4>1 DEF Queueing
    <3> QED
      BY <1>6, <2>1, <3>1 DEF RenderEdit
  <2>2. CASE CommitEdit(h)
    <3>1. ASSUME req' = [req EXCEPT ![h] = [Idle EXCEPT !.pc = "unlink", !.cluster = req[h].cluster]]
          PROVE  req'[g] = req[g]
      <4>1. req'[h].pc = "unlink"
        BY <3>1 DEF Idle
      <4> QED
        BY <3>1, <4>1 DEF Queueing
    <3> QED
      BY <1>6, <2>2, <3>1 DEF CommitEdit
  <2>3. CASE UnlinkKubeconfig(h) \/ WriteCancel(h) \/ DeleteRow(h)
    BY <1>6, <2>3 DEF UnlinkKubeconfig, WriteCancel, DeleteRow
  <2>4. CASE ProbeVMs(h) \/ RemoveWorkspace(h)
    BY <1>6, <1>8, <2>4 DEF ProbeVMs, RemoveWorkspace
  <2> QED
    BY <1>9, <2>1, <2>2, <2>3, <2>4
<1>10. ASSUME NEW h \in Requests, NEW pc, Proceed(h, pc)
       PROVE  IF g = h THEN req'[g].pc = pc /\ req'[g].cluster = req[g].cluster
                       ELSE req'[g] = req[g]
  BY <1>10 DEF Proceed, RequestsServed, RequestStates
<1>11. ASSUME NEW h \in Requests, LockCluster(h)
       PROVE  HolderMoves(g) /\ req'[g].cluster = req[g].cluster
  BY <1>6, <1>10, <1>11 DEF LockCluster, HolderMoves, Free, Serving
<1>12. ASSUME NEW h \in Requests, CheckQueue(h)
       PROVE  HolderMoves(g) /\ req'[g].cluster = req[g].cluster
  BY <1>6, <1>10, <1>12 DEF CheckQueue, HolderMoves, Serving, Queueing
<1>13. ASSUME NEW h \in Requests, InsertJob(h)
       PROVE  HolderMoves(g) /\ req'[g].cluster = req[g].cluster
  BY <1>6, <1>13 DEF InsertJob, HolderMoves, Serving, Queueing
<1> QED
  BY <1>1, <1>2, <1>3, <1>4, <1>5, <1>7, <1>9, <1>11, <1>12, <1>13 DEF Next, RequestStep

LEMMA LockInvStep ==
  ASSUME QueueInv, [Next]_vars
  PROVE  LockInv'
<1> USE DEF QueueInv
<1>1. SUFFICES ASSUME NEW g \in Requests, Queueing(g)'
               PROVE  /\ lock'[req'[g].cluster] = g
                      /\ Serving(g, "insert")' =>
                           \A j \in DOMAIN jobs' : jobs'[j].cluster = req'[g].cluster =>
                             jobs'[j].status \notin ActiveStatuses
  BY DEF LockInv, Queueing, Serving, ActiveJob, JobsOf
<1>2. HolderMoves(g) /\ req'[g].cluster = req[g].cluster
  BY <1>1, HolderStep
<1>3. req[g].cluster \in Clusters
  BY <1>1, <1>2, TypeInvStep DEF TypeInv, Queueing, RequestsServed
<1>4. lock \in [Clusters -> Requests \union {None}] /\ None \notin Requests
  BY ConstantsAssumption DEF TypeInv, TypeOK
<1>5. lock'[req[g].cluster] = g
  <2>1. ASSUME NEW h \in Requests \ {g}, Queueing(h), Queueing(g)
        PROVE  req[h].cluster # req[g].cluster
    BY <2>1 DEF LockInv
  <2>2. req'[g] = req[g] => Queueing(g)
    BY <1>1 DEF Queueing
  <2> QED
    BY <1>2, <1>3, <1>4, <2>1, <2>2 DEF HolderMoves, LockInv
<1>6. ASSUME Serving(g, "insert")', NEW j \in DOMAIN jobs', jobs'[j].cluster = req[g].cluster
      PROVE  jobs'[j].status \notin ActiveStatuses
  <2>1. ~ActiveJob(req[g].cluster)
    BY <1>2, <1>6 DEF HolderMoves, LockInv, Serving
  <2>2. ASSUME NEW h \in Requests, Inserts(h) PROVE req[h].cluster # req[g].cluster
    <3>1. h # g /\ Serving(h, "insert")
      BY <1>6, <2>2 DEF Inserts
    <3>2. Queueing(g) \/ lock[req[g].cluster] = None
      BY <1>1, <1>2, <1>6 DEF HolderMoves, Queueing, Serving
    <3> QED
      BY <1>4, <3>1, <3>2 DEF LockInv, Queueing, Serving
  <2>3. \A i \in DOMAIN jobs : jobs[i].cluster = req[g].cluster => jobs[i].status \notin ActiveStatuses
    BY <2>1 DEF ActiveJob, JobsOf
  <2>4. ASSUME NEW h \in Requests, Inserts(h)
        PROVE  jobs'[j].status \notin ActiveStatuses
    BY <1>6, <2>2, <2>3, <2>4 DEF Inserts
  <2>5. ASSUME NEW gone, Removes(gone)
        PROVE  jobs'[j].status \notin ActiveStatuses
    BY <1>6, <2>3, <2>5 DEF Removes
  <2>6. ASSUME EndsSome
        PROVE  jobs'[j].status \notin ActiveStatuses
    BY <1>6, <2>3, <2>6 DEF EndsSome, ActiveStatuses, FinalStatuses
  <2>7. ASSUME NEW k \in Queued, Claims(k)
        PROVE  jobs'[j].status \notin ActiveStatuses
    BY <1>6, <2>3, <2>7 DEF Claims, Queued, ActiveStatuses, JobsInv, JobsTyped, Jobs
  <2> QED
    BY <2>4, <2>5, <2>6, <2>7, JobsStep
<1> QED
  BY <1>2, <1>5, <1>6

LEMMA AtMostOneStep ==
  ASSUME QueueInv, [Next]_vars
  PROVE  AtMostOneActiveJob'
<1> USE DEF QueueInv
<1>1. ASSUME NEW h \in Requests, Inserts(h) PROVE AtMostOneActiveJob'
  <2>1. ~ActiveJob(req[h].cluster) /\ issued + 1 \notin DOMAIN jobs
    BY <1>1 DEF Inserts, LockInv, JobsInv, JobsTyped, TypeInv, TypeOK
  <2> QED
    BY <1>1, <2>1 DEF Inserts, AtMostOneActiveJob, ActiveJob, JobsOf
<1>2. ASSUME NEW gone, Removes(gone) PROVE AtMostOneActiveJob'
  BY <1>2 DEF Removes, AtMostOneActiveJob
<1>3. ASSUME EndsSome PROVE AtMostOneActiveJob'
  BY <1>3 DEF EndsSome, AtMostOneActiveJob, ActiveStatuses, FinalStatuses
<1>4. ASSUME NEW j \in Queued, Claims(j) PROVE AtMostOneActiveJob'
  BY <1>4 DEF Claims, Queued, AtMostOneActiveJob, ActiveStatuses, JobsInv, JobsTyped, Jobs
<1> QED
  BY <1>1, <1>2, <1>3, <1>4, JobsStep

LEMMA InitQueueInv == Init => QueueInv
<1>1. Init => LockInv /\ AtMostOneActiveJob
  BY DEF Init, LockInv, AtMostOneActiveJob, Queueing, Serving, Idle
<1> QED
  BY <1>1, InitTypeInv, InitJobsInv DEF QueueInv

LEMMA QueueInvStep ==
  ASSUME QueueInv, [Next]_vars
  PROVE  QueueInv'
<1>1. TypeInv' /\ JobsInv'
  BY TypeInvStep DEF QueueInv
<1> QED
  BY <1>1, LockInvStep, AtMostOneStep DEF QueueInv

LEMMA QueueInvariant == Spec => []QueueInv
<1>1. QueueInv /\ [Next]_vars => QueueInv'
  BY QueueInvStep
<1> QED
  BY <1>1, InitQueueInv, PTL DEF Spec

(* However many requests race for it and whatever crashes, a cluster never *)
(* has two queued or running jobs.                                         *)
THEOREM OneActiveJob == Spec => []AtMostOneActiveJob
BY QueueInvariant, PTL DEF QueueInv
-----------------------------------------------------------------------------
(* The refinement of JobQueue.                                             *)

phaseOf == [j \in JobIds |-> Phase(j)]
ownerOf == [j \in JobIds |->
             IF Phase(j) \in {"waiting", "running"} THEN jobs[j].cluster ELSE None]

LEMMA PhaseOfJob ==
  ASSUME QueueInv, NEW j \in JobIds
  PROVE  /\ Phase(j) = "unused" <=> j > issued
         /\ Phase(j) = "waiting" <=> j \in Queued
         /\ Phase(j) = "running" <=> j \in DOMAIN jobs /\ jobs[j].status = "RUNNING"
         /\ Phase(j) \in {"unused", "waiting", "running", "closed"}
<1> USE DEF QueueInv, TypeInv, TypeOK, JobIds
<1>1. j \in DOMAIN jobs => j <= issued
  BY ConstantsAssumption DEF JobsInv, JobsTyped
<1> QED
  BY <1>1 DEF Phase, Queued

LEMMA QueueStep ==
  ASSUME QueueInv, QueueInv', [Next]_vars
  PROVE  [Queue!QueueNext]_(Queue!queueVars)
<1> USE ConstantsAssumption
<1>1. issued \in Nat /\ MaxJobs \in Nat /\ DOMAIN jobs \subseteq 1 .. issued
  BY DEF QueueInv, TypeInv, TypeOK, JobsInv, JobsTyped
<1>2. ASSUME NEW h \in Requests, Inserts(h)
      PROVE  Queue!QueueNext
  <2>0. PICK c, k : c = req[h].cluster /\ k = issued + 1
    OBVIOUS
  <2>1. k \in JobIds /\ c \in Clusters
    BY <2>0, <1>1, <1>2 DEF Inserts, JobIds, QueueInv, TypeInv, Serving, RequestsServed
  <2>2. phaseOf' = [phaseOf EXCEPT ![k] = "waiting"]
    <3>1. jobs'[k].status = "QUEUED" /\ k \in DOMAIN jobs' /\ k \in Nat /\ issued' = k
      BY <2>0, <1>1, <1>2 DEF Inserts
    <3>2. Phase(k)' = "waiting"
      BY <3>1 DEF Phase
    <3>3. ASSUME NEW i \in JobIds, i # k PROVE Phase(i)' = Phase(i)
      <4>1. /\ i > issued' <=> i > issued
            /\ i \in DOMAIN jobs' <=> i \in DOMAIN jobs
            /\ i \in DOMAIN jobs => jobs'[i] = jobs[i]
        BY <2>0, <1>1, <1>2, <3>3 DEF Inserts, JobIds
      <4> QED
        BY <4>1 DEF Phase
    <3> QED
      BY <2>1, <3>2, <3>3 DEF phaseOf
  <2>3. ownerOf' = [ownerOf EXCEPT ![k] = c]
    <3>1. /\ jobs'[k].status = "QUEUED" /\ jobs'[k].cluster = c
          /\ k \in DOMAIN jobs' /\ k \in Nat /\ issued' = k
      BY <2>0, <1>1, <1>2 DEF Inserts
    <3>2. Phase(k)' = "waiting"
      BY <3>1 DEF Phase
    <3>3. ASSUME NEW i \in JobIds, i # k PROVE ownerOf'[i] = ownerOf[i]
      <4>1. /\ i > issued' <=> i > issued
            /\ i \in DOMAIN jobs' <=> i \in DOMAIN jobs
            /\ i \in DOMAIN jobs => jobs'[i] = jobs[i]
        BY <2>0, <1>1, <1>2, <3>3 DEF Inserts, JobIds
      <4> QED
        BY <4>1 DEF Phase, ownerOf
    <3> QED
      BY <2>1, <3>1, <3>2, <3>3 DEF ownerOf
  <2>4. phaseOf[k] = "unused" /\ \A i \in JobIds : i < k => phaseOf[i] # "unused"
    BY <2>0, <1>1, <2>1, PhaseOfJob DEF phaseOf, JobIds
  <2>5. \A i \in JobIds : phaseOf[i] \in {"waiting", "running"} => ownerOf[i] # c
    <3>1. ~ActiveJob(c)
      BY <2>0, <1>2 DEF Inserts, QueueInv, LockInv
    <3> QED
      BY <3>1, PhaseOfJob DEF phaseOf, ownerOf, ActiveJob, JobsOf, Queued, ActiveStatuses
  <2> QED
    BY <2>1, <2>2, <2>3, <2>4, <2>5
    DEF Queue!QueueNext, Queue!Submit, Queue!Ids, Queue!Open, phaseOf, ownerOf, JobIds
<1>3. ASSUME NEW j \in Queued, Claims(j)
      PROVE  Queue!QueueNext
  <2>1. j \in JobIds /\ j \in DOMAIN jobs /\ jobs[j] \in Jobs
    BY DEF Queued, QueueInv, TypeInv, TypeOK
  <2>2. phaseOf' = [phaseOf EXCEPT ![j] = "running"]
    <3>1. jobs'[j].status = "RUNNING" /\ DOMAIN jobs' = DOMAIN jobs /\ issued' = issued
      BY <1>3, <2>1 DEF Claims, Jobs
    <3>2. Phase(j)' = "running"
      BY <1>1, <2>1, <3>1 DEF Phase
    <3>3. ASSUME NEW i \in JobIds, i # j PROVE Phase(i)' = Phase(i)
      BY <1>3, <3>1, <3>3 DEF Phase, Claims
    <3> QED
      BY <2>1, <3>2, <3>3 DEF phaseOf
  <2>3. ownerOf' = ownerOf
    BY <1>1, <1>3, <2>1 DEF ownerOf, Phase, Claims, Jobs, Queued
  <2>4. phaseOf[j] = "waiting"
    BY <1>3, <2>1, PhaseOfJob DEF phaseOf, Claims
  <2> QED
    BY <2>1, <2>2, <2>3, <2>4 DEF Queue!QueueNext, Queue!Start, Queue!Ids, phaseOf, ownerOf, JobIds
<1>4. ASSUME NEW some \in SUBSET JobIds,
             \A j \in some : phaseOf[j] \in {"waiting", "running"},
             phaseOf' = [j \in JobIds |-> IF j \in some THEN "closed" ELSE phaseOf[j]],
             ownerOf' = [j \in JobIds |-> IF j \in some THEN None ELSE ownerOf[j]]
      PROVE  Queue!QueueNext
  BY <1>4 DEF Queue!QueueNext, Queue!Close, Queue!Ids, Queue!Open, phaseOf, ownerOf, JobIds
<1>5. ASSUME NEW gone, Removes(gone)
      PROVE  Queue!QueueNext
  <2> DEFINE some == {j \in JobIds : j \in gone /\ phaseOf[j] \in {"waiting", "running"}}
  <2>1. phaseOf' = [j \in JobIds |-> IF j \in some THEN "closed" ELSE phaseOf[j]]
    BY <1>1, <1>5 DEF phaseOf, Phase, Removes, JobIds
  <2>2. ownerOf' = [j \in JobIds |-> IF j \in some THEN None ELSE ownerOf[j]]
    BY <1>1, <1>5 DEF ownerOf, phaseOf, Phase, Removes, JobIds
  <2> QED
    BY <1>4, <2>1, <2>2
<1>6. ASSUME EndsSome
      PROVE  Queue!QueueNext
  <2> DEFINE some == {j \in DOMAIN jobs : /\ phaseOf[j] \in {"waiting", "running"}
                                         /\ jobs'[j].status \in FinalStatuses}
  <2>1. some \subseteq JobIds
    BY DEF QueueInv, TypeInv, TypeOK
  <2>2. phaseOf' = [j \in JobIds |-> IF j \in some THEN "closed" ELSE phaseOf[j]]
    BY <1>1, <1>6 DEF phaseOf, Phase, EndsSome, JobIds, FinalStatuses
  <2>3. ownerOf' = [j \in JobIds |-> IF j \in some THEN None ELSE ownerOf[j]]
    BY <1>1, <1>6 DEF ownerOf, phaseOf, Phase, EndsSome, JobIds, FinalStatuses
  <2> QED
    BY <1>4, <2>1, <2>2, <2>3
<1> QED
  BY <1>2, <1>3, <1>5, <1>6, JobsStep DEF QueueInv

(* The job table implements the abstract queue: one open job per cluster,  *)
(* a job starts at most once and only while it waits, also when another    *)
(* worker, a cancellation or a deletion come between its selection and its *)
(* commit (worker.py:1364-1376), and a closed job stays closed.            *)
THEOREM Refinement == Spec => ImplementsQueue
<1>1. Init => Queue!QueueInit
  BY DEF Init, Queue!QueueInit, Queue!Ids, Phase, JobIds
<1>2. QueueInv /\ QueueInv' /\ [Next]_vars => [Queue!QueueNext]_(Queue!queueVars)
  BY QueueStep
<1> QED
  BY <1>1, <1>2, QueueInvariant, PTL DEF Spec, ImplementsQueue, Queue!QueueSpec
=============================================================================
