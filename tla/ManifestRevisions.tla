--------------------------- MODULE ManifestRevisions ---------------------------
(***************************************************************************)
(* The files and revisions of one application bundle (app/manifests.py and *)
(* the application routes of app/main.py), and the jobs that deploy a      *)
(* revision.                                                               *)
(*                                                                         *)
(* A request is one READ COMMITTED transaction: it reads what is committed *)
(* when it looks, keeps the rows its ORM session has loaded, and its       *)
(* writes, until they are committed, are seen by itself only and block     *)
(* writers of the same rows.  No revision is locked: what keeps two        *)
(* requests apart is UNIQUE (bundle_id, version).                          *)
(***************************************************************************)
EXTENDS Naturals, FiniteSets

CONSTANTS
  Requests,        (* request handlers of the web process                   *)
  Paths, Contents, (* paths of manifest files, and what they may hold       *)
  Default,         (* the content of a file just created                    *)
  Templates,       (* the sets of paths the application templates create    *)
  RetentionKeep,   (* settings.manifest_revision_retention_keep             *)
  None,            (* no row                                                *)
  MaxRevisions,    (* bound: revisions ever committed                       *)
  MaxJobs          (* bound: manifest jobs ever queued                      *)

ASSUME ConstantsAssumption ==
  /\ Default \in Contents
  /\ Templates \subseteq SUBSET Paths \ {{}}
  /\ RetentionKeep \in Nat \ {0} /\ MaxRevisions \in Nat /\ MaxJobs \in Nat
  /\ None \notin Contents \union Nat
  /\ None \notin [id : Nat, content : Contents] \union [Paths -> Contents \union {None}]

RevisionIds == 1 .. MaxRevisions
JobIds == 1 .. MaxJobs

Snapshots == [Paths -> Contents \union {None}]
Rows == [id : RevisionIds, content : Contents]
Revisions == [version : RevisionIds, snapshot : Snapshots]
Jobs == [status : {"QUEUED", "RUNNING", "FINAL"}, revision : RevisionIds,
         wanted : Snapshots, deploys : Snapshots \union {None}]

VARIABLES
  bundle,     (* the row of the application: "none", "live", "deleted"      *)
  files,      (* manifest_files: the row of each path; its id is that of    *)
              (* the revision it came with                                  *)
  revisions,  (* manifest_revisions: the rows there are, by id              *)
  issued,     (* how many ids have been used                                *)
  jobs,       (* the manifest jobs there are, by id                         *)
  queued,     (* how many there have been                                   *)
  tx,         (* the transaction of each request                            *)
  outdated,   (* history: revisions written from an outdated list of files  *)
  overtaken   (* history: "late": a version older than the newest was       *)
              (* inserted; "queued": the bundle was deleted after a job had *)
              (* been queued behind the check                               *)

tables == <<bundle, files, revisions, issued, jobs, queued>>
history == <<outdated, overtaken>>
vars == <<tables, tx, history>>

(* loaded: bundle.files, once the session has it; writes: what the          *)
(* transaction will commit to the files; max: the version it has seen;      *)
(* list: the revisions a pruning has read; refs: those jobs refer to.       *)
Transactions ==
  [op : {"create", "save", "delete", "restore", "start", "prune", "drop", "none"},
   pc : {"idle", "flush", "max", "snapshot", "insert", "commit", "payloads", "erase"},
   path : Paths \union {None}, content : Contents \union {None},
   loaded : [Paths -> Rows \union {None}] \union {None},
   target : Snapshots \union {None},
   writes : UNION {[D -> Contents \union {None}] : D \in SUBSET Paths},
   max : 0 .. MaxRevisions, snapshot : Snapshots \union {None},
   list : SUBSET RevisionIds, refs : SUBSET RevisionIds]

NoWrites == [p \in {} |-> None]

Idle ==
  [op |-> "none", pc |-> "idle", path |-> None, content |-> None, loaded |-> None,
   target |-> None, writes |-> NoWrites, max |-> 0, snapshot |-> None, list |-> {}, refs |-> {}]

Init ==
  /\ bundle = "none" /\ files = [p \in Paths |-> None]
  /\ revisions = [i \in {} |-> None] /\ issued = 0
  /\ jobs = [j \in {} |-> None] /\ queued = 0
  /\ tx = [r \in Requests |-> Idle]
  /\ outdated = {} /\ overtaken = {}

-----------------------------------------------------------------------------
(* Operators.                                                                *)

Content(rows) == [p \in Paths |-> IF rows[p] = None THEN None ELSE rows[p].content]
Present(snap) == {p \in Paths : snap[p] # None}

(* What a transaction that has not loaded bundle.files finds there.          *)
View(t) ==
  [p \in Paths |-> IF p \in DOMAIN t.writes THEN t.writes[p] ELSE Content(files)[p]]

IsNewest(i) ==
  i \in DOMAIN revisions /\ \A k \in DOMAIN revisions : revisions[k].version <= revisions[i].version

ActiveJobs == {j \in DOMAIN jobs : jobs[j].status # "FINAL"}

Others(r) == {tx[q] : q \in Requests \ {r}}

(* UPDATE application_bundles holds the row until the end of the             *)
(* transaction, and the foreign key of an inserted revision keeps the row    *)
(* from being deleted.                                                       *)
HoldsBundle(t) == t.op \in {"save", "delete", "restore"} /\ t.pc \in {"max", "snapshot", "insert", "commit"}
HoldsVersion(t) == t.pc = "commit"

Move(r, pc) == tx' = [tx EXCEPT ![r].pc = pc]

(* An exception, an abort of the database, the end of the process: nothing   *)
(* of the transaction remains.                                               *)
Rollback(r) ==
  /\ tx' = [tx EXCEPT ![r] = Idle]
  /\ UNCHANGED <<tables, history>>

-----------------------------------------------------------------------------
(* The start of a request: what it reads before its first write.             *)

CreateApplication ==
  /\ bundle = "none" /\ issued < MaxRevisions
  /\ \E paths \in Templates :
       /\ files' = [p \in Paths |-> IF p \in paths THEN [id |-> 1, content |-> Default] ELSE None]
       /\ revisions' = [i \in {1} |-> [version |-> 1, snapshot |-> Content(files')]]
  /\ bundle' = "live" /\ issued' = 1
  /\ UNCHANGED <<jobs, queued, tx, history>>

Begin(r, t) ==
  /\ tx[r].pc = "idle" /\ bundle = "live"
  /\ tx' = [tx EXCEPT ![r] = t]
  /\ UNCHANGED <<tables, history>>

CreateFile(r) == \E p \in Paths :
  /\ files[p] = None
  /\ Begin(r, [Idle EXCEPT !.op = "create", !.pc = "flush", !.path = p, !.content = Default])

(* Seeded fault: the content is not validated.                               *)
SaveAnything(r) == \E p \in Paths :
  /\ files[p] # None
  /\ Begin(r, [Idle EXCEPT !.op = "save", !.pc = "flush", !.path = p, !.content = "broken",
                          !.loaded = files])

(* Of the loaded rows only that of the edited file is used.                  *)
SaveFile(r) == \E p \in Paths, c \in Contents :
  /\ files[p] # None
  /\ Begin(r, [Idle EXCEPT !.op = "save", !.pc = "flush", !.path = p, !.content = c,
                          !.loaded = [q \in Paths |-> IF q = p THEN files[p] ELSE None]])

(* len(bundle.files) loads the list that the revision is made from.          *)
DeleteFile(r) == \E p \in Paths :
  /\ files[p] # None
  /\ Cardinality(Present(files)) > 1
  /\ Begin(r, [Idle EXCEPT !.op = "delete", !.pc = "flush", !.path = p, !.loaded = files])

Restore(r) == \E i \in DOMAIN revisions :
  Begin(r, [Idle EXCEPT !.op = "restore", !.pc = "flush", !.loaded = files,
                        !.target = revisions[i].snapshot])

StartJob(r) == Begin(r, [Idle EXCEPT !.op = "start", !.pc = "max"])

Prune(r) == Begin(r, [Idle EXCEPT !.op = "prune", !.pc = "payloads", !.list = DOMAIN revisions])

DeleteApplication(r) ==
  /\ ActiveJobs = {}
  /\ Begin(r, [Idle EXCEPT !.op = "drop", !.pc = "erase"])

-----------------------------------------------------------------------------
(* The writes of the files.                                                  *)

SameRow(t, p) == files[p] # None /\ t.loaded[p] # None /\ files[p].id = t.loaded[p].id

(* What the statements of the flush change: rows are updated and deleted by  *)
(* their id, so a row somebody else has replaced is left alone.              *)
FlushedWrites(t) ==
  CASE t.op = "create" -> [p \in {t.path} |-> t.content]
    [] t.op = "save"   -> [p \in {t.path} \ {q \in {t.path} : t.loaded[q].content = t.content}
                             |-> t.content]
    [] t.op = "delete" -> [p \in {q \in {t.path} : SameRow(t, q)} |-> None]
    [] t.op = "restore" ->
         [p \in {q \in Paths : SameRow(t, q)} \union Present(t.target) |-> t.target[p]]

(* The update of a row that is gone is noticed, as is an insert at a path    *)
(* that is taken; the delete of a row that is gone only logs a warning.      *)
FlushFails(t) ==
  \/ bundle # "live"
  \/ t.op = "save" /\ DOMAIN FlushedWrites(t) # {} /\ ~SameRow(t, t.path)
  \/ t.op = "create" /\ files[t.path] # None
  \/ t.op = "restore" /\ \E p \in Present(t.target) : files[p] # None /\ ~SameRow(t, p)

Flush(r) ==
  /\ tx[r].pc = "flush"
  /\ \A t \in Others(r) :
       /\ tx[r].op # "create" => ~HoldsBundle(t)
       /\ DOMAIN t.writes \intersect DOMAIN FlushedWrites(tx[r]) = {}
  /\ IF FlushFails(tx[r])
       THEN Rollback(r)
       ELSE /\ tx' = [tx EXCEPT ![r].pc = "max", ![r].writes = FlushedWrites(tx[r])]
            /\ UNCHANGED <<tables, history>>

-----------------------------------------------------------------------------
(* create_revision.                                                          *)

SelectMax(r) ==
  /\ tx[r].pc = "max"
  /\ \E v \in 0 .. MaxRevisions :
       /\ \/ v = 0 /\ DOMAIN revisions = {}
          \/ \E i \in DOMAIN revisions : IsNewest(i) /\ v = revisions[i].version
       /\ tx' = [tx EXCEPT ![r].pc = "snapshot", ![r].max = v]
  /\ UNCHANGED <<tables, history>>

(* bundle.files is read now, unless the session has it already.              *)
SnapshotBundle(r) ==
  /\ tx[r].pc = "snapshot"
  /\ tx' = [tx EXCEPT ![r].pc = "insert", ![r].snapshot =
       CASE tx[r].op = "delete" -> [Content(tx[r].loaded) EXCEPT ![tx[r].path] = None]
         [] tx[r].op = "restore" -> tx[r].target
         [] OTHER -> View(tx[r])]
  /\ UNCHANGED <<tables, history>>

(* Seeded fault: no UNIQUE (bundle_id, version).                             *)
InsertAnyway(r) ==
  /\ tx[r].pc = "insert"
  /\ IF bundle = "live" THEN Move(r, "commit") /\ UNCHANGED <<tables, history>> ELSE Rollback(r)

(* An insert of the same version waits for the one that was first.           *)
InsertRevision(r) ==
  /\ tx[r].pc = "insert"
  /\ \A t \in Others(r) : HoldsVersion(t) => t.max # tx[r].max
  /\ IF bundle = "live" /\ \A i \in DOMAIN revisions : revisions[i].version # tx[r].max + 1
       THEN Move(r, "commit") /\ UNCHANGED <<tables, history>>
       ELSE Rollback(r)

NewFiles(t, id) ==
  [p \in Paths |->
     IF p \notin DOMAIN t.writes THEN files[p]
     ELSE IF t.writes[p] = None THEN None
     ELSE [id |-> IF t.op = "save" THEN files[p].id ELSE id, content |-> t.writes[p]]]

(* queue_job under the lock of the cluster row, then the commit.             *)
QueueJob(t, id) ==
  IF t.op = "start"
    THEN /\ ActiveJobs = {} /\ queued < MaxJobs
         /\ queued' = queued + 1
         /\ jobs' = [j \in DOMAIN jobs \union {queued + 1} |->
              IF j \in DOMAIN jobs THEN jobs[j]
              ELSE [status |-> "QUEUED", revision |-> id, wanted |-> Content(files), deploys |-> None]]
    ELSE UNCHANGED <<jobs, queued>>

Commit(r) ==
  LET t == tx[r]
      id == issued + 1
  IN /\ t.pc = "commit" /\ issued < MaxRevisions
     /\ QueueJob(t, id)
     /\ issued' = id
     /\ files' = NewFiles(t, id)
     /\ revisions' = [i \in DOMAIN revisions \union {id} |->
          IF i \in DOMAIN revisions THEN revisions[i]
          ELSE [version |-> t.max + 1, snapshot |-> t.snapshot]]
     /\ outdated' = IF t.op \in {"delete", "restore"} /\ t.snapshot # Content(files')
                      THEN outdated \union {id} ELSE outdated
     /\ overtaken' = IF \E i \in DOMAIN revisions : revisions[i].version > t.max + 1
                       THEN overtaken \union {"late"} ELSE overtaken
     /\ tx' = [tx EXCEPT ![r] = Idle]
     /\ UNCHANGED bundle

-----------------------------------------------------------------------------
(* cleanup_manifest_revisions, and the rest of delete_application.           *)

(* Seeded fault: only the newest revisions are kept.                         *)
ReadNoPayloads(r) ==
  /\ tx[r].pc = "payloads"
  /\ Move(r, "erase")
  /\ UNCHANGED <<tables, history>>

ReadPayloads(r) ==
  /\ tx[r].pc = "payloads"
  /\ tx' = [tx EXCEPT ![r].pc = "erase", ![r].refs = {jobs[j].revision : j \in DOMAIN jobs}]
  /\ UNCHANGED <<tables, history>>

(* Seeded fault: the order of the revisions is reversed.                     *)
OldestOf(list) ==
  {i \in list \intersect DOMAIN revisions :
     Cardinality({k \in list \intersect DOMAIN revisions : revisions[k].version < revisions[i].version}) < RetentionKeep}

Retained(list) ==
  {i \in list \intersect DOMAIN revisions :
     Cardinality({k \in list \intersect DOMAIN revisions : revisions[k].version > revisions[i].version}) < RetentionKeep}

EraseRevisions(r) ==
  /\ tx[r].op = "prune" /\ tx[r].pc = "erase"
  /\ LET gone == tx[r].list \ (Retained(tx[r].list) \union tx[r].refs)
     IN revisions' = [i \in DOMAIN revisions \ gone |-> revisions[i]]
  /\ tx' = [tx EXCEPT ![r] = Idle]
  /\ UNCHANGED <<bundle, files, issued, jobs, queued, history>>

(* The cascade takes the revisions that were inserted meanwhile as well.     *)
EraseBundle(r) ==
  /\ tx[r].op = "drop" /\ tx[r].pc = "erase"
  /\ \A t \in Others(r) : ~HoldsBundle(t) /\ ~HoldsVersion(t) /\ DOMAIN t.writes = {}
  /\ bundle' = "deleted"
  /\ files' = [p \in Paths |-> None]
  /\ revisions' = [i \in {} |-> None]
  /\ overtaken' = IF ActiveJobs # {} THEN overtaken \union {"queued"} ELSE overtaken
  /\ tx' = [tx EXCEPT ![r] = Idle]
  /\ UNCHANGED <<issued, jobs, queued, outdated>>

Fail(r) == tx[r].pc # "idle" /\ Rollback(r)

-----------------------------------------------------------------------------
(* The worker, and the pruning of the job history.                           *)

Claim(j) ==
  /\ jobs[j].status = "QUEUED"
  /\ jobs' = [jobs EXCEPT ![j].status = "RUNNING"]
  /\ UNCHANGED <<bundle, files, revisions, issued, queued, tx, history>>

(* Seeded fault: the worker takes the files of the bundle.                   *)
LookUpFiles(j) ==
  /\ jobs[j].status = "RUNNING" /\ jobs[j].deploys = None
  /\ jobs' = [jobs EXCEPT ![j].deploys = Content(files)]
  /\ UNCHANGED <<bundle, files, revisions, issued, queued, tx, history>>

(* execute_manifest_job: the revision is read once, and rendered.            *)
LookUp(j) ==
  /\ jobs[j].status = "RUNNING" /\ jobs[j].deploys = None
  /\ jobs' = IF jobs[j].revision \in DOMAIN revisions
               THEN [jobs EXCEPT ![j].deploys = revisions[jobs[j].revision].snapshot]
               ELSE [jobs EXCEPT ![j].status = "FINAL"]
  /\ UNCHANGED <<bundle, files, revisions, issued, queued, tx, history>>

Finish(j) ==
  /\ jobs[j].status = "RUNNING" /\ jobs[j].deploys # None
  /\ jobs' = [jobs EXCEPT ![j].status = "FINAL"]
  /\ UNCHANGED <<bundle, files, revisions, issued, queued, tx, history>>

ForgetJob(j) ==
  /\ jobs[j].status = "FINAL"
  /\ jobs' = [k \in DOMAIN jobs \ {j} |-> jobs[k]]
  /\ UNCHANGED <<bundle, files, revisions, issued, queued, tx, history>>

Request(r) ==
  \/ CreateFile(r) \/ SaveFile(r) \/ DeleteFile(r) \/ Restore(r) \/ StartJob(r)
  \/ Prune(r) \/ DeleteApplication(r)
  \/ Flush(r) \/ SelectMax(r) \/ SnapshotBundle(r) \/ InsertRevision(r) \/ Commit(r)
  \/ ReadPayloads(r) \/ EraseRevisions(r) \/ EraseBundle(r)
  \/ Fail(r)

Job(j) == Claim(j) \/ LookUp(j) \/ Finish(j) \/ ForgetJob(j)

Next == CreateApplication \/ (\E r \in Requests : Request(r)) \/ (\E j \in DOMAIN jobs : Job(j))

Spec == Init /\ [][Next]_vars

-----------------------------------------------------------------------------
(* The variables keep their types.                                           *)
TypeOK ==
  /\ bundle \in {"none", "live", "deleted"}
  /\ files \in [Paths -> Rows \union {None}]
  /\ DOMAIN revisions \subseteq RevisionIds /\ revisions \in [DOMAIN revisions -> Revisions]
  /\ issued \in 0 .. MaxRevisions
  /\ DOMAIN jobs \subseteq JobIds /\ jobs \in [DOMAIN jobs -> Jobs]
  /\ queued \in 0 .. MaxJobs
  /\ tx \in [Requests -> Transactions]
  /\ outdated \subseteq RevisionIds
  /\ overtaken \subseteq {"late", "queued"}

(* The newest revision holds exactly the files there are, whatever requests  *)
(* overlap, although neither the highest version nor the files are read      *)
(* under a lock: the unique version makes the later of two requests fail     *)
(* (create_revision).  Exempt are revisions that a deletion or a restore     *)
(* made from a list of files that had changed, and a version that was        *)
(* pruned and taken again within one transaction.                            *)
NewestRevisionIsCurrent ==
  bundle = "live" /\ "late" \notin overtaken =>
    \A i \in DOMAIN revisions :
      IsNewest(i) /\ i \notin outdated => revisions[i].snapshot = Content(files)

(* What a job deploys is what the files were when it was queued, whatever    *)
(* has been edited, restored or pruned between that commit and the worker's  *)
(* read (start_manifest_job, execute_manifest_job); and until that read its  *)
(* revision is there: neither a pruning nor the deletion of the application  *)
(* takes it, unless the job was queued behind the check of                   *)
(* delete_application.                                                       *)
DeploysWhatWasQueued ==
  /\ "late" \notin overtaken =>
       \A j \in DOMAIN jobs : jobs[j].deploys \in {None, jobs[j].wanted}
  /\ "queued" \notin overtaken =>
       \A j \in ActiveJobs : jobs[j].revision \in DOMAIN revisions

(* A revision never changes, and while the application lives the highest     *)
(* version never gets smaller, so no number stands for two states.           *)
RevisionsAreImmutable ==
  [][/\ \A i \in DOMAIN revisions \intersect DOMAIN revisions' : revisions'[i] = revisions[i]
     /\ bundle' = "live" => \A i \in DOMAIN revisions :
          \E k \in DOMAIN revisions' : revisions'[k].version >= revisions[i].version]_vars

(* An application has at least one file (delete_manifest_file refuses to     *)
(* delete the last one).                                                     *)
ApplicationHasFile == bundle = "live" => Present(Content(files)) # {}
=============================================================================
