# TLA+ specification of the Proxmox Kubernetes Cluster Builder

This directory holds a TLA+ model of the cluster builder (`src/app`): the web
application that records clusters and queues jobs, and the worker that runs
Terraform, Ansible and Talos for them. Modules are checked with TLC on small
instances and, where marked, proved with TLAPS for every value of the constants.

## 1. The system

| Component | State it keeps | Operations | What makes it correct |
|---|---|---|---|
| Cluster records (`models.py`, `services.py`, `main.py`) | row: status, `config`/`config_hash`, `planned_hash`, `destroy_planned_hash`, `applied_hash`, `applied_vm_ids` | create, edit, delete | the status and the hashes say what is true of the machines; an edit takes back plan and status; a record that is gone leaves no machines |
| Job queue (`queue_job`, `claim_job`, `finish_job`, recovery) | rows of `jobs`: kind, status, `requested_config_hash`, `cancel_requested`, heartbeat | queue, cancel, claim, finish, recover, prune | one active job per cluster; a job starts at most once, and only while it waits; every job ends |
| Worker execution (`worker.execute`) | the job in memory; workspace files `tfplan`, `destroy.tfplan`, `terraform.tfstate`, rendered inputs, `kubeconfig` | plan, apply, Ansible, verify, destroy plan, destroy, manifest jobs | exactly the reviewed plan of the saved configuration is applied, once |
| Command runner (`run_command`) | process, reader thread, output queue, log | start, read, heartbeat, cancel, kill | the log is complete and in order; a cancelled command does not survive |
| Talos bootstrap (`prepare_talos_assets` .. `run_talos_stack`) | PKI, machine configs, bootstrap markers | generate, classify, apply configs, bootstrap, fetch kubeconfig | PKI made once; no half-joined node; etcd bootstrapped once |
| Application bundles (`manifests.py`) | bundles, items, revisions | edit, snapshot, restore, prune revisions, manifest jobs | a queued job finds the revision it was queued for |
| Allocations and preferences (`allocations.py`) | VM ids, addresses and VIPs of clusters; the preference row | suggest, validate | no two clusters have machines with one address, no two active ones are saved with one |
| Kubectl terminal (`kubectl_terminal.py`, websocket in `main.py`) | websocket, message queue, one process | command, interrupt, disconnect | no process survives its client, an interrupt hits its own command, output is shown in order, what was served is audited |
| Credentials (`security.py`, `services.py`) | encrypted payloads | store, delete, decrypt | a cluster that may have machines keeps its credentials |
| Configuration schema, generator, Terraform/Proxmox readers | none | parse, render, read | inputs belong to one configuration |
| Web UI, migrations, installation scripts, playbooks | none at run time | | |

Requests and workers interact only through the PostgreSQL rows, the workspace
directory `/data/clusters/<id>` and the machines themselves. There is one web
process (uvicorn) and, in `compose.yaml`, one worker. A request has its own ORM session. A route that
is a plain function (queue, cancel, delete, prune, reset of the settings) runs in a thread, beside all
others; a coroutine (`create_cluster`, `update_cluster`, `update_preferences`) runs on
the event loop, where others get in only at an `await`, which is that of the form. The worker is a loop that
opens a short session for every read or write. The explicit locks are
`SELECT .. FOR UPDATE` on the cluster row in `queue_job` and on the job row in `claim_job`. What is hard about this:
requests act on rows they read earlier; files are written before or after the
commit they belong to; the worker, the web process or a command may die between
any two steps; a job that stopped sending heartbeats is given up although its
worker may be alive; Terraform may leave a mixture behind, or machines it has not recorded.

The places where this code can go wrong are listed, with the properties that
cover them, in `PROJECT.json` under `hazards`.

## 2. Plan

| # | Module | Subject | State |
|---|---|---|---|
| 1 | `JobQueue` | what the job table promises (abstract) | done |
| 1 | `ClusterJobs` (+ `MCClusterJobs`) | records, queue, worker, workspace | done |
| 1 | `ClusterJobsProofs`, `ClusterJobsSafety` | types, one active job, refinement of `JobQueue`; exclusive execution, plans, machines, statuses, kubeconfig | done |
| 2 | `TalosBootstrap` (+ `MCTalosBootstrap`, `TalosBootstrapProofs`) | PKI, nodes, markers and bootstrap under crashes, losses and rebuilds | done |
| 3 | `RunCommand` (+ `RunCommandProofs`) | process, reader thread, cancellation | done |
| 4 | `ManifestRevisions` (+ `MCManifestRevisions`, `ManifestRevisionsProofs`) | files, revisions, retention, queued manifest jobs | done |
| 5 | `Allocations`, `Reservations` (+ `MCReservations`, `ReservationsProofs`) | addresses and VM ids: rules, suggestions, saves, settings, credentials, jobs, Proxmox's answers | done |
| 6 | `KubectlTerminal` (+ `KubectlTerminalProofs`) | page, websocket, handler, process | done |
| 7 | algorithms | manifest classification, template disk checks against reference definitions | open |
| 8 | proofs | every invariant and every action property of the passing runs | done |

`Reservations` EXTENDS `Allocations`, the pure operators of `allocations.py`, and has
its own coarse worker (plan, apply, destroy, each of which may fail); `ClusterJobs` has its own coarse
configuration (a member of `Hashes`). `TalosBootstrap`, `RunCommand` and
`ManifestRevisions` each refine one step of `ClusterJobs` and rely on its
`ExclusiveExecution` or `AtMostOneActiveJob`.

## 3. Modules

### ClusterJobs

One action per handler or per short database session of the code.

| State | Code |
|---|---|
| `row[c]` | the row of `clusters`; configurations are members of `Hashes` (their `config_hash`); `None` when deleted |
| `jobs`, `issued` | the rows of `jobs`; ids are never reused and numbered in the order of the inserts, which is taken as that of `created_at` (no property depends on it). The four manifest kinds are one kind, `MANIFEST` |
| `lock[c]` | the holder of the row lock taken in `queue_job` |
| `req[h]` | a request: where it is, the copy of the row its session loaded (`snap`), its parameters |
| `work[w]` | a worker: where in `execute` it is, and the fields of the job it has in memory |
| `disk[c]` | the workspace: which configuration the rendered inputs, `tfplan`, `terraform.tfstate` and `kubeconfig` belong to; which plan files Terraform would still accept (`fresh`) |
| `vms[c]` | the machines that really run, of those Terraform has ever recorded: those of a configuration, none, or a mixture |
| `orphans[c]` | the configurations of which machines run that a killed Terraform made and never recorded |
| `overtaken[c]` | history: some request of `c` has written although the row or the list of jobs had changed since it read them |
| `abandoned[c]` | history: the web process died between the commit of an edit and the removal of the kubeconfig, and nothing has put that right since |

Requests: `BeginEdit`, `RenderEdit`, `CommitEdit`, `UnlinkKubeconfig` are
`update_cluster` and `save_cluster`, cut where other transactions can get in (the
`await` of the form, the rendering before the commit, the unlink after it).
`StartJob`, `LockCluster`, `CheckQueue`, `InsertJob` are `start_job`/`queue_job`;
note that `SELECT .. FOR UPDATE` gives back the instance the session already holds,
so the hash checks use `snap`. `ReadForCancel`, `WriteCancel`; `PruneJobs`;
`BeginDelete`, `ProbeVMs`, `RemoveWorkspace`, `DeleteRow`. `CommitEdit` writes only
the columns that differ from `snap` (`Flush`), as the ORM does.

`NothingFound` is what Proxmox is asked before a record is deleted that is not
DESTROYED: the VM ids of the saved, the applied and the recorded machines.

Worker: `RecoverStaleJobs`; `SelectJob` and `ClaimJob`, the two halves of `claim_job`: the
`SELECT .. FOR UPDATE SKIP LOCKED` takes the oldest job that is not locked, by another worker, a
cancellation or a deletion (`MayBeLocked`: whether one of them has the lock at that moment is open), and
the commit makes it RUNNING, so that a younger job can be RUNNING first; a cancellation or deletion that
meets a selected job waits for that commit. Then `Execute` (hash check, render), one
action per step of the job kind, and `FinishJob`. Every step that runs a command has
the outcomes "worked" and `Breaks` (failed or noticed a cancellation).

`TerraformRun` is the external Terraform. It applies a fresh plan completely, partly or not at
all, writes `terraform.tfstate`, and refuses a plan made from an older state. When it is killed, on a
cancellation (`worker.py:117`) or with its worker, the state may lag behind: machines it still names are
already gone or changed, and machines it does not name were made, the `orphans`. Terraform
never learns of an orphan again (`-refresh=false`, `worker.py:202`), so no action of the
model removes one; an operator may, which only makes fewer.

Faults: `worker_crash` (the process dies and is restarted, its Terraform is killed with it and
its plan file is not unlinked),
`web_crash` (requests and row locks vanish), `stall` (a live worker is taken for
dead by the heartbeat rule).

Abstractions: a database session of the worker is one step; logs, audit events,
credentials and form validation are left out (a refused form or missing credential
is a nondeterministic refusal); `applied_vm_ids` is part of what `applied` and `state`
say; time is absent, so a heartbeat is "too old" whenever its worker has died (or
may be, with `stall`). No run turns `stall` on: `ImplementsQueue` was proved for it
(`Refinement`), and the properties about exclusive execution rightly exclude it.

### JobQueue

The promise of the job table: `Submit`, `Start`, `Close`. In which order waiting jobs start is
not part of it, since `claim_job` skips locked rows. `ClusterJobs` refines it
by the mapping `Phase`/`owner`: a job row that is finished or gone is closed.

### TalosBootstrap

What `TerraformRun` and one step of `Provision` stand for in `ClusterJobs`, in full for
a Talos cluster. One run at a time, as `ExclusiveExecution` of `ClusterJobs` allows.

| State | Code |
|---|---|
| `disk[f]` | the PKI in `secrets.yaml`, `controlplane.yaml`, `worker.yaml`, `talosconfig`, the `nodes` directory and the kubeconfig; `NoPki` when missing |
| `vm[n]` | what answers at the address of a node: nothing, maintenance mode, a foreign machine (other PKI or version), or the PKI it was configured with |
| `etcd`, `asked` | the etcd of the control planes; how often the bootstrap command was sent since they were built |
| `requested`, `complete` | the two marker files |
| `run` | the job: its kind, next step, the PKI it stages, the nodes it has still to configure |
| `issued`, `lost` | history: the PKIs ever generated; every trace of the PKI was lost at some time |

`ReuseSecrets`, `RecoverSecrets`, `GenerateSecrets`, `InstallSecrets`,
`RenderConfigs`, `ReplaceConfig` are `prepare_talos_assets`, one action per
`os.replace`; `ClassifyNodes`, `ConfigureNode` the configuration of the nodes;
`MembersAnswer` .. `SendBootstrap` are `ensure_talos_bootstrap`. `Stop` is every way a
run ends early (command failure, deadline, cancellation, death of the worker): the
code cleans up nothing that is modelled. Terraform creates, replaces (`replace`) and
destroys any part of the machines. Between runs a file (`loss`) or all of them
(`loss_all`) may be lost. Abstractions: the contents of the configurations and the
node files one by one; Calico, Traefik and the health check, which change nothing here;
a classification deadline is a `Stop`.

### RunCommand

One call of `run_command`: its loop, the thread `read_output` and the command itself.
`pc` is the place in the loop; `item`, `finished`, `queue` are `item`,
`output_finished`, `output`; lines are numbered in the order in which they are printed.
The pipe holds `PipeSize` lines and blocks the command when it is full. The command
may exit, hang, ignore SIGTERM, or leave a child behind that holds its output open
(`helper`); the reader may fail at a line that is not UTF-8 (`undecodable`); a
statement of the database may fail (`db_error`). Heartbeats and the secrets cut out of
the log are left out.

Two things this model shows that no statement of the repository speaks of, and that
the properties therefore exempt: an exception of the database inside the loop leaves
the command running while the job is recorded as failed (`NothingLeftRunning` exempts
the outcome `error`), and a line that cannot be decoded ends the reader, after which a
command that fills the pipe hangs until the job is cancelled (`CommandEnds` exempts a
failed reader).

### ManifestRevisions

One application bundle and the requests that change it. A request is one READ
COMMITTED transaction; the actions are its reads and its writes, so another request
can commit between any two of them.

| State | Code |
|---|---|
| `bundle` | the row of `application_bundles`: not there yet, live, deleted |
| `files[p]` | the row of `manifest_files` at a path; `id` tells a row that was replaced from the one loaded |
| `revisions`, `issued` | the rows of `manifest_revisions`; ids are numbered in the order of the commits, which is also taken as the order of `created_at` |
| `jobs`, `queued` | the manifest jobs; `wanted` (history) is what the files were at the commit, `deploys` what the worker renders |
| `tx[r]` | the transaction of a request: its place, the rows its session has loaded, its uncommitted writes, the version it has read |
| `outdated`, `overtaken` | history, see below |

`CreateFile`, `SaveFile`, `DeleteFile`, `Restore`, `StartJob`, `Prune`,
`DeleteApplication` are the routes up to their first write; `Flush` their
statements on files; `SelectMax`, `SnapshotBundle`, `InsertRevision`, `Commit` are
`create_revision` and what follows; `ReadPayloads`, `EraseRevisions` are
`cleanup_manifest_revisions`; `LookUp` is the worker's read. From PostgreSQL come the
row locks of an UPDATE, the wait of an INSERT for an uncommitted entry of a unique
index, and that a foreign key of an uncommitted row keeps its parent from being
deleted. From SQLAlchemy: an UPDATE of a row that has gone raises, a DELETE only warns,
and a list that is loaded is not read again. `Fail` stands for deadlocks, lost
connections and the end of the process.

What overlapping requests really can do, and the properties therefore exempt:
a deletion or restore works on the list of files its session has loaded, so a file
created meanwhile stays, without being in the new revision (`outdated`); a version that
is pruned and inserted again within one transaction leaves the newest revision behind
(`late`: it takes at least as many commits inside one transaction as revisions are
kept); and a job queued between the check of `delete_application` and its commit loses
its revision (`queued`), whereupon the worker ends it with an error.

Left out: the contents of manifests and templates, `render_snapshot`, the tests of
ingresses, and the check that the runtime of the cluster is current, which belongs to
`ClusterJobs`. That there is one active job per cluster is taken from `ClusterJobs`.

### Allocations and Reservations

`Allocations` holds what `allocations.py` and `validate_cluster` compute, over numbers
and ranges of numbers. `Reservations` is about who computes it when.

| State | Code |
|---|---|
| `row[c]` | the row of `clusters`: its configuration, whether it is DESTROYED, whether it has a plan |
| `preference`, `writes` | the row of `preferences`; how often anything was saved (bound) |
| `credential` | the ids of the `credentials` there are |
| `req[r]` | a request: where it is, the form, the configuration its session has loaded (`own`); `used` (history) is what the others had when it checked |
| `machines[c]` | the configurations of the machines that its Terraform state records (more than one after a broken apply) |
| `strays[c]` | those of machines that a killed Terraform has made and not recorded |
| `job` | the job that is under way: its kind, how far it is, its configuration |
| `overtaken` | history: clusters that the worker has made active again without a check of their addresses, and clusters whose credentials went around a save or while they were DESTROYED |

`Submit`, `CheckForm`, `CheckAllocations`, `SaveNew`/`SaveEdited` are the route and
`save_cluster`; forms are filled by hand or with a suggestion. A suggestion replaces the API VIP, the
first addresses and the first VM ids; the network and the gateway are those of the settings for a
new cluster and the cluster's own for an edit (`Drafts`). The routes that save are coroutines:
only one of them is past its form at a time (`LoopFree`). The deletion of credentials and
of records, the reset of the settings and the worker come in between.
`UpdatePreferences` saves or resets settings. `BeginDeleteCredential`, `DeleteCredential` are the two halves of
`delete_credential`, which runs in a thread; a save asks Proxmox about the template between its
look at the credential and its commit, so the two do overlap.

The worker is one (`compose.yaml`). `StartJob` is the beginning of `execute`; `InvalidatePlan`, which writes
DRAFT before anything is checked, and `FinishPlan` are PLAN; `BeginApply`, `TerraformApply` APPLY;
`BeginDestroy`, which writes APPLYING whatever the status was, and `FinishDestroy` DESTROY. `FailJob` is an APPLY or
DESTROY that fails before it has begun, also for want of a credential, and leaves FAILED. Each of
them can be run on a DESTROYED cluster, and all but a successful DESTROY make it active again (`Activate`).
`ProxmoxFree` is `validate_proxmox`. Whether a DESTROY has a valid destroy plan is not
asked: one can have been made of any cluster.

What the model shows beside the properties: the addresses of a DESTROYED cluster are free for
others, and a plan, a second destruction or a failing job makes it active again without a look
at theirs. `SavedDisjoint`, and what follows from it, exempts such a cluster until it is saved again, and
`MachinesDisjoint` says that the checks of the worker keep the machines apart all the same. `validate_proxmox` asks for the
addresses of guests, which an API VIP is not one of: that a node of one cluster takes
the VIP of another is caught by `SavedDisjoint` only. The suggestion for an edit may be refused when it is saved:
if the settings have moved to another network since, the addresses are not in the cluster's own
(`schemas.py:221`), and if Proxmox has not been asked, an id may be that of a template.
`SuggestionIsAccepted` says so.

Left out: names of clusters, the template's existence and disk, the agent's addresses,
IPv6.

### KubectlTerminal

One session: the page, the two directions of the connection, the task
`receive_messages`, the handler and one kubectl at a time.

| State | Code |
|---|---|
| `page`, `shown`, `exits` | `busy` and the socket of `terminal.js`; what the page shows |
| `up`, `down` | messages on the connection; `down` holds at most `Capacity`, then `send_json` waits |
| `messages`, `receiving` | the queue of the handler, and whether its receiver runs |
| `pc`, `command`, `stop`, `failed` | where the handler is, the command it serves, the message that stopped it, whether it ends by an exception |
| `process` | kubectl: running, output closed, terminated, exited; lines written and read |
| `audits` | the audit events |

`Woken` is `asyncio.wait(FIRST_COMPLETED)`: either task, or both; a line read together
with a control message is dropped, as the code does. `Send` waits for a slow page, and
raises or drops once the page is gone. The exit of kubectl may be noticed before its
last lines are read; they are then lost (`ShownIsPrefix` allows it). `terminate()` may
raise if kubectl has just ended: the handler then ends without an audit event, which
`ServedIsAudited` exempts by `failed`. While the handler waits for kubectl to exit
(`reap`) it obeys no message; the model assumes that kubectl exits once it has closed
its output.

Left out: which commands are allowed (`parse_kubectl_command` is a kind: it reads, it
changes the cluster, it is refused), origin and login checks, messages that are not
JSON (the page sends none; such a message would end the receiver alone), and lines of more
than 64 KB, on which `readline` raises: the handler then ends as after any other exception
(`failed`), while here a line is an event without a length.

### Proof modules

`ClusterJobsProofs`, `ClusterJobsSafety`, `TalosBootstrapProofs`, `RunCommandProofs`,
`ManifestRevisionsProofs`, `ReservationsProofs` and `KubectlTerminalProofs`: see section 6.

## 4. Runs

| Run | Module | Properties | Shows |
|---|---|---|---|
| `jobs_sequence` | `MCClusterJobs` | `TypeOK`, `DestroyedHasNoRecordedVMs`, `ReadyMatchesApplied`, `KubeconfigIsCurrent` | One user at a time starts up to five jobs of every kind, edits, deletes and prunes, and the worker and the web process may crash at every step: the status, the kubeconfig and the machines of a cluster stay consistent over long sequences of legal calls. |
| `jobs_overlap` | `MCClusterJobs` | `AtMostOneActiveJob`, `AuthorisedPlanIsCurrent`, `DeletedLeavesNothing`, `BuildsReviewedPlan` | Two requests interleave with each other and with the worker, and both processes may crash: only the reviewed plan of the saved configuration builds machines, and a deletion nobody overtook leaves no worker, none of the machines terraform recorded and, unless the cluster was DESTROYED, none with the VM ids of its configuration. |
| `jobs_queue` | `MCClusterJobs` | `ExclusiveExecution`, `ApplyingHasJob`, `ImplementsQueue`, `EveryJobEnds` | Two clusters and two workers, cancellations, pruning and crashes of both processes: no two workers execute jobs of one cluster, APPLYING always has a job, the table implements the abstract queue although a job is selected in one step and claimed in a later one; and, under the fairness of the worker loop and of the database lock, every queued job ends and no cluster stays APPLYING. |
| `claim_ready` | `MCClusterJobs` | `ReadyRunsConfig` (violated) | An apply that breaks after terraform leaves applied_hash as it was; after editing back, the Ansible job marks a cluster READY whose machines are those of the other configuration. |
| `talos_recovery` | `MCTalosBootstrap` | `TypeOK`, `BootstrapOnce`, `OnePki`, `NoHalfJoin` | Runs of every kind follow each other and stop anywhere, Terraform creates, replaces and destroys any part of three nodes, etcd comes and goes, files are lost, and once in a while all that is left of the PKI, so that a new one meets nodes of the old: etcd is bootstrapped at most once, no PKI of which a trace is left is replaced, and no node is configured before all are recognised. |
| `claim_bootstrap` | `MCTalosBootstrap` | `PollsOnlyAfterRequest` (violated) | A run that stops between writing the marker and sending the command leaves a cluster that every later run waits for although nobody ever asked for its bootstrap. |
| `command` | `RunCommand` | `TypeOK`, `LogIsOutput`, `NothingLeftRunning`, `CancelEnds`, `CommandEnds` | A command that prints more than its pipe holds, ends or hangs, with every fault: the log is the output in order and complete, nothing is left running, a cancellation ends run_command whatever the command does, and so does a command that ends. |
| `manifests` | `MCManifestRevisions` | `TypeOK`, `NewestRevisionIsCurrent`, `DeploysWhatWasQueued`, `RevisionsAreImmutable` | Two overlapping requests of every kind on one application, a job, prunings of revisions and of jobs, aborts at any point: the newest revision is the files, and a job deploys what they were when it was queued. |
| `claim_files` | `MCManifestRevisions` | `ApplicationHasFile` (violated) | Two overlapping requests each delete one of the last two files, and the application has none. |
| `reservations` | `MCReservations` | `TypeOK`, `MachinesDisjoint`, `SavedDisjoint`, `CredentialsKept`, `SuggestionIsAccepted`, `RoomIsSuggested`, `UnchangedIsAccepted` | Two overlapping requests save and edit two clusters with suggested and hand-made addresses, delete the credentials they use and change the settings, while the worker plans, builds, breaks, destroys and destroys them again; jobs fail at any point, and a killed Terraform leaves machines that its state does not record. |
| `claim_reserved` | `MCReservations` | `ReservedIsSkipped` (violated) | A network is reserved, and its first address is suggested. |
| `terminal` | `KubectlTerminal` | `TypeOK`, `NothingOutlives`, `InterruptHitsItsCommand`, `ServedIsAudited`, `ShownIsPrefix`, `NoCommandWhileServing`, `InterruptIsAnswered`, `SessionEnds` | Commands, interrupts that come early, late or twice, output on a connection that fills up, a page that goes away at any moment, kubectl that ends at any moment or never. |

### Bounds

`MaxJobs` bounds the jobs ever inserted, and so the history: three jobs are one
plan/apply/anything round with two requests overlapping; five, in `jobs_sequence`, are "deploy,
destroy, and one more" or "deploy, change, deploy, Ansible". `jobs_queue` has two clusters
with a job each, so that two workers meet at one queue; it is not about two
requests that queue at once, which `jobs_overlap` has. `RetentionKeep` is 1 (the code demands at least
10) so that pruning happens within the bound; the operation only compares with it. Two configurations
are enough to be "current" and "outdated", two workers and two requests to
overlap. Every cfg of `ClusterJobs` sets `CHECK_DEADLOCK FALSE`: with all jobs used up and the record
deleted, the modelled system really has nothing left to do.

`SYMMETRY` permutes configurations, requests, workers and clusters: no definition
names one of them. `View` hides the kind, hash and outcome of a finished job no
worker still holds; no guard and no property reads them (`PruneJobs` and the
refinement only ask whether a job is finished), so states equal under the view have
the same futures. `OverlapView` of `jobs_overlap` also hides the kubeconfig, which no guard reads
without the kinds VERIFY, MANIFEST and ANSIBLE, and `abandoned`, which only `KubeconfigIsCurrent` reads. `jobs_queue`, which checks liveness, uses neither.

`TalosBootstrap` is checked with three nodes (two control planes, so that etcd may
survive the loss of the bootstrap node, or one) and three PKIs, which bounds how often
secrets are generated; nothing else is bounded, so the runs follow each other for
ever. `RunCommand` uses three lines and a pipe for one: the command blocks, and lines
are in the pipe, the queue, the loop and the log at once. Its cfg sets `CHECK_DEADLOCK
FALSE` because a call of `run_command` ends.

`manifests` has two requests, two paths, two contents, three revisions and one job: a
revision before, and one of each of two overlapping requests; `RetentionKeep` is 1 (the
code demands at least 5). An instance with four revisions, two of them kept (eight
million states), shows nothing else. Its cfg sets `CHECK_DEADLOCK FALSE`: after all
revisions are used and the application is gone nothing is left to do. `Revisions` are
not symmetric, requests are.

`reservations` has two clusters, two requests and two saves, of clusters or of the settings, and any
number of jobs, deletions and failures. Two saves suffice for two clusters that want the same
addresses, also over the machines, the strays or the DESTROYED record of the other. That a built cluster is
moved while another takes its old addresses needs a third save; the theorems cover it.
The pools have room for two
clusters, for the workers not even that with everything reserved; one of the settings is in another
network. The configuration entered by hand shares an address with what is suggested first, names one VM id of the workers'
pool as its template, and a foreign guest has another. Three properties are evaluated in states without a request only
(`Quiet`): they read the tables alone, and every request may fail and leave the tables
as they are, so each table content is reached in such a state.

`terminal` has three commands of three lines, two interrupts and a connection that holds
one message to the page: an interrupt that comes late can meet the command after next,
and the handler blocks in the middle of the output. Its cfg sets `CHECK_DEADLOCK FALSE` because a
session ends.

### Findings

Four runs show something a message, a comment or the manual says and the code does
not keep. `PollsOnlyAfterRequest`, `ReadyRunsConfig` and `ReservedIsSkipped` need no
overlapping requests; `ApplicationHasFile` does.

- `ReadyRunsConfig` (src/app/worker.py:1182): Starting an apply clears planned_hash but not applied_hash, so an apply that breaks after terraform has changed the machines leaves the hash of the previous configuration; BUILDER.md:188 says that after a change of the configuration "gelten vorhandene Kubeconfig und Laufzeitstatus nicht mehr als aktuell. Der Builder verlangt dann einen neuen Terraform-Plan". The run shows an edit back to the previous configuration, after which ANSIBLE is allowed without a plan and marks the cluster READY while its machines are those of the other configuration.
- `PollsOnlyAfterRequest` (src/app/worker.py:871): ensure_talos_bootstrap writes bootstrap.requested.yaml before run_command, which first checks for a cancellation (worker.py:76); BUILDER.md:248 says "Der etcd-Bootstrap wird genau einmal angefordert und anhand des Remote-Zustands bestätigt". The run shows a job cancelled (or a worker that dies) between the two: the next run finds the marker and waits for an etcd nobody was asked to bootstrap, until a DESTROY removes the marker.
- `ApplicationHasFile` (src/app/main.py:637): delete_manifest_file counts bundle.files in the list its session has loaded and takes no lock before the flush; two requests that delete different files of a bundle with two files both pass the check and both commit, and the second revision still lists the file the first one removed. The message of the check says "Eine Anwendung muss mindestens eine Manifestdatei enthalten" (src/app/main.py:638).
- `ReservedIsSkipped` (src/app/allocations.py:109): parse_reserved_ips takes network.hosts() of a reserved CIDR, which leaves out its first and its last address, so both are suggested; the settings page says of reserved IPs and CIDRs "Diese Adressen werden bei automatischen Vorschlägen immer übersprungen." (src/app/templates/settings.html:126).

More that the code does, and the passing properties therefore do not exclude:

- Behind the proviso `~overtaken[c]` of `ClusterJobs`: an edit that waits for its form while a job is queued is not refused
  (`main.py:428`), a record can be deleted while a job queued behind the check builds its
  machines (`main.py:897`), and a job cancelled while it is being claimed runs on beside the next one.
- `orphans`: an apply that is cancelled may leave machines that `terraform.tfstate` does not
  have; destroy plan and destroy do not see them, the cluster is DESTROYED, and its record can be
  deleted without a question to Proxmox (`main.py:891`). `DestroyedHasNoRecordedVMs` and
  `DeletedLeavesNothing` are about the recorded machines, and about orphans only where
  the code asks for them.
- `abandoned`: a crash between the commit of an edit and the removal of the kubeconfig leaves the old one on
  disk (`services.py:314`), and an edit back makes it count as current if the runtime
  was; the next finished edit or provisioning ends that.

## 5. Fairness

`FairSpec` assumes strong fairness of every worker's loop and weak fairness of a
request that holds the row lock. `main()` in `worker.py` loops for ever and is
restarted by the container policy; its commands end or have a limit. Strong rather
than weak, because an `UPDATE` of the worker waits for the row lock of `queue_job`:
requests may take and release it again and again, and PostgreSQL queues the waiters. Crashes
are not limited, but strong fairness of `ClaimJob` and of the other steps means that a worker is not
killed for ever between the same two statements.
A request that waits for form data, and users in general, get no fairness.

`RunCommand` assumes that the two threads are scheduled and that SIGKILL works
(`FairSpec`). That the command prints its lines and exits is not assumed but the
premise of `CommandEnds`; a cancellation must end a command that does neither.

`KubectlTerminal` assumes that the event loop runs the handler and the receiver
whenever they can run, that the connection delivers what is on it (`ShowMessage`,
`SeeClose`), and that kubectl ends once it was sent SIGTERM or has closed its output.
Nothing makes it write or end by itself, and the user does nothing by necessity. The
connection may be full for any time, but not for ever: a page that is open reads.

`ManifestRevisions` and `Reservations` have safety properties only: a request may wait
for a form or fail at any time.

## 6. Proofs

For any constants that satisfy the assumptions of each module (`ConstantsAssumption`;
`NullIsNoRow` in `ClusterJobs`, `SuggestionAssumption` in `Allocations`: the value
`None` is none of the data, and the settings in `Defaults` are complete):

- `TypeCorrect` (`ClusterJobsProofs`): Every variable keeps its type, for any number of clusters, workers, requests, configurations and jobs; the induction carries which fields a request and a worker have set where they are.
- `OneActiveJob` (`ClusterJobsProofs`): No cluster ever has two queued or running jobs, because a request between SELECT .. FOR UPDATE and its commit holds the lock and what it found out about the jobs stays true.
- `Refinement` (`ClusterJobsProofs`): The job table implements the abstract queue of JobQueue under all requests, workers, crashes and recoveries: a job starts at most once and only while it waits, although another worker, a cancellation or a deletion may come between its selection and its commit; the row lock keeps them out.
- `OneWorkerPerCluster` (`ClusterJobsSafety`): No two workers ever execute jobs of one cluster, for any number of workers and requests, crashes and recoveries; the property itself exempts the fault stall and overtaken requests.
- `AuthorisedPlan` (`ClusterJobsSafety`): The plan file of an authorised row is the plan of the saved configuration, whatever is edited, planned again or crashes (assuming no stall).
- `DestroyedIsReleased` (`ClusterJobsSafety`): A cluster shown as DESTROYED has none of the machines that terraform ever recorded for it, also when runs were killed and the state lags behind them (assuming no stall): the state names every such machine until it is gone, and nothing builds one after the destroy. Orphans, which a killed terraform never recorded, are not among them.
- `ReadyMatchesHashes` (`ClusterJobsSafety`): While a cluster is READY, its saved hash is the one recorded as applied, across edits, breaks, crashes and VERIFY (assuming no stall). It compares hashes only: an apply that broke since is not seen (run claim_ready).
- `ApplyingIsBacked` (`ClusterJobsSafety`): A cluster in APPLYING has a RUNNING job that changes machines, so its end or its recovery ends that status (assuming no stall).
- `NothingRecordedIsLeft` (`ClusterJobsSafety`): When a record is deleted, and ever after, its cluster has no worker and none of the machines terraform recorded; unless it was DESTROYED, there is no orphan with a VM id of the saved or applied configuration either (assuming no stall).
- `ReviewedPlanIsBuilt` (`ClusterJobsSafety`): Machines of a configuration come only from an apply of the saved configuration whose authorisation has been consumed, also if terraform is killed or dies with its worker (assuming no stall).
- `KubeconfigOfConfig` (`ClusterJobsSafety`): The kubeconfig on disk is that of the configuration whose runtime is current, under crashes of both processes; if the web process died between the commit of an edit and its last statement, again once the next edit or provisioning has finished (assuming no stall).
- `BootstrapAtMostOnce` (`TalosBootstrapProofs`): No control plane ever gets a second bootstrap, for any nodes, any sequence of runs, any stop, outage, loss and half-finished destroy: the marker is written before the command and removed only when the control planes are gone.
- `NoNodeHalfJoins` (`TalosBootstrapProofs`): A node gets the PKI of the cluster only while every other node has been recognised, because nothing but the run itself changes a node between classification and configuration.
- `PkiNeverReplaced` (`TalosBootstrapProofs`): Unless every trace of the PKI was lost at some time, all files, the kubeconfig and all nodes carry the same PKI: a run holds the only one in use and secrets.yaml has it before anything else does.
- `TypeCorrect` (`TalosBootstrapProofs`): The variables keep their types and a run past prepare_talos_assets works with the PKI of secrets.yaml.
- `OutputLogged` (`RunCommandProofs`): For any number of lines and any pipe: the log is the output in order, and complete when run_command returns; the lines are numbered on through log, queue and pipe.
- `CommandStopped` (`RunCommandProofs`): When run_command has ended, its command has too, unless an exception of the database ended the loop; and when it returns no child of the command holds the output open, unless the reader failed.
- `TypeCorrect` (`RunCommandProofs`): The variables of run_command keep their types.
- `RevisionsTyped` (`ManifestRevisionsProofs`): The tables and transactions of the manifests keep their types, for any number of requests, paths, contents, revisions and jobs.
- `NewestIsCurrent` (`ManifestRevisionsProofs`): The newest revision holds exactly the files there are: two transactions that overlap on files end in the same version, which the unique index refuses to the later one.
- `QueuedIsDeployed` (`ManifestRevisionsProofs`): A job deploys what the files were at the commit that queued it, and its revision is there until it ends: it is the newest when it is queued, and a pruning keeps the newest and those of active jobs.
- `RevisionsNeverChange` (`ManifestRevisionsProofs`): No step changes a revision, and while the application lives the highest version never gets smaller.
- `ReservationsTyped` (`ReservationsProofs`): The rows hold validated configurations and the settings validated preferences, for any number of clusters, requests and forms.
- `MachinesNeverCollide` (`ReservationsProofs`): No two clusters have machines with the same VM id or address, nor one with a foreign guest, whatever requests and jobs overlap, those that a killed Terraform has left included: what the worker has asked Proxmox still holds when it applies.
- `SavedShareNothing` (`ReservationsProofs`): Two active clusters share no address, API VIP or VM id, unless a job (a plan, a failure, a second destruction) has made one of them active again that was DESTROYED and that has not been saved since: what a request has checked still holds when it commits, because requests past their form are served one at a time.
- `CredentialsAreKept` (`ReservationsProofs`): An active cluster has its credentials, unless they were deleted around its save, or while it was DESTROYED and a job has made it active again without them.
- `UnchangedCanBeSaved` (`ReservationsProofs`): An active cluster can be saved as it is, whatever has been reserved in the settings since, as long as no DESTROYED cluster was made active again by a job.
- `SuggestionCanBeSaved` (`ReservationsProofs`): For any valid settings and any clusters, new or edited: a suggestion has no conflict with the allocations of the others and the reservations; and it passes the validation of the configuration if that has the network and gateway of the settings and no template among the suggested ids, or if the ids Proxmox holds were asked for.
- `RoomSuffices` (`ReservationsProofs`): For any valid settings and any clusters: a suggestion is made whenever every pool has a free block for its role, because the pools do not overlap.
- `TypeCorrect` (`KubectlTerminalProofs`): Every variable of the terminal keeps its type, and what is on the connection and in the queue is what its senders send.
- `NoProcessOutlives` (`KubectlTerminalProofs`): When the handler has ended, by a return or an exception, its kubectl has ended too.
- `InterruptMeetsItsCommand` (`KubectlTerminalProofs`): For any number of commands and interrupts on the way: an interrupt stops the command it was pressed for and never a later one.
- `NoCommandDropped` (`KubectlTerminalProofs`): The loop of the handler, which drops messages, never meets a command: the prompt, the command, the handler or the prompt on its way back hold the turn, and only one of them.
- `ServedCommandsAreAudited` (`KubectlTerminalProofs`): A command that was served is audited once, in order and before its exit is shown, unless an exception ended the handler.
- `OutputHasNoGap` (`KubectlTerminalProofs`): The page shows the first lines of a command in order and without a gap, for any number of lines and any capacity of the connection.

The argument: `TypeOK` alone is not inductive, because a handler reads fields that
are only set at some points. `RequestsServed` and `WorkerHoldings` say which; with
them each action is checked variable by variable (`ServedStep`, `HoldingStep`,
`RowStepOfRequest`, `RowStepOfWorker`, `JobsTypedStep`, `DiskStepOf..`). `JobsStep`
sums up what any step does to the job table: it inserts one job, removes some, ends
some, or claims one. `SelectedInv` says that a job a worker has selected is
still queued and as it was, since everybody else waits for its row lock. `LockInv` is the strengthening that makes
`AtMostOneActiveJob` inductive: a request between lock and commit holds the lock of
its cluster, and at the insert the cluster has no active job. The refinement maps
the four cases of `JobsStep` to `Submit`, `Close`, `Close` and `Start`.

`ClusterJobsSafety` proves the other invariants of `ClusterJobs` from one induction,
`SafetyInv`, because none of them is inductive without the others. `HoldingInv` keeps
two workers from holding the same job. `ClusterInv` is about a cluster of which no
request was `overtaken`: as long as `terraform.tfstate` names no machine there is none of those it ever recorded
(`StateFits`; no more can be said once Terraform was killed); what `queue_job` compared still holds of every active job
(`JobFits`: while the job is active nobody but its worker writes the row); and a worker
relies on the inputs, the plan and the status that go with its place in `execute`
(`WorkerFits`, with the RUNNING row of its job, `Backed`). `RequestInv` gives what
breaks that: a request that writes without being overtaken has seen
that no job was active, and nothing has been queued since (`seen = issued`); a deletion has besides
what Proxmox answered (`MayDelete`), which still holds because only a worker makes machines.
Each action is then a lemma for its own cluster, and one lemma says that the other
clusters are untouched. One hypothesis is needed and stated: `NoStall` (no worker is given up
while it is alive): a worker that goes on after its job was recovered may build beside the
next one, which is the weakness of the heartbeat rule and not a case the properties
speak of; `OneWorkerPerCluster` needs no hypothesis, its property names the fault.
`KubeconfigOfConfig` covers crashes of the web process: as long as no edit was
abandoned, an old kubeconfig is only there while the request that removes it is between its commit and its
last statement (`UnlinkGoesOn`); a crash there sets `abandoned`, and what resets that leaves no file or a new
one (`AbandonedUntilMended`).

`BootstrapInv` adds to `BootstrapOnce` that a sent bootstrap has left the first marker,
that the command is sent only after the marker was written while none was sent, and
that a DESTROY reaches the markers only when no control plane is left. `ClassifiedInv`
says that during the configuration all nodes are still as they were classified.
`PkiInv` says that a run which holds a PKI holds the only one in use, and that a PKI in
use has left a trace `prepare_talos_assets` looks for, until everything was `lost`. In `RunCommandProofs` the lines in the log, in
the hand of the loop, in the queue and in the pipe carry consecutive numbers
(`LinesInOrder`), they are all that were printed (`NoLineLost`), and the sentinel is the
last thing in the queue (`Sentinel`); `LoopInv` says where the process can still be
running, so that `CommandStopped` follows from the same invariant.

`ManifestRevisionsProofs` has one invariant for all properties, `RevisionsInv`. Its
centre is `SnapshotIsFresh`: as long as no version above the one a
transaction has read has been committed, what it has written down as the files is what it
will leave there. A transaction that committed in between took a version above
that one, so the insert of the other meets the unique index (`VersionIsFree`, `Apart`) and
`CommitIsNewest` follows: a revision that is committed is the newest, and current. A
job names that revision, and `PruningSeesJobs` says that a pruning about to erase has
read the job of every revision on its list, or the foreign key stops it. That there is a newest
revision at all (`GreatestExists`) is proved with the pigeonhole
theorem, since induction is out of reach.

`ReservationsProofs` has two halves. The first is an induction, `ReservationsInv`: a
request that is about to save holds a valid configuration which shares nothing with the active
clusters (`RequestsInv`), and that stays true until its commit, because no other request is past its form
(`LoopFree`) and the worker makes no cluster active that was not, unless `overtaken` records it (`NoneAppears`); the answer of Proxmox holds until the apply,
because the worker has one job (`JobInv`). The second is arithmetic on
the pools: a block that is chosen is free in its pool (`LeastExists`,
`FirstBlockIsFree`), a configuration made of free blocks out of disjoint
pools passes every rule (`FreeBlocksAreValid`), and what the other roles take is outside
of a pool, so a free block stays free (`RoomIsLeft`). It is done for any
settings, any number of nodes and any clusters, new or edited.

`KubectlTerminalProofs` takes the connection to the server and the queue of the handler
as one sequence, `Sent`; the receiver only moves its boundary (`SentMoved`). `Turn` says that the
turn is in one place: the user has the prompt and nothing is on its way, or one command is in
`Sent`, or the handler serves it, or the prompt is on its way back as the last answer. That
is what makes `Interrupts` inductive (an interrupt behind a command, or one there is
while a command is served, carries the number of that command), `Audits` (a new
command has a higher number than every audited one) and `Lines`: in `Coming` the lines on
the connection continue those the page shows, and in `Reading` the handler has
read as many as are shown or coming, until a message stops the command. A line dropped then is
the last one that was read, so no later line follows the gap.

Only model-checked: the liveness properties (`EveryJobEnds`, `CancelEnds`, `CommandEnds`,
`InterruptIsAnswered`, `SessionEnds`), since temporal reasoning under fairness and
ENABLED are out of the prover's reach; the four properties that TLC finds violated are
findings, and nothing is proved of them. With `stall` nothing beyond types, `AtMostOneActiveJob`,
the refinement and `OneWorkerPerCluster` (which then says nothing) is proved.

## 7. Not modelled

- Credentials and security: Deletion of a credential against clusters that are saved and built with it. Encryption, password hashes, sessions and redaction are library calls over text.
- Configuration schema: The rules about addresses, VM ids and numbers of nodes (validate_cluster). The validation of single form values by pydantic is left out.
- Generated inputs: Rendering of tfvars, inventories and copies of the IaC sources: text output; ClusterJobs keeps which configuration the rendered inputs belong to.
- Terraform state and Proxmox client: Their answers: which machines Proxmox and the state know, and the collision checks of validate_proxmox; what a killed Terraform has not recorded. The HTTP client and the parsing of JSON are left out.
- Database set-up and migrations: Schema migrations run once before the processes start.
- User interface: Templates, styles and browser scripts; they hold no state of the system.
- Deployment of the orchestrator: Installation scripts, run once by an operator; the restart policy of the containers is the crash model of ClusterJobs.
- Ansible roles and playbooks: Configuration of remote hosts by external tools; one step that may break in ClusterJobs.
