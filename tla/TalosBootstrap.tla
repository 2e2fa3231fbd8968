----------------------------- MODULE TalosBootstrap -----------------------------
(* The Talos part of an APPLY, ANSIBLE or DESTROY job (src/app/worker.py):   *)
(* the cluster PKI and machine configurations in the workspace, the          *)
(* classification and configuration of the nodes, and the bootstrap of etcd  *)
(* with its two marker files.                                                *)
(*                                                                           *)
(* One run at a time: the job queue starts the next job of a cluster only    *)
(* when the previous one has ended (ClusterJobs).  Runs follow each other    *)
(* for ever; each may stop at any point, because a command fails, a wait     *)
(* exceeds its deadline, the job is cancelled or the worker dies.            *)
EXTENDS Naturals

CONSTANTS
  Nodes,          \* the Kubernetes nodes of the configuration
  ControlPlanes,  \* those that run etcd
  First,          \* the node that is bootstrapped: the first control plane
  Pkis,           \* the PKIs talosctl may generate (bounds how often it does)
  NoPki,          \* a file that does not exist
  Faults          \* what else happens: "replace", "outage", "loss", "loss_all"

MachineStates == {"absent", "maintenance", "foreign"}

ASSUME ConstantsAssumption ==
  /\ ControlPlanes \subseteq Nodes
  /\ First \in ControlPlanes
  /\ NoPki \notin Pkis
  /\ Pkis \intersect MachineStates = {}

VARIABLES
  issued,     \* the PKIs generated so far
  disk,       \* whose PKI the files of the workspace carry
  vm,         \* what answers at the address of a node
  etcd,       \* the etcd of the control planes
  asked,      \* bootstrap commands sent since the control planes were built
  requested,  \* bootstrap.requested.yaml exists
  complete,   \* bootstrap.complete.yaml exists
  run,        \* the job that runs: its kind, its next step, the PKI it stages
  lost        \* history: every trace of the PKI was lost at some time

vars == <<issued, disk, vm, etcd, asked, requested, complete, run, lost>>

Kinds == {"APPLY", "ANSIBLE", "DESTROY"}

SensitiveOutputs == {"controlplane", "worker", "talosconfig"}
PkiSources == {"secrets"} \union SensitiveOutputs
Files == PkiSources \union {"nodes", "kubeconfig"}

(* The files a run replaces one after the other, and what follows each.      *)
NextReplaced ==
  [controlplane |-> "worker", worker |-> "talosconfig", talosconfig |-> "nodes",
   nodes |-> "deploy"]

(* The steps at which a run has no PKI, holds one that is not yet in         *)
(* secrets.yaml, or works with the one that is.                              *)
Unstaged == {"idle", "prepare", "destroy", "unlink_requested", "unlink_complete"}
Staged == DOMAIN NextReplaced \union
  {"render", "deploy", "classify", "configure", "members", "markers", "bootstrap",
   "poll", "kubeconfig"}
Steps == Unstaged \union {"install"} \union Staged

Idle == [kind |-> "none", pc |-> "idle", pki |-> NoPki, left |-> {}]
At(step) == run.pc = step
Goto(step) == run' = [run EXCEPT !.pc = step]

Init ==
  /\ issued = {}
  /\ disk = [f \in Files |-> NoPki]
  /\ vm = [n \in Nodes |-> "absent"]
  /\ etcd = "none"
  /\ asked = 0
  /\ requested = FALSE
  /\ complete = FALSE
  /\ run = Idle
  /\ lost = FALSE

-----------------------------------------------------------------------------
(* The worker starts a job.  Only ANSIBLE finds its machines as they are.    *)
Begin(kind) ==
  /\ At("idle")
  /\ run' = [Idle EXCEPT !.kind = kind,
                         !.pc = IF kind = "DESTROY" THEN "destroy" ELSE "prepare"]
  /\ UNCHANGED <<lost, issued, disk, vm, etcd, asked, requested, complete>>

(* An exception or the death of the worker.  Nothing is cleaned up but       *)
(* temporary directories.                                                    *)
Stop ==
  /\ ~At("idle")
  /\ run' = Idle
  /\ UNCHANGED <<lost, issued, disk, vm, etcd, asked, requested, complete>>

-----------------------------------------------------------------------------
(* prepare_talos_assets *)

ReuseSecrets ==
  /\ At("prepare")
  /\ disk["secrets"] # NoPki
  /\ run' = [run EXCEPT !.pc = "render", !.pki = disk["secrets"]]
  /\ UNCHANGED <<lost, issued, disk, vm, etcd, asked, requested, complete>>

(* secrets.yaml is missing but controlplane.yaml still holds the PKI.        *)
RecoverSecrets ==
  /\ At("prepare")
  /\ disk["secrets"] = NoPki
  /\ disk["controlplane"] # NoPki
  /\ run' = [run EXCEPT !.pc = "install", !.pki = disk["controlplane"]]
  /\ UNCHANGED <<lost, issued, disk, vm, etcd, asked, requested, complete>>

(* Seeded fault: worker.yaml and talosconfig are not looked at.              *)
GenerateOverOutputs ==
  /\ At("prepare")
  /\ disk["secrets"] = NoPki /\ disk["controlplane"] = NoPki
  /\ \E p \in Pkis \ issued :
       /\ issued' = issued \union {p}
       /\ run' = [run EXCEPT !.pc = "install", !.pki = p]
  /\ UNCHANGED <<lost, disk, vm, etcd, asked, requested, complete>>

(* No trace of a PKI is left.  With only worker.yaml or talosconfig left the *)
(* code raises: no action but Stop is then possible.                         *)
GenerateSecrets ==
  /\ At("prepare")
  /\ \A f \in PkiSources : disk[f] = NoPki
  /\ \E p \in Pkis \ issued :
       /\ issued' = issued \union {p}
       /\ run' = [run EXCEPT !.pc = "install", !.pki = p]
  /\ UNCHANGED <<lost, disk, vm, etcd, asked, requested, complete>>

(* Seeded fault: the new secrets stay in the temporary directory.            *)
LeaveSecrets ==
  /\ At("install")
  /\ Goto("render")
  /\ UNCHANGED <<lost, issued, disk, vm, etcd, asked, requested, complete>>

InstallSecrets ==
  /\ At("install")
  /\ disk' = [disk EXCEPT !["secrets"] = run.pki]
  /\ Goto("render")
  /\ UNCHANGED <<lost, issued, vm, etcd, asked, requested, complete>>

(* All files are generated, patched and validated in a staging directory.    *)
RenderConfigs ==
  /\ At("render")
  /\ run' = [run EXCEPT !.pc = "controlplane", !.pki = disk["secrets"]]
  /\ UNCHANGED <<lost, issued, disk, vm, etcd, asked, requested, complete>>

ReplaceConfig ==
  /\ run.pc \in DOMAIN NextReplaced
  /\ disk' = [disk EXCEPT ![run.pc] = run.pki]
  /\ Goto(NextReplaced[run.pc])
  /\ UNCHANGED <<lost, issued, vm, etcd, asked, requested, complete>>

-----------------------------------------------------------------------------
(* Terraform changes machines.  The data of etcd lives as long as one of the *)
(* configured control planes.                                                *)
EtcdSurvives(machines) == \E n \in ControlPlanes : machines[n] \in Pkis

Machines(machines) ==
  /\ vm' = machines
  /\ etcd' = IF EtcdSurvives(machines) THEN etcd ELSE "none"
  /\ asked' = IF EtcdSurvives(machines) THEN asked ELSE 0

(* Terraform creates the machines of the plan, or replaces some when the     *)
(* configuration has changed; it may fail half-way.  The state is checked to *)
(* hold every node.  A new machine answers in maintenance mode unless its    *)
(* template or its address is not what the configuration says.               *)
TerraformApply ==
  /\ At("deploy") /\ run.kind = "APPLY"
  /\ \E touched \in SUBSET {n \in Nodes : vm[n] = "absent" \/ "replace" \in Faults} :
       \E new \in [touched -> MachineStates] :
         LET machines == [n \in Nodes |-> IF n \in touched THEN new[n] ELSE vm[n]]
         IN /\ Machines(machines)
            /\ IF \A n \in Nodes : machines[n] # "absent"
                 THEN Goto("classify")
                 ELSE run' = Idle
  /\ UNCHANGED <<lost, issued, disk, requested, complete>>

SkipTerraform ==
  /\ At("deploy") /\ run.kind = "ANSIBLE"
  /\ Goto("classify")
  /\ UNCHANGED <<lost, issued, disk, vm, etcd, asked, requested, complete>>

(* classify_talos_nodes and wait_for_talos_api: every node answers to this   *)
(* PKI or without one, at the configured version, before any is changed.     *)
Recognised(n) == vm[n] \in {run.pki, "maintenance"}

(* Seeded fault: each node is looked at only when its turn comes.            *)
ClassifyLater ==
  /\ At("classify")
  /\ run' = [run EXCEPT !.pc = "configure", !.left = Nodes]
  /\ UNCHANGED <<lost, issued, disk, vm, etcd, asked, requested, complete>>

ClassifyNodes ==
  /\ At("classify")
  /\ \A n \in Nodes : Recognised(n)
  /\ run' = [run EXCEPT !.pc = "configure", !.left = Nodes]
  /\ UNCHANGED <<lost, issued, disk, vm, etcd, asked, requested, complete>>

(* apply_talos_machine_configs: one node, and the wait until it answers to   *)
(* the PKI; a node that is not recognised refuses the configuration.  The    *)
(* nodes are taken in the order of the configuration, which is any order.    *)
ConfigureNode(n) ==
  /\ At("configure")
  /\ n \in run.left
  /\ Recognised(n)
  /\ vm' = [vm EXCEPT ![n] = run.pki]
  /\ run' = [run EXCEPT !.left = @ \ {n},
                        !.pc = IF run.left = {n} THEN "members" ELSE "configure"]
  /\ UNCHANGED <<lost, issued, disk, etcd, asked, requested, complete>>

-----------------------------------------------------------------------------
(* ensure_talos_bootstrap *)

(* "talosctl etcd members" succeeds, at first or while polling.              *)
MembersAnswer ==
  /\ run.pc \in {"members", "poll"}
  /\ etcd = "up"
  /\ complete' = TRUE
  /\ Goto("kubeconfig")
  /\ UNCHANGED <<lost, issued, disk, vm, etcd, asked, requested>>

(* It fails: etcd is not there, not up yet, or the call itself went wrong.   *)
MembersFail ==
  /\ At("members")
  /\ Goto("markers")
  /\ UNCHANGED <<lost, issued, disk, vm, etcd, asked, requested, complete>>

MarkersFound ==
  /\ At("markers")
  /\ requested \/ complete
  /\ Goto("poll")
  /\ UNCHANGED <<lost, issued, disk, vm, etcd, asked, requested, complete>>

WriteRequested ==
  /\ At("markers")
  /\ ~requested /\ ~complete
  /\ requested' = TRUE
  /\ Goto("bootstrap")
  /\ UNCHANGED <<lost, issued, disk, vm, etcd, asked, complete>>

(* The command is sent.  The node may have accepted it whatever the command  *)
(* returns, so only the members of etcd decide.                              *)
SendBootstrap ==
  /\ At("bootstrap")
  /\ asked' = asked + 1
  /\ etcd' \in IF etcd = "none" THEN {"none", "starting"} ELSE {etcd}
  /\ Goto("poll")
  /\ UNCHANGED <<lost, issued, disk, vm, requested, complete>>

(* fetch_talos_kubeconfig.  The rest of the job (Calico, Traefik, health,    *)
(* verification) changes nothing that is modelled here.                      *)
FetchKubeconfig ==
  /\ At("kubeconfig")
  /\ etcd = "up"
  /\ disk' = [disk EXCEPT !["kubeconfig"] = run.pki]
  /\ run' = Idle
  /\ UNCHANGED <<lost, issued, vm, etcd, asked, requested, complete>>

-----------------------------------------------------------------------------
(* Seeded fault: the markers go even when Terraform has failed.              *)
TerraformDestroyUnchecked ==
  /\ At("destroy")
  /\ \E gone \in SUBSET Nodes :
       Machines([n \in Nodes |-> IF n \in gone THEN "absent" ELSE vm[n]])
  /\ Goto("unlink_requested")
  /\ UNCHANGED <<lost, issued, disk, requested, complete>>

(* DESTROY: Terraform removes all machines or fails half-way; then the       *)
(* markers go, one by one, and the PKI stays.                                *)
TerraformDestroy ==
  /\ At("destroy")
  /\ \E gone \in SUBSET Nodes :
       /\ Machines([n \in Nodes |-> IF n \in gone THEN "absent" ELSE vm[n]])
       /\ IF \A n \in Nodes \ gone : vm[n] = "absent"
            THEN Goto("unlink_requested")
            ELSE run' = Idle
  /\ UNCHANGED <<lost, issued, disk, requested, complete>>

UnlinkRequested ==
  /\ At("unlink_requested")
  /\ requested' = FALSE
  /\ Goto("unlink_complete")
  /\ UNCHANGED <<lost, issued, disk, vm, etcd, asked, complete>>

UnlinkComplete ==
  /\ At("unlink_complete")
  /\ complete' = FALSE
  /\ run' = Idle
  /\ UNCHANGED <<lost, issued, disk, vm, etcd, asked, requested>>

-----------------------------------------------------------------------------
(* The nodes, and what may happen to the workspace between two runs.         *)

EtcdComesUp ==
  /\ etcd = "starting"
  /\ etcd' = "up"
  /\ UNCHANGED <<lost, issued, disk, vm, asked, requested, complete, run>>

EtcdOutage ==
  /\ "outage" \in Faults
  /\ etcd = "up"
  /\ etcd' = "starting"
  /\ UNCHANGED <<lost, issued, disk, vm, asked, requested, complete, run>>

(* A file is lost, but not the last trace of the PKI.                        *)
LoseFile(f) ==
  /\ "loss" \in Faults
  /\ At("idle")
  /\ \E g \in PkiSources \ {f} : disk[g] # NoPki
  /\ disk' = [disk EXCEPT ![f] = NoPki]
  /\ UNCHANGED <<lost, issued, vm, etcd, asked, requested, complete, run>>

LosePki ==
  /\ "loss_all" \in Faults
  /\ At("idle")
  /\ disk' = [f \in Files |-> NoPki]
  /\ lost' = TRUE
  /\ UNCHANGED <<issued, vm, etcd, asked, requested, complete, run>>

PrepareAssets ==
  ReuseSecrets \/ RecoverSecrets \/ GenerateSecrets \/ InstallSecrets
    \/ RenderConfigs \/ ReplaceConfig

EnsureBootstrap ==
  MembersAnswer \/ MembersFail \/ MarkersFound \/ WriteRequested \/ SendBootstrap

Next ==
  \/ \E kind \in Kinds : Begin(kind)
  \/ Stop
  \/ PrepareAssets
  \/ TerraformApply \/ SkipTerraform
  \/ ClassifyNodes
  \/ \E n \in Nodes : ConfigureNode(n)
  \/ EnsureBootstrap
  \/ FetchKubeconfig
  \/ TerraformDestroy \/ UnlinkRequested \/ UnlinkComplete
  \/ EtcdComesUp \/ EtcdOutage
  \/ \E f \in PkiSources : LoseFile(f)
  \/ LosePki

Spec == Init /\ [][Next]_vars

-----------------------------------------------------------------------------
(* The variables keep their types, and a run past prepare_talos_assets       *)
(* stages a PKI (worker.py:597).                                             *)
TypeOK ==
  /\ issued \subseteq Pkis
  /\ disk \in [Files -> Pkis \union {NoPki}]
  /\ vm \in [Nodes -> Pkis \union MachineStates]
  /\ etcd \in {"none", "starting", "up"}
  /\ asked \in Nat
  /\ requested \in BOOLEAN
  /\ complete \in BOOLEAN
  /\ lost \in BOOLEAN
  /\ run \in [kind : Kinds \union {"none"}, pc : Steps, pki : Pkis \union {NoPki},
              left : SUBSET Nodes]
  /\ run.pc \in Staged \union {"install"} => run.pki \in Pkis

(* A second bootstrap of the same control planes destroys their etcd: no     *)
(* crash, unclear answer, outage, retry or half-finished destroy makes the   *)
(* worker send one (ensure_talos_bootstrap; BUILDER.md: an unclear error     *)
(* never triggers a second bootstrap).                                       *)
BootstrapOnce == asked <= 1

(* No node joins the cluster while another answers to a foreign PKI or does  *)
(* not answer at all (the docstring of classify_talos_nodes).                *)
NoHalfJoin ==
  [][\A n \in Nodes : vm[n] \notin Pkis /\ vm'[n] \in Pkis
       => \A m \in Nodes : vm[m] \in {vm'[n], "maintenance"}]_vars

(* The comment "a worker crash after Terraform must never cause replacement  *)
(* cluster secrets" (worker.py:1179): as long as never every trace of the     *)
(* PKI was lost, all files, the kubeconfig and all nodes carry the same one, *)
(* across crashes, lost files and rebuilt machines.                          *)
PkisInUse ==
  Pkis \intersect ({disk[f] : f \in Files} \union {vm[n] : n \in Nodes})

OnePki == ~lost => \A p, q \in PkisInUse : p = q

(* The manual says that the bootstrap is requested exactly once (BUILDER.md):*)
(* then a run that waits for etcd without sending the command knows that one *)
(* was sent.                                                                 *)
PollsOnlyAfterRequest == At("poll") => asked >= 1
=============================================================================
