----------------------------- MODULE Reservations -----------------------------
(***************************************************************************)
(* Who gets which addresses, VM ids and credentials: the requests that     *)
(* save clusters, settings and credentials (app/main.py, app/services.py)  *)
(* and the worker, which asks Proxmox before it builds (validate_proxmox)  *)
(* and writes the status of a cluster without a look at its addresses.     *)
(*                                                                         *)
(* Clusters and settings are saved by coroutines that wait for the form    *)
(* only: what they do after it, one after the other, is interleaved with   *)
(* the worker and with the requests that run in threads (the deletion of a *)
(* credential or of a cluster, the reset of the settings).                 *)
(***************************************************************************)
EXTENDS Allocations

CONSTANTS
  Clusters,      (* ids of cluster records                                   *)
  Requests,      (* request handlers of the web process                      *)
  Credentials,   (* ids of the credentials there are at the start            *)
  Forms,         (* configurations users enter by hand                       *)
  Settings,      (* preferences users enter                                  *)
  Foreign,       (* guests of others in Proxmox: their VM id and address     *)
  MaxWrites      (* bound: how often settings and clusters are saved         *)

(* What a ClusterConfig consists of, as far as it matters here.              *)
Configurations ==
  [vip : Int, ip : [Roles -> Int], id : [Roles -> Int], count : [Roles -> Nat],
   network : Spans, gateway : Int, templates : SUBSET Int, credentials : SUBSET Credentials]

ASSUME ConstantsAssumption ==
  /\ None \notin Clusters \union Requests \union Credentials \union Configurations
  /\ Forms \subseteq Configurations
  /\ ValidPreferences(Defaults)
  /\ \A p \in Settings : IsPreferences(p)
  /\ Forms # {}
  /\ MaxWrites \in Nat

VARIABLES
  row,         (* clusters: the rows, None where there is none               *)
  preference,  (* the row of the settings, None for the system defaults      *)
  writes,      (* how often settings and clusters were saved                 *)
  credential,  (* the credentials there are                                  *)
  req,         (* the request each handler is serving                        *)
  machines,    (* per cluster: the configurations of the machines that its   *)
               (* Terraform state records                                    *)
  strays,      (* per cluster: those of machines a killed Terraform has made *)
               (* and its state does not record                              *)
  job,         (* the job the worker executes, None if none                  *)
  overtaken    (* history: clusters that became active, or lost credentials, *)
               (* without a check of their addresses, or of their clusters   *)

vars == <<row, preference, writes, credential, req, machines, strays, job, overtaken>>

Idle ==
  [pc |-> "idle", cluster |-> None, config |-> None, own |-> None, destroyed |-> FALSE,
   used |-> None, credential |-> None]

Init ==
  /\ row = [c \in Clusters |-> None]
  /\ preference = None /\ writes = 0
  /\ credential = Credentials
  /\ req = [r \in Requests |-> Idle]
  /\ machines = [c \in Clusters |-> {}]
  /\ strays = [c \in Clusters |-> {}]
  /\ job = None
  /\ overtaken = {}

-----------------------------------------------------------------------------
(* Operators.                                                                *)

UsersOf(k) == {c \in Active(row) : k \in row[c].config.credentials}
Stored(c) == IF c \in Clusters /\ row[c] # None THEN row[c].config ELSE None
Existing == {c \in Clusters : row[c] # None}

Running(c) == machines[c] \union strays[c]
OfOthers(c) == UNION {Running(d) : d \in Clusters \ {c}}
ForeignIds(c) == {g.id : g \in Foreign} \union UNION {VmIds(m) : m \in OfOthers(c)}
ForeignIps(c) == {g.ip : g \in Foreign} \union UNION {Addresses(m) : m \in OfOthers(c)}
AllIds == {g.id : g \in Foreign} \union UNION {VmIds(m) : m \in UNION {Running(c) : c \in Clusters}}

(* Machines of the cluster's own Terraform state are exempt, others that it  *)
(* has are not; addresses are those of the guests' configurations, which an  *)
(* API VIP is not part of.                                                   *)
ProxmoxFree(c, config) ==
  /\ VmIds(config) \intersect ForeignIds(c) = {}
  /\ Requested(config) \intersect ForeignIps(c) = {}
  /\ config \notin strays[c]

(* The form before anything is suggested: that of a new cluster has the      *)
(* network of the settings, that of an edit the cluster's own.               *)
Drafts(c) ==
  LET p == Effective(preference)
  IN IF c = None
     THEN {[f EXCEPT !.network = p.network, !.gateway = p.gateway, !.count = p.count] : f \in Forms}
     ELSE {row[c].config}

(* Seeded fault: the suggestion is made without the ids that Proxmox holds.  *)
SuggestedBlindly(c, others) ==
  {f \in {LET s == Suggestion(row, preference, d.count, c, {})
          IN IF s = None THEN None ELSE [d EXCEPT !.vip = s.vip, !.ip = s.ip, !.id = s.id] : d \in Drafts(c)}
     : f # None}

(* A suggestion replaces the API VIP, the first addresses and the first ids. *)
Suggested(c, others) ==
  {f \in {LET s == Suggestion(row, preference, d.count, c, others)
          IN IF s = None THEN None ELSE [d EXCEPT !.vip = s.vip, !.ip = s.ip, !.id = s.id] : d \in Drafts(c)}
     : f # None}

Drop(r) == req' = [req EXCEPT ![r] = Idle]
Move(r, pc) == req' = [req EXCEPT ![r].pc = pc]

-----------------------------------------------------------------------------
(* Saving a cluster: create_cluster and update_cluster.                      *)

(* The request arrives; c is None for a new cluster.  That of an edit loads  *)
(* the row, unless a job of the cluster is active, before it awaits the form.*)
Submit(r, c) ==
  /\ req[r].pc = "idle"
  /\ c \in Existing \union {None}
  /\ c # None /\ job # None => job.cluster # c
  /\ \E config \in Forms \union (IF c = None THEN Suggested(None, AllIds) ELSE {}) :
       req' = [req EXCEPT ![r] = [Idle EXCEPT !.pc = "form", !.cluster = c, !.config = config,
                                             !.own = Stored(c),
                                             !.destroyed = c # None /\ row[c].destroyed]]
  /\ UNCHANGED <<row, preference, writes, credential, machines, strays, job, overtaken>>

(* The event loop serves one coroutine at a time, and none of them waits     *)
(* once it has its form.                                                     *)
LoopFree == \A r \in Requests : req[r].pc \notin {"allocations", "save"}

(* bind_proxmox_credential, build_cluster_from_form, and the checks of the   *)
(* template, for which Proxmox is asked, and of the key pair.                *)
CheckForm(r) ==
  /\ req[r].pc = "form"
  /\ LoopFree
  /\ IF req[r].config.credentials \subseteq credential /\ ValidCluster(req[r].config)
       THEN Move(r, "allocations") ELSE Drop(r)
  /\ UNCHANGED <<row, preference, writes, credential, machines, strays, job, overtaken>>

CheckAllocations(r) ==
  /\ req[r].pc = "allocations"
  /\ IF Conflicts(row, preference, req[r].cluster, req[r].own, req[r].config)
       THEN Drop(r) ELSE Move(r, "save")
  /\ UNCHANGED <<row, preference, writes, credential, machines, strays, job, overtaken>>

(* What the history holds of c: whether it is active although nobody has     *)
(* checked its addresses, and whether credentials of it are gone.            *)
History(c, config, unchecked) ==
  (overtaken \ ({c} \X {"addresses", "credentials"}))
    \union (IF unchecked THEN {<<c, "addresses">>} ELSE {})
    \union (IF config.credentials \subseteq credential THEN {} ELSE {<<c, "credentials">>})

(* The commit: a changed configuration loses its plan and its DESTROYED.     *)
(* What has changed is judged by the row the session has loaded; so the      *)
(* DESTROYED of a job that has ended since may stay.                         *)
Save(r, c) ==
  /\ IF req[r].config = req[r].own
       THEN UNCHANGED <<row, overtaken>>
       ELSE \E destroyed \in BOOLEAN :
              /\ destroyed => ~req[r].destroyed /\ row[c] # None /\ row[c].destroyed
              /\ row' = [row EXCEPT ![c] =
                           [config |-> req[r].config, destroyed |-> destroyed, planned |-> FALSE]]
              /\ overtaken' = History(c, req[r].config, FALSE)
  /\ writes < MaxWrites /\ writes' = writes + 1
  /\ Drop(r)
  /\ UNCHANGED <<preference, credential, machines, strays, job>>

SaveNew(r, c) ==
  /\ req[r].pc = "save" /\ req[r].cluster = None
  /\ row[c] = None /\ Running(c) = {}
  /\ Save(r, c)

(* The update of a row that was deleted meanwhile fails.                     *)
SaveEdited(r) ==
  /\ req[r].pc = "save"
  /\ req[r].cluster \in Existing
  /\ Save(r, req[r].cluster)

(* The process ends, Proxmox does not answer, another name is taken.         *)
Fail(r) ==
  /\ req[r].pc # "idle"
  /\ Drop(r)
  /\ UNCHANGED <<row, preference, writes, credential, machines, strays, job, overtaken>>

-----------------------------------------------------------------------------
(* Settings and credentials.                                                 *)

(* Seeded fault: settings are saved as they come.                            *)
UpdateAnyway == \E p \in Settings :
  /\ writes < MaxWrites
  /\ preference' = p /\ writes' = writes + 1
  /\ UNCHANGED <<row, credential, req, machines, strays, job, overtaken>>

(* update_preferences, and reset_preferences, which runs in a thread.        *)
UpdatePreferences == \E p \in {q \in Settings : ValidPreferences(q)} \union {None} :
  /\ writes < MaxWrites
  /\ p # preference
  /\ p # None => LoopFree
  /\ preference' = p /\ writes' = writes + 1
  /\ UNCHANGED <<row, credential, req, machines, strays, job, overtaken>>

(* Seeded fault: a credential is deleted without a look at the clusters.     *)
BeginDeleteUnchecked(r) == \E k \in credential :
  /\ req[r].pc = "idle"
  /\ req' = [req EXCEPT ![r] = [Idle EXCEPT !.pc = "delete", !.credential = k, !.used = UsersOf(k)]]
  /\ UNCHANGED <<row, preference, writes, credential, machines, strays, job, overtaken>>

BeginDeleteCredential(r) == \E k \in credential :
  /\ req[r].pc = "idle"
  /\ UsersOf(k) = {}
  /\ req' = [req EXCEPT ![r] = [Idle EXCEPT !.pc = "delete", !.credential = k, !.used = UsersOf(k)]]
  /\ UNCHANGED <<row, preference, writes, credential, machines, strays, job, overtaken>>

(* No foreign key: nothing keeps the row if a cluster has come to use it.    *)
DeleteCredential(r) ==
  /\ req[r].pc = "delete"
  /\ credential' = credential \ {req[r].credential}
  /\ overtaken' = overtaken \union ((UsersOf(req[r].credential) \ req[r].used) \X {"credentials"})
  /\ Drop(r)
  /\ UNCHANGED <<row, preference, writes, machines, strays, job>>

-----------------------------------------------------------------------------
(* The worker, one job at a time.  DESTROY_PLAN changes nothing here: one    *)
(* can have been made, and reviewed, of any cluster, also a DESTROYED one.   *)

HasCredentials(c) == row[c].config.credentials \subseteq credential
Executes(kind, pc) == job # None /\ job.kind = kind /\ job.pc = pc

(* The worker writes a status other than DESTROYED.                          *)
Activate(c, planned) ==
  /\ row' = [row EXCEPT ![c].destroyed = FALSE, ![c].planned = planned]
  /\ overtaken' = IF row[c].destroyed THEN History(c, row[c].config, TRUE) ELSE overtaken

(* execute, its first session: the configuration and the credentials.        *)
StartJob(kind, c) ==
  /\ job = None /\ row[c] # None /\ HasCredentials(c)
  /\ kind = "APPLY" => row[c].planned
  /\ job' = [kind |-> kind, pc |-> "started", cluster |-> c, config |-> row[c].config]
  /\ UNCHANGED <<row, preference, writes, credential, req, machines, strays, overtaken>>

(* An APPLY or a DESTROY ends before it has begun: without credentials, with *)
(* an outdated configuration, in what comes before, or with the worker.      *)
FailJob(c) ==
  /\ row[c] # None
  /\ job # None => job.cluster = c /\ job.pc = "started" /\ job.kind # "PLAN"
  /\ Activate(c, row[c].planned)
  /\ job' = None
  /\ UNCHANGED <<preference, writes, credential, req, machines, strays>>

(* PLAN: the old plan is invalidated before anything is checked.             *)
InvalidatePlan ==
  LET c == job.cluster IN
  /\ Executes("PLAN", "started")
  /\ IF row[c] = None
       THEN job' = None /\ UNCHANGED <<row, overtaken>>
       ELSE Activate(c, FALSE) /\ job' = [job EXCEPT !.pc = "running"]
  /\ UNCHANGED <<preference, writes, credential, req, machines, strays>>

(* .. and the new one recorded, if Proxmox and Terraform agree.              *)
FinishPlan ==
  LET c == job.cluster IN
  /\ Executes("PLAN", "running")
  /\ \/ ProxmoxFree(c, job.config) /\ row[c] # None
        /\ row' = [row EXCEPT ![c].planned = (row[c].config = job.config)]
     \/ UNCHANGED row
  /\ job' = None
  /\ UNCHANGED <<preference, writes, credential, req, machines, strays, overtaken>>

(* Seeded fault: Proxmox is asked before the plan only.                      *)
BeginUnchecked ==
  /\ Executes("APPLY", "started") /\ row[job.cluster] # None
  /\ Activate(job.cluster, FALSE)
  /\ job' = [job EXCEPT !.pc = "running"]
  /\ UNCHANGED <<preference, writes, credential, req, machines, strays>>

(* APPLY: the second check, immediately before the plan is consumed.         *)
BeginApply ==
  /\ Executes("APPLY", "started") /\ row[job.cluster] # None
  /\ ProxmoxFree(job.cluster, job.config)
  /\ Activate(job.cluster, FALSE)
  /\ job' = [job EXCEPT !.pc = "running"]
  /\ UNCHANGED <<preference, writes, credential, req, machines, strays>>

(* Terraform replaces the machines, or breaks with some of either; if it is  *)
(* killed, also with some that its state does not record.                    *)
TerraformApply ==
  LET c == job.cluster IN
  /\ Executes("APPLY", "running")
  /\ \E made \in {{job.config}, machines[c] \union {job.config}, machines[c]} :
       machines' = [machines EXCEPT ![c] = made]
  /\ \E stray \in SUBSET {job.config} : strays' = [strays EXCEPT ![c] = @ \union stray]
  /\ job' = None
  /\ UNCHANGED <<row, preference, writes, credential, req, overtaken>>

(* DESTROY: APPLYING, whatever the status was.                               *)
BeginDestroy ==
  /\ Executes("DESTROY", "started") /\ row[job.cluster] # None
  /\ Activate(job.cluster, row[job.cluster].planned)
  /\ job' = [job EXCEPT !.pc = "running"]
  /\ UNCHANGED <<preference, writes, credential, req, machines, strays>>

(* DESTROYED after all the recorded machines are gone; else FAILED.          *)
FinishDestroy ==
  LET c == job.cluster IN
  /\ Executes("DESTROY", "running")
  /\ \/ /\ machines' = [machines EXCEPT ![c] = {}]
        /\ row' = IF row[c] = None THEN row
                  ELSE [row EXCEPT ![c].destroyed = TRUE, ![c].planned = FALSE]
     \/ /\ \E left \in SUBSET machines[c] : machines' = [machines EXCEPT ![c] = left]
        /\ UNCHANGED row
  /\ job' = None
  /\ UNCHANGED <<preference, writes, credential, req, strays, overtaken>>

(* delete_cluster_record: if it is not destroyed, Proxmox is asked whether   *)
(* any of the VM ids that are configured or were applied exists.             *)
MayDelete(c) ==
  \/ row[c].destroyed
  \/ /\ row[c].config.credentials \subseteq credential
     /\ VmIds(row[c].config) \intersect AllIds = {} /\ machines[c] = {}

DeleteCluster(c) ==
  /\ row[c] # None
  /\ job # None => job.cluster # c
  /\ MayDelete(c)
  /\ row' = [row EXCEPT ![c] = None]
  /\ overtaken' = overtaken \ ({c} \X {"addresses", "credentials"})
  /\ UNCHANGED <<preference, writes, credential, req, machines, strays, job>>

Request(r) ==
  \/ (\E c \in Clusters \union {None} : Submit(r, c))
  \/ CheckForm(r) \/ CheckAllocations(r) \/ SaveEdited(r)
  \/ (\E c \in Clusters : SaveNew(r, c))
  \/ BeginDeleteCredential(r) \/ DeleteCredential(r)
  \/ Fail(r)

Worker ==
  \/ \E c \in Clusters : FailJob(c) \/ \E kind \in {"PLAN", "APPLY", "DESTROY"} : StartJob(kind, c)
  \/ InvalidatePlan \/ FinishPlan
  \/ BeginApply \/ TerraformApply
  \/ BeginDestroy \/ FinishDestroy

Next ==
  \/ (\E r \in Requests : Request(r))
  \/ UpdatePreferences \/ Worker
  \/ (\E c \in Clusters : DeleteCluster(c))

Spec == Init /\ [][Next]_vars

-----------------------------------------------------------------------------
(* What is said of the tables and of Proxmox only is looked at while no      *)
(* request is under way: any request may fail and leave them as they are.    *)
Quiet == \A r \in Requests : req[r].pc = "idle"

(* The rows hold what the validations of the schema and of the settings let  *)
(* through, and nothing but rows that exist is named anywhere.               *)
TypeOK ==
  /\ \A c \in Existing : {row[c].destroyed, row[c].planned} \subseteq BOOLEAN
  /\ Quiet => \A c \in Existing : ValidCluster(row[c].config)
  /\ preference # None => preference \in Settings /\ ValidPreferences(preference)
  /\ writes \in 0 .. MaxWrites
  /\ credential \subseteq Credentials
  /\ \A r \in Requests :
       /\ req[r].pc \in {"idle", "form", "allocations", "save", "delete"}
       /\ req[r].cluster \in Clusters \union {None}
       /\ req[r].credential \in (IF req[r].pc = "delete" THEN Credentials ELSE {None})
  /\ job # None =>
       /\ job.cluster \in Clusters
       /\ job.kind \in {"PLAN", "APPLY", "DESTROY"} /\ job.pc \in {"started", "running"}
  /\ overtaken \subseteq Clusters \X {"addresses", "credentials"}

Share(f, g) == Requested(f) \intersect Requested(g) # {} \/ VmIds(f) \intersect VmIds(g) # {}

(* No two clusters have machines with the same VM id or address, and no      *)
(* cluster has one of a foreign guest, whatever saves, edits, destructions   *)
(* and new plans overlap: what saving lets through, validate_proxmox stops.  *)
(* Machines that a killed Terraform has left count.                          *)
MachinesDisjoint ==
  \A c \in Clusters : \A m \in Running(c) :
    VmIds(m) \intersect ForeignIds(c) = {} /\ Addresses(m) \intersect ForeignIps(c) = {}

(* Two active clusters share no address (the API VIP included) and no VM id, *)
(* unless the worker has made one of them active again after it had been     *)
(* DESTROYED, and it has not been saved since: a plan, a destruction or a    *)
(* job that fails of a DESTROYED cluster looks at no other cluster, and the  *)
(* addresses of a DESTROYED one are free for others.                         *)
SavedDisjoint ==
  \A c, d \in Active(row) :
    c # d /\ {<<c, "addresses">>, <<d, "addresses">>} \intersect overtaken = {}
      => ~Share(row[c].config, row[d].config)

(* A cluster that has machines or may get some has its credentials, or       *)
(* nobody could destroy it; unless they were deleted around the save, or the *)
(* worker has made it active again without them.                             *)
CredentialsKept ==
  \A c \in Active(row) :
    <<c, "credentials">> \notin overtaken => row[c].config.credentials \subseteq credential

(* What is suggested, for a new cluster or an edit, does not collide with    *)
(* other clusters and reservations.  It passes the validation of the         *)
(* configuration as well, if that has the network and the gateway of the     *)
(* settings (that of an older cluster may have others) and no id of a        *)
(* template was suggested, as is the case when Proxmox has been asked.       *)
SuggestionIsAccepted ==
  LET p == Effective(preference) IN
  Quiet => \A c \in Existing \union {None} : \A others \in {{}, AllIds} :
    \A config \in Suggested(c, others) :
      /\ ~Conflicts(row, preference, c, Stored(c), config)
      /\ /\ config.network = p.network /\ config.gateway = p.gateway
         /\ config.templates \intersect VmIds(config) = {} \/ config.templates \subseteq others
         => ValidCluster(config)

(* A suggestion fails only if a pool has no room left by other clusters,     *)
(* guests and reservations: the blocks suggested for one role never take     *)
(* the room of another.                                                      *)
RoomIsSuggested ==
  LET p == Effective(preference)
      ips == UsedIps(row, None) \union ParseReserved(p)
  IN /\ Quiet
     /\ \A k \in Roles : Free(p.ips[k], p.count[k], ips) # {}
                        /\ Free(p.ids[k], p.count[k], UsedIds(row, None) \union AllIds) # {}
     /\ Free(p.ips["vip"], 1, ips) # {}
     => Suggested(None, AllIds) # {}

(* The edit page of an active cluster can be saved as it is, whatever has    *)
(* been reserved in the settings since.                                      *)
UnchangedIsAccepted ==
  Quiet => \A c \in Active(row) :
    {<<d, "addresses">> : d \in Clusters} \intersect overtaken = {}
      => ~Conflicts(row, preference, c, row[c].config, row[c].config)

(* "Diese Adressen werden bei automatischen Vorschlägen immer übersprungen"  *)
(* (app/templates/settings.html): no suggestion holds a reserved address.    *)
ReservedIsSkipped ==
  \A config \in Suggested(None, AllIds) :
    \A r \in Effective(preference).reserved : Requested(config) \intersect Span(r) = {}
=============================================================================
