------------------------------- MODULE JobQueue --------------------------------
(***************************************************************************)
(* What the job table promises to its users, whatever requests and workers *)
(* do to it: a cluster has at most one open job, a job starts at most once *)
(* and only while it waits, and a closed job never opens again.  In which  *)
(* order waiting jobs start is not promised: claim_job skips locked rows.  *)
(* ClusterJobs implements it.                                              *)
(***************************************************************************)
EXTENDS Naturals

CONSTANTS Clusters, MaxJobs, None

Ids == 1 .. MaxJobs

VARIABLES
  phase,   (* of each job id                           *)
  owner    (* the cluster an open job belongs to       *)

queueVars == <<phase, owner>>

Open(j) == phase[j] \in {"waiting", "running"}

QueueInit ==
  /\ phase = [j \in Ids |-> "unused"]
  /\ owner = [j \in Ids |-> None]

Submit(j, c) ==
  /\ phase[j] = "unused" /\ \A i \in Ids : i < j => phase[i] # "unused"
  /\ \A i \in Ids : Open(i) => owner[i] # c
  /\ phase' = [phase EXCEPT ![j] = "waiting"]
  /\ owner' = [owner EXCEPT ![j] = c]

Start(j) ==
  /\ phase[j] = "waiting"
  /\ phase' = [phase EXCEPT ![j] = "running"]
  /\ UNCHANGED owner

(* The end of a run, a cancellation, a recovery or the deletion of the row. *)
Close(some) ==
  /\ \A j \in some : Open(j)
  /\ phase' = [j \in Ids |-> IF j \in some THEN "closed" ELSE phase[j]]
  /\ owner' = [j \in Ids |-> IF j \in some THEN None ELSE owner[j]]

QueueNext ==
  \/ \E j \in Ids : Start(j) \/ \E c \in Clusters : Submit(j, c)
  \/ \E some \in SUBSET Ids : Close(some)

QueueSpec == QueueInit /\ [][QueueNext]_queueVars

(* No job waits for ever and no job runs for ever.                         *)
EveryJobCloses == \A j \in Ids : Open(j) ~> phase[j] = "closed"
=============================================================================
