----------------------------- MODULE MCClusterJobs -----------------------------
(* ClusterJobs for TLC: the values of the constants and their symmetry.      *)
EXTENDS ClusterJobs, TLC

CONSTANTS hashA, hashB, r1, r2, w1, w2, c1, c2

(* Requests, workers, clusters and configurations are interchangeable.       *)
Symmetry ==
  Permutations(Hashes) \union Permutations(Requests) \union Permutations(Workers)
    \union Permutations(Clusters)

(* A finished job that no worker still executes influences nothing but its   *)
(* own pruning: TLC need not tell its kind, hash and outcome apart.          *)
Settled(j) ==
  jobs[j].status \in FinalStatuses /\ \A w \in Workers : work[w].job # j

SettledJobs == [j \in DOMAIN jobs |-> IF Settled(j) THEN jobs[j].cluster ELSE jobs[j]]

View == <<row, issued, lock, req, work, disk, machines, history, SettledJobs>>

(* Without VERIFY, MANIFEST and ANSIBLE no guard reads the kubeconfig.  The   *)
(* properties of jobs_overlap read neither it nor `abandoned`.               *)
OverlapView ==
  <<row, issued, lock, req, work, [c \in Clusters |-> [disk[c] EXCEPT !.kubeconfig = None]],
    machines, overtaken, SettledJobs>>
=============================================================================
