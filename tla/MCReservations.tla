---------------------------- MODULE MCReservations ----------------------------
(* Instances of Reservations for TLC.  The network has 32 addresses; every   *)
(* pool has room for two clusters at most.                                   *)
EXTENDS Reservations, TLC

CONSTANTS k1, c1, c2, r1, r2

R(a, b) == [first |-> a, last |-> b]

MCDefaults ==
  [network |-> R(0, 31), gateway |-> 1, pods |-> R(100, 163), services |-> R(200, 263),
   ips |-> [k \in Roles \union {"vip"} |->
              CASE k = "vip" -> R(2, 4) [] k = "lb" -> R(5, 9) [] k = "cp" -> R(10, 15) [] k = "worker" -> R(16, 19)],
   ids |-> [k \in Roles |->
              CASE k = "lb" -> R(100, 103) [] k = "cp" -> R(110, 116) [] k = "worker" -> R(119, 122)],
   count |-> [k \in Roles |-> CASE k = "lb" -> 2 [] k = "cp" -> 3 [] k = "worker" -> 1],
   reserved |-> {}]

(* The same settings for the next network.                                   *)
Shift(r) == R(r.first + 32, r.last + 32)
MCMoved ==
  [MCDefaults EXCEPT !.network = Shift(@), !.gateway = 33,
                     !.ips = [k \in DOMAIN @ |-> Shift(@[k])]]

(* Reserved: the first address of the load balancers, and the network of     *)
(* four addresses that is the pool of the workers.  Refused: overlapping     *)
(* pools, and a pool outside of the network.                                 *)
MCSettings ==
  {MCMoved,
   [MCDefaults EXCEPT !.reserved = {R(5, 5), R(16, 19)}],
   [MCDefaults EXCEPT !.ips["lb"] = R(10, 13), !.ips["cp"] = R(10, 12)],
   [MCDefaults EXCEPT !.ips["worker"] = R(30, 35)]}

Hand(vip, lb, cp, worker) ==
  [vip |-> vip, count |-> MCDefaults.count, network |-> MCDefaults.network, gateway |-> 1,
   templates |-> {119}, credentials |-> Credentials,
   ip |-> [k \in Roles |-> CASE k = "lb" -> lb [] k = "cp" -> cp [] k = "worker" -> worker],
   id |-> [k \in Roles |-> CASE k = "lb" -> 100 + lb - 5 [] k = "cp" -> 110 + cp - 10 [] k = "worker" -> 120 + worker - 16]]

(* It leaves every pool room for a second cluster, and shares some of its    *)
(* addresses with what is suggested while there is no cluster.               *)
MCForms == {Hand(2, 7, 13, 16)}

Symmetry == Permutations(Clusters) \union Permutations(Requests)

(* A guest in the pool of the workers, and the template, which has no        *)
(* address, in it too.                                                       *)
MCForeign == {[id |-> 121, ip |-> 25], [id |-> 119, ip |-> -1]}
=============================================================================
